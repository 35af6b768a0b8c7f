SPECIFICATION FairSpec
CONSTANTS
    c1 = c1
    c2 = c2
    n1 = n1
    n2 = n2
    Controller = {c1, c2}
    Consumer = {n1, n2}
    ConsumerOf <- MCConsumerOf
    StreamBatchSize = 2
    Client = {k}
    Server <- MCServer
    Capacity = 1
    Session = {s}
    BrainRequestSegments = 1
    MaxEntries = 2
    MaxConnections = 1
    MaxFaults = 1
INVARIANTS
    HandlingsNeedFaults
    AnswersHaveAskers
    GapsNeedOverrun
PROPERTIES
    HandlesAtLeastOnce
    GroupDrains
    ItemsReachClients
CHECK_DEADLOCK FALSE

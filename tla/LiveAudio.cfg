SPECIFICATION FairSpec
CONSTANTS
    one = one
    two = two
    none = none
    u1 = u1
    u2 = u2
    u3 = u3
    Chunk = {one, two, none}
    EmptyChunk = {none}
    Utterance = {u1, u2, u3}
    UtterancesOf <- MCUtterancesOf
    ChannelCapacity = 2
    ReplyWindow = 2
    MaxResults = 2
    MaxFaults = 2
INVARIANTS
    TypeOK
    PublishedOnce
    SegmentsAreAcoustic
PROPERTY FirstResultsArePublished
CHECK_DEADLOCK FALSE

SPECIFICATION FairSpec
CONSTANTS
    s1 = s1
    s2 = s2
    v1 = v1
    v2 = v2
    ana = ana
    bob = bob
    a0 = a0
    a1 = a1
    a0v2 = a0v2
    b0 = b0
    c = c
    x = x
    Segment = {a0, a1, c, x}
    Session = {s1}
    Tag = {0, 1}
    Voice = {v1, v2}
    Name = {ana, bob}
    NoVoice = NoVoice
    NoName = NoName
    SessionOf <- MCSessionOf
    TagOf <- MCTagOf
    VoiceOf <- MCVoiceOf
    Undecodable = {x}
    BrainRequestSegments = 1
    StreamBatchSize = 2
    MemoryUp = TRUE
    Refused = {}
    CommandBackend = FALSE
    Answers <- FirstOrNone
    MaxFaults = 1
INVARIANT AcksInOrder
PROPERTIES
    StreamDrains
    RequestsAreAnswered
    NamedSegmentsAreShown
CHECK_DEADLOCK FALSE

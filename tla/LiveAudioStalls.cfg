SPECIFICATION FairSpec
CONSTANTS
    one = one
    two = two
    none = none
    u1 = u1
    u2 = u2
    u3 = u3
    Chunk = {one, two}
    EmptyChunk = {}
    Utterance = {u1, u2, u3}
    UtterancesOf <- MCUtterancesOf
    ChannelCapacity = 2
    ReplyWindow = 2
    MaxResults = 1
    MaxFaults = 0
PROPERTY LiveAudioIsHeard
CHECK_DEADLOCK FALSE

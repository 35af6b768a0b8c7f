SPECIFICATION FairSpec
CONSTANTS
    long = long
    short = short
    bad = bad
    Path = {long, short, bad}
    Undecodable = {bad}
    FileInfo <- SameInfo
    FileLength <- MCFileLength
    RivaInfo <- MCRivaInfo
    ChunkBytes = 4
    Chunk <- MCChunk
    Utterance <- MCChunk
    UtterancesOf <- MCUtterancesOf
    ChannelCapacity = 1
    ReplyWindow = 6
    MaxResults = 2
    MaxFaults = 2
INVARIANTS
    TypeOK
    TranscriptsHaveNoGaps
    FailureCostsOneJob
    ExcerptsAreOwnAudio
PROPERTY JobsAreWorkedOff
CHECK_DEADLOCK FALSE

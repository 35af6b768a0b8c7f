SPECIFICATION Spec
CONSTANTS
    long = long
    short = short
    bad = bad
    Path = {long, short, bad}
    Undecodable = {bad}
    FileInfo <- MixedInfo
    FileLength <- MCFileLength
    RivaInfo <- MCRivaInfo
    ChunkBytes = 4
    Chunk <- MCChunk
    Utterance <- MCChunk
    UtterancesOf <- MCUtterancesOf
    ChannelCapacity = 1
    ReplyWindow = 6
    MaxResults = 1
    MaxFaults = 0
INVARIANT ExcerptsAreOwnAudio
CHECK_DEADLOCK FALSE

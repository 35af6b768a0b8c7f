SPECIFICATION Spec
CONSTANTS
    LiveInfo <- MCOddInfo
    ChunkLength = {0, 1, 2, 3, 6}
    MaxChunks = 4
    MaxMs = 14
INVARIANTS
    DriftIsBounded
    ExcerptInChunkIsExact
    NoLaterAudio
CHECK_DEADLOCK FALSE

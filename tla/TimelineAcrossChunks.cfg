SPECIFICATION Spec
CONSTANTS
    LiveInfo <- MCLiveInfo
    ChunkLength = {2, 6}
    MaxChunks = 3
    MaxMs = 9
INVARIANT ExcerptIsExact
CHECK_DEADLOCK FALSE

SPECIFICATION Spec
CONSTANTS
    FileLength = {0, 11, 12, 31, 36, 44, 52, 61, 76}
    ChunkSize = {0, 1, 8, 15, 16, 17, 24, 32}
    Format <- MCFormat
    DefaultInfo <- MCDefaultInfo
    Words <- MCWords
    Processed = {0, 9}
INVARIANTS
    SamplesInFile
    SamplesAreFrames
    ExcerptOnFrames
    ExcerptCoversWords
CHECK_DEADLOCK FALSE

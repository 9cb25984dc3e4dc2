CONSTANTS
    MaxInodes = 3
    PerSector = 2
    MaxBlocks = 3
    MaxFileBlocks = 2
    BlockSize = 2
    ShortNames = {"a", "s"}
    LongNames = {}
    Cut = "cut"
    Buffers <- SmallBuffers
    Seeds <- OneSeed
SPECIFICATION FaultSpec
INVARIANTS
    BitmapTracks

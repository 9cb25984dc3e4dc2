CONSTANTS
    MaxInodes = 3
    PerSector = 2
    MaxBlocks = 3
    MaxFileBlocks = 2
    BlockSize = 2
    ShortNames = {"a", "s"}
    LongNames = {"long"}
    Cut = "cut"
    Buffers <- SmallBuffers
    Seeds <- OneSeed
    MaxOpenFiles = 1
    Lengths = {1, 3}
SPECIFICATION VSpec
INVARIANTS
    FTypeOK
    BlocksExact
    VTypeOK
    ReadsSnapshot
PROPERTIES
    IsFileStore

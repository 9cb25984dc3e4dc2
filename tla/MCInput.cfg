CONSTANTS
    Sessions <- MCSessions
    KeyBufferSize = 2
    EventBufferSize = 3
    TermCols = 3
    TermHistory = 2
    EditBuf = 2
    ScreenW = 3
    ScreenH = 2
    MaxWire = 1
SPECIFICATION ISpec
INVARIANTS
    ITypeOK
    NoStuckModifier
    KeysFaithful
    MouseAgrees
PROPERTIES
    IsLossyQueue
    InputIsRead

CONSTANTS
    MaxProcs = 4
    Quantum = 1
    MaxPid = 4
    Stacks = {k1, k2, k3}
    NULL = NULL
    ManyUsers = FALSE
SPECIFICATION CSpec
INVARIANTS
    RunsCurrent
    CTypeOK
    ReadyFrameIntact
    OwnAddressSpace

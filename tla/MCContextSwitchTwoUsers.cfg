CONSTANTS
    MaxProcs = 4
    Quantum = 1
    MaxPid = 4
    Stacks = {k1, k2, k3}
    NULL = NULL
    ManyUsers = TRUE
SPECIFICATION CSpec
INVARIANTS
    RunsCurrent

CONSTANTS
    MaxProcs = 4
    Quantum = 1
    MaxPid = 5
    Stacks = {k1, k2, k3}
    NULL = NULL
SPECIFICATION SpawnSpec
INVARIANTS
    RingIsInUseWhenIdle

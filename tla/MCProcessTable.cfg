CONSTANTS
    MaxProcs = 4
    Quantum = 2
    MaxPid = 5
    Stacks = {k1, k2, k3}
    NULL = NULL
SPECIFICATION TFairSpec
INVARIANTS
    TypeOK
    RingIsInUse
    OneRunning
    StackOwned
PROPERTIES
    ZombieStaysDead
    NoOvertaking
    ReadyGetsCpu
    ExitedIsReaped

CONSTANTS
    HeapSize = 11
    HeaderSize = 1
    MinRest = 1
    Requests = {0, 1, 3}
SPECIFICATION HSpec
INVARIANTS
    HTypeOK
    Tiling
    UsedIsOwned
PROPERTIES
    IsAllocator

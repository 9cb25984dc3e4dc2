CONSTANTS
    TotalFrames = 24
    ReservedEnd = 2
    TableSize = 8
    Dirs = 6
    IdentityDirs = 2
    Framebuffer <- MCFramebuffer
    Stack <- MCStack
    Images <- MCImages
    s1 = s1
    s2 = s2
    Slots = {s1, s2}
SPECIFICATION MSpec
INVARIANTS
    MTypeOK
    KernelSeenByAll
    KeptByKernel
    PanicOnlyPastMap

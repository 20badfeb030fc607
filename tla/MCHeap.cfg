CONSTANTS
    ALIGN = 16
    HDR = 32
    PAGE = 96
    HeapStart = 4096
    InitPages = 2
    Sizes <- MCSizes
    MaxEnd = 4480
SPECIFICATION Spec
INVARIANTS
    TypeOK
    WellFormed
    Coalesced
    BlocksDisjoint
PROPERTIES
    GrowsOnlyWhenFull
    MallocReturns

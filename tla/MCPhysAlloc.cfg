CONSTANTS
    PageSize <- MCPageSize
    MemMaps <- MCMemMaps
    MaxCount = 2
    MaxIndex = 10
SPECIFICATION Spec
INVARIANTS
    TypeOK
    GrantsDisjoint
    BitmapExact
    CountersMatchBitmap
PROPERTY ImplementsOwnership

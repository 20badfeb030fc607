CONSTANTS
    NPages = 7
    Index <- MCIndex
    VPages <- MCVPages
    Frames = {101, 102}
    NONE = NONE
SPECIFICATION PagingSpec
INVARIANTS MapsExactly TablesApart
CHECK_DEADLOCK FALSE

CONSTANTS
    PageSize = 2
    NPages = 7
    VLimit = 4
    StackPages = 1
    Files <- MCFiles
    Pools <- MCPools
    NONE = NONE
    ZERO = ZERO
    OTHERS = OTHERS
    Numbers = {0, 60}
    Rounds = 2
SPECIFICATION ProgramSpec
INVARIANTS
    SegmentsLoaded
    OwnPages
    ContextKept
    HandlerCalled
CHECK_DEADLOCK FALSE

CONSTANTS
    Names = {bin, dash}
    MaxDepth = 2
    Addresses = {a1, a2, a3}
    NULL = NULL
    MountBound = 3
    FileBound = 1
SPECIFICATION Spec
SYMMETRY Symmetric
INVARIANTS TableExact
PROPERTIES OpensUnderDeepest OthersUndisturbed
CHECK_DEADLOCK FALSE

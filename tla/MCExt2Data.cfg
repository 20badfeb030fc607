CONSTANTS
    NDirect = 2
    PerBlock = 2
    LengthBound = 9
    PastBound = 1
    Wrap = 64
    NONE = NONE
    JUNK = JUNK
    Sizes = {2, 5}
SPECIFICATION Spec
INVARIANTS Sequential StaysInBuffer
CHECK_DEADLOCK FALSE

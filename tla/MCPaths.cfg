CONSTANTS
    Letters = {"a", "b"}
    MAX_NAME = 3
    ALIGN = 4
    LengthBound = 6
    DepthBound = 3
SPECIFICATION ParseSpec
INVARIANTS Parsed StaysInBlock
CHECK_DEADLOCK FALSE

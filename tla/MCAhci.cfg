CONSTANTS
    NPages = 9
    Slots = 2
    TablesPerPage = 1
    SectorsPerPage = 2
    Radix = 2
    PrdtSectors = 3
    DiskSize = 10
    Starts = {0, 1, 8}
    Counts = {0, 1, 3, 4}
SPECIFICATION Spec
INVARIANTS
    DmaOwned
    ReadsKeepNothing
PROPERTIES
    CommandStable
    ImplementsDisk
    CallsReturn
CHECK_DEADLOCK FALSE

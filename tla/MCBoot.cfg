CONSTANTS
    MaxLines = 5
    PCI_MAX_DRIVERS = 2
    BusLimit = 64
    MaxPartitions = 255
    Machines <- MCMachines
    NULL = NULL
SPECIFICATION Spec
INVARIANTS ScreenShowsLog FromSecondPartition
PROPERTIES BootsIfItCan
CHECK_DEADLOCK FALSE

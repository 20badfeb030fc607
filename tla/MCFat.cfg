CONSTANTS
    DiskSize = 21
    Content <- MCContent
    SectorSize = 2
    MaxPartitions = 255
    Volumes <- MCVolumes
    Partition <- MCPartition
    Clusters = 5
    EOC = 7
    Wrap = 64
    PastBound = 1
    Paths <- MCPaths
    Sizes = {3, 6}
SPECIFICATION Spec
INVARIANTS OpensWhatIsNamed TransfersMatch ListsEntries TimestampsArePosix
PROPERTIES WritesOnlyTheFile CallsReturn
CHECK_DEADLOCK FALSE

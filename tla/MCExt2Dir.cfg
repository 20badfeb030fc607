CONSTANTS
    Superblocks <- MCSuperblocks
    Trees <- MCTrees
    Paths <- MCPaths
    Junk <- MCJunk
    StrayTail = 1
    Rooms = {0, 1, 3, 4}
    NULL = NULL
SPECIFICATION DirSpec
INVARIANTS OpensWhatIsNamed ListsEntries

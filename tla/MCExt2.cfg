CONSTANTS
    Paths <- MCPaths
    FirstInode = 3
    InodesCount = 5
    BlocksCount = 6
    BlockUnits = 2
    DirectBlocks = 1
    PerIndirect = 2
    DirCapacity = 1
    SuperblockUnit <- MCNoUnit
    Sparse <- MCHole
    Sizes <- MCSizes
    Lengths <- MCLengths
    MaxLinks = 4
    Mark = 1
    Dir = Dir
    n1 = n1
    n2 = n2
SPECIFICATION Spec
VIEW ImageView
INVARIANTS
    BlocksOwnedOnce
    CountsExact
    OneTree
    LinksSuffice
    BlocksAccounted
PROPERTIES
    ServesTree

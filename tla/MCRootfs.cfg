CONSTANTS
    Paths <- MCPaths
    RawPaths <- MCRawPaths
    Length <- MCLength
    USER_FS_PATH_MAX = 14
    Devices <- MCDevices
    MaxFaults = 1
    FirstInode = 3
    InodesCount = 4
    BlocksCount = 4
    BlockUnits = 1
    DirectBlocks = 1
    PerIndirect = 1
    DirCapacity = 2
    SuperblockUnit <- MCNoUnit
    Sparse <- MCNone
    Sizes <- MCSizes
    Lengths <- MCLengths
    MaxLinks = 3
    Mark = 1
    Dir = Dir
    n1 = n1
    n2 = n2
SPECIFICATION RootfsSpec
INVARIANTS
    AckedOnDisk
    UntouchedSurvive
    NamesLead
    PathsResolved

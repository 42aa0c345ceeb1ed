CONSTANTS
    MaxProcesses = 3
    TotalPages = 11
    Image <- MCImageScarce
    InitImage = good
    Pages <- MCPages
    Valid <- MCValid
    Mappable <- MCMappable
    Tags <- MCOneTag
    Results <- MCResults
    Status <- MCStatus
    Dirs <- MCDirs
    Growth <- MCGrowthScarce
    WaitTicks = 1
    MaxTicks = 2
    MaxPid = 4
    Null = Null
    good = good
    corrupt = corrupt
    overlap = overlap
    t1 = t1
    t2 = t2
SPECIFICATION FairSpec
INVARIANTS
    FramesSpent
PROPERTIES
    SuspendedResumes
    InitStarts

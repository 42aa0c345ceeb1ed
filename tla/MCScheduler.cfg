CONSTANTS
    MaxProcesses = 3
    TotalPages = 13
    Image <- MCImage
    InitImage = good
    Pages <- MCPages
    Valid <- MCValid
    Mappable <- MCMappable
    Tags <- MCTags
    Results <- MCResults
    Status <- MCStatus
    Dirs <- MCDirs
    Growth <- MCGrowth
    WaitTicks = 1
    MaxTicks = 3
    MaxPid = 5
    Null = Null
    good = good
    corrupt = corrupt
    overlap = overlap
    t1 = t1
    t2 = t2
SPECIFICATION Spec
INVARIANTS
    TypeOK
    RunChain
    NeverBroken
    ContextPreserved
    SavedContexts
    AddressSpaceOwned
PROPERTIES
    SuspendedUntouched
    RunsLikeCalls

CONSTANTS
    TotalFrames = 15
    Entries = 6
    Half = 2
    KernelTop = 2
    KernelPages = 3
    HeapTop = 0
    HeapFirst = 3
    HeapPages = 2
    Word = 128
    PageUnits = 2
    EhdrUnits = 1
    PhdrUnits = 1
    MinVaddr = 2
    MaxVaddr = 23
    StackPage <- MCStackPage
    Images <- MCImages
    Program <- MCProgram
    Increments <- MCIncrements
    Requests <- MCRequests
    MallocAlign = 2
    HeaderUnits = 1
    Growth <- MCGrowth
    MaxProcesses = 2
SPECIFICATION Spec
CHECK_DEADLOCK FALSE
INVARIANTS
    FramesOwnedOnce
    KernelHeapEverywhere
    OwnData
    PromisedIsMapped
    BlocksApart

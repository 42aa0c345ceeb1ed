CONSTANTS
    Align = 16
    Overhead = 2
    PageUnits = 5
    ChunkPages = 2
    HeapMax = 30
    PtSpan = 4
    FrameCounts <- MCFrameCounts
    Requests <- MCRequests
SPECIFICATION Spec
INVARIANTS
    Tiled
    Coalesced
    AllocatedIsSum
    RegionsBacked
    FramesConserved
PROPERTIES
    ServesRegions

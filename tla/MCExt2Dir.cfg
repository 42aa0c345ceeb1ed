CONSTANTS
    Names <- MCNames
    NameUnits <- MCNameUnits
    BlockLen = 14
    MaxBlocks = 2
SPECIFICATION Spec
INVARIANTS
    WellFormed
    ListsWhatIsThere

CONSTANTS
    Names <- MCMoreNames
    NameUnits <- MCNameUnits
    BlockLen = 14
    MaxBlocks = 2
SPECIFICATION Spec
PROPERTIES
    RmRemovesOneFile

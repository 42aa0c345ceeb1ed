CONSTANTS
    Cols = 4
    Rows = 2
    TabWidth = 2
    Colours <- MCColours
    Black = "black"
    White = "white"
    Printable <- MCPrintable
    Texts <- MCTexts
    Capacity = 2
    MaxTotal = 4
SPECIFICATION Spec
CHECK_DEADLOCK FALSE
INVARIANT CatPrints

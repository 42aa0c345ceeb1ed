CONSTANTS
    Cols = 2
    Rows = 2
    TabWidth = 1
    Colours <- MCColours
    Black = "black"
    White = "white"
    Printable <- MCPrintable
    Texts <- MCTexts
    Capacity = 2
    MaxTotal = 6
SPECIFICATION Spec
CHECK_DEADLOCK FALSE
INVARIANT LogTail
PROPERTY ShowsText

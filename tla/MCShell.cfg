CONSTANTS
    Cols = 6
    Rows = 2
    TabWidth = 4
    Colours <- MCColours
    Black = "black"
    White = "white"
    Printable <- MCPrintable
    Letters <- MCLetters
    LINE_SIZE = 4
    HISTORY_SIZE = 2
    Outputs <- MCOutputs
SPECIFICATION Spec
CHECK_DEADLOCK FALSE
INVARIANTS
    LineShown
    HistoryKept

-------------------------------- MODULE Screen --------------------------------
(***************************************************************************)
(* What a text console promises: characters appear where the cursor is,    *)
(* the text wraps and scrolls, and the picture is right whenever a call    *)
(* returns.  How src/framebuffer/framebuffer.c keeps that promise is in    *)
(* Console; Shell writes to a screen like this one.                        *)
(***************************************************************************)
EXTENDS Integers, Sequences, SequencesExt

CONSTANTS
    Cols, Rows,     \* size of the screen in cells
    TabWidth,
    Colours, Black, White,
    Printable       \* characters that are drawn, with the blank

ASSUME ScreenAssumption ==
    /\ Cols \in Nat \ {0} /\ Rows \in Nat \ {0} /\ TabWidth \in Nat \ {0}
    /\ " " \in Printable /\ {"nl", "cr", "tab", "bs"} \cap Printable = {}
    /\ {Black, White} \subseteq Colours

(* What a cell shows: the colour of the ink matters where there is ink.    *)
Cell(ch, fg, bg) == [ch |-> ch, fg |-> IF ch = " " THEN bg ELSE fg, bg |-> bg]
Row(cell) == [x \in 0 .. Cols - 1 |-> cell]
Blank(s) == Cell(" ", s.fg, s.bg)

At(grid, col, row, cell) == [grid EXCEPT ![row][col] = cell]

(* The rows move up by one and the last is cleared.                        *)
Scrolled(grid, cell) == [y \in 0 .. Rows - 1 |-> IF y = Rows - 1 THEN Row(cell) ELSE grid[y + 1]]

-----------------------------------------------------------------------------
(* Writing to screen s.                                                    *)

LineFeed(s) ==
    IF s.row + 1 < Rows THEN [s EXCEPT !.col = 0, !.row = @ + 1]
    ELSE [s EXCEPT !.col = 0, !.grid = Scrolled(@, Blank(s))]

Wrap(s) == IF s.col >= Cols THEN LineFeed(s) ELSE s

Draw(s, ch) ==
    Wrap([s EXCEPT !.grid = At(@, s.col, s.row, Cell(ch, s.fg, s.bg)), !.col = @ + 1])

Erase(s) ==
    IF s.col = 0 THEN s
    ELSE [s EXCEPT !.grid = At(@, s.col - 1, s.row, Blank(s)), !.col = @ - 1]

NextTab(col) == ((col + TabWidth) \div TabWidth) * TabWidth

(* A tab is spaces up to the next stop.  The code goes on until the cursor *)
(* is there, which it never is when the line ends before: the call does    *)
(* not return.                                                             *)
Tab(s) ==
    IF NextTab(s.col) >= Cols THEN [s EXCEPT !.stuck = TRUE]
    ELSE FoldLeft(Draw, s, [k \in 1 .. NextTab(s.col) - s.col |-> " "])

Put(s, ch) ==
    IF s.stuck THEN s
    ELSE CASE ch = "nl" -> LineFeed(s)
           [] ch = "cr" -> [s EXCEPT !.col = 0]
           [] ch = "tab" -> Tab(s)
           [] ch = "bs" -> Erase(s)
           [] ch \in Printable -> Draw(s, ch)
           [] OTHER -> s           \* other control characters

PutAll(s, text) == FoldLeft(Put, s, text)

Cleared(s) == [s EXCEPT !.grid = [y \in 0 .. Rows - 1 |-> Row(Blank(s))], !.col = 0, !.row = 0]

(* What framebuffer_console_init leaves.                                   *)
NewScreen ==
    LET blank == Cell(" ", White, Black)
    IN  [grid |-> [y \in 0 .. Rows - 1 |-> Row(blank)], col |-> 0, row |-> 0,
         fg |-> White, bg |-> Black, stuck |-> FALSE]

=============================================================================

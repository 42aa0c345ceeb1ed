------------------------------- MODULE Console -------------------------------
(***************************************************************************)
(* The console: src/kernel/console.c, the kernel log of klog.c and the     *)
(* text screen of src/framebuffer/framebuffer.c behind terminal.c.         *)
(*                                                                         *)
(* The screen has a copy of its cells in memory if it is small enough, and *)
(* scrolls in the copy; a call that writes several characters puts off the *)
(* drawing until its end.  Pixels are kept per cell, as what can be seen   *)
(* there.  The serial line, which gets the same characters, is left out.   *)
(* No interrupt handler writes, so every call is one action.               *)
(***************************************************************************)
EXTENDS Screen, FiniteSetsExt

CONSTANTS
    Texts,          \* what callers write: one character or several
    Capacity,       \* KLOG_CAPACITY
    MaxTotal        \* characters written at most

ASSUME ConsoleAssumption ==
    /\ Capacity \in Nat \ {0} /\ MaxTotal \in Nat
    /\ \A text \in Texts : text # <<>>

VARIABLES
    console,        \* struct framebuffer_console, cells and pixels
    backing_ready,  \* console.backing_ready
    klog,           \* ring, head, used and total
    recent          \* history: the last Capacity characters written

vars == <<console, backing_ready, klog, recent>>

-----------------------------------------------------------------------------
(* The kernel log.                                                         *)

(* Mutant: the counter of used bytes follows the position.                 *)
klog_putchar_head(k, ch) ==
    [k EXCEPT !.ring[k.head] = ch, !.head = (@ + 1) % Capacity,
              !.used = (k.head + 1) % Capacity, !.total = @ + 1]

klog_putchar(k, ch) ==
    [k EXCEPT !.ring[k.head] = ch, !.head = (@ + 1) % Capacity,
              !.used = IF @ < Capacity THEN @ + 1 ELSE @, !.total = @ + 1]

klog_write(k, text) == FoldLeft(klog_putchar, k, text)

klog_dropped(k) == IF k.total > k.used THEN k.total - k.used ELSE 0

(* The last n characters, or all there are.                                *)
klog_copy_tail(k, n) ==
    LET to_copy == Min({k.used, n})
        oldest == (k.head + Capacity - k.used) % Capacity
        start == (oldest + k.used - to_copy) % Capacity
    IN  [i \in 1 .. to_copy |-> k.ring[(start + i - 1) % Capacity]]

-----------------------------------------------------------------------------
(* The framebuffer; c is a console.                                        *)

set_cell(c, ch) ==
    IF backing_ready THEN At(c.cells, c.col, c.row, Cell(ch, c.fg, c.bg)) ELSE c.cells

draw_char_at(c, ch) ==
    [c EXCEPT !.cells = set_cell(c, ch),
              !.pixels = IF c.deferred THEN @
                         ELSE At(@, c.col, c.row, Cell(ch, c.fg, c.bg))]

redraw_from_backing(c) == [c EXCEPT !.pixels = c.cells]

scroll_cells(c) ==
    IF c.batch THEN [c EXCEPT !.cells = Scrolled(@, Blank(c)), !.deferred = TRUE]
    ELSE redraw_from_backing([c EXCEPT !.cells = Scrolled(@, Blank(c))])

scroll(c) ==
    IF backing_ready THEN scroll_cells(c) ELSE [c EXCEPT !.pixels = Scrolled(@, Blank(c))]

flush_deferred_redraw(c) ==
    IF c.deferred THEN [redraw_from_backing(c) EXCEPT !.deferred = FALSE] ELSE c

newline(c) ==
    IF c.row + 1 >= Rows THEN [scroll(c) EXCEPT !.col = 0] ELSE [c EXCEPT !.col = 0, !.row = @ + 1]

wrapped(c) == IF c.col >= Cols THEN newline(c) ELSE c

drawn(c, ch) == wrapped([draw_char_at(c, ch) EXCEPT !.col = @ + 1])

(* The cell before the cursor is cleared in the copy and on the screen.    *)
erased(c) ==
    IF c.col = 0 THEN c
    ELSE [c EXCEPT !.col = @ - 1,
                   !.cells = set_cell([c EXCEPT !.col = @ - 1], " "),
                   !.pixels = At(@, c.col - 1, c.row, Blank(c))]

next_tab(col) == ((col + TabWidth) \div TabWidth) * TabWidth

(* Each space is a call of its own, with its redraw.  The loop waits for   *)
(* the cursor to get to the stop, and a cursor that wraps never does.      *)
tabbed(c) ==
    IF next_tab(c.col) >= Cols THEN [c EXCEPT !.stuck = TRUE]
    ELSE FoldLeft(LAMBDA d, ch : flush_deferred_redraw(drawn(d, ch)), c,
                  [k \in 1 .. next_tab(c.col) - c.col |-> " "])

putchar_inner(c, ch) ==
    IF c.stuck THEN c
    ELSE CASE ch = "nl" -> newline(c)
           [] ch = "cr" -> [c EXCEPT !.col = 0]
           [] ch = "tab" -> tabbed(c)
           [] ch = "bs" -> erased(c)
           [] ch \in Printable -> drawn(wrapped(c), ch)
           [] OTHER -> c

framebuffer_console_putchar(c, ch) == flush_deferred_redraw(putchar_inner(c, ch))

framebuffer_console_write(c, text) ==
    flush_deferred_redraw([FoldLeft(putchar_inner, [c EXCEPT !.batch = TRUE], text)
                             EXCEPT !.batch = FALSE])

(* Mutant: the copy keeps what was on the screen.                          *)
clear_pixels(c) ==
    [c EXCEPT !.pixels = [y \in 0 .. Rows - 1 |-> Row(Blank(c))],
              !.deferred = FALSE, !.col = 0, !.row = 0]

framebuffer_console_clear(c) ==
    [c EXCEPT !.cells = IF backing_ready THEN [y \in 0 .. Rows - 1 |-> Row(Blank(c))] ELSE @,
              !.pixels = [y \in 0 .. Rows - 1 |-> Row(Blank(c))],
              !.deferred = FALSE, !.col = 0, !.row = 0]

-----------------------------------------------------------------------------
(* Calls.                                                                  *)

Usable == ~console.stuck

(* The log gets everything; the screen what comes after it is there.  A    *)
(* call that does not return shows nothing of what it has drawn.           *)
Output(after, text) ==
    /\ klog.total + Len(text) <= MaxTotal
    /\ klog' = klog_write(klog, text)
    /\ recent' = LET all == recent \o text
                 IN  SubSeq(all, Max({1, Len(all) - Capacity + 1}), Len(all))
    /\ console' = IF ~console.ready THEN console
                  ELSE IF after.stuck THEN [console EXCEPT !.stuck = TRUE] ELSE after
    /\ UNCHANGED backing_ready

(* console_putchar, console_write.                                         *)
Putchar ==
    /\ Usable
    /\ \E text \in {t \in Texts : Len(t) = 1} :
          Output(framebuffer_console_putchar(console, text[1]), text)
Write == Usable /\ \E text \in Texts : Output(framebuffer_console_write(console, text), text)

Clear ==
    /\ Usable
    /\ console' = IF console.ready THEN framebuffer_console_clear(console) ELSE console
    /\ UNCHANGED <<backing_ready, klog, recent>>

(* terminal_set_color and terminal_set_background, one or both.            *)
SetColors ==
    /\ Usable /\ console.ready
    /\ \E fg, bg \in Colours : console' = [console EXCEPT !.fg = fg, !.bg = bg]
    /\ UNCHANGED <<backing_ready, klog, recent>>

(* framebuffer_console_init; a large screen gets no copy.                  *)
Attach ==
    /\ ~console.ready
    /\ backing_ready' \in BOOLEAN
    /\ console' = [console EXCEPT !.ready = TRUE]
    /\ UNCHANGED <<klog, recent>>

Init ==
    /\ console = [cells |-> NewScreen.grid, pixels |-> NewScreen.grid,
                  col |-> 0, row |-> 0, fg |-> White, bg |-> Black,
                  batch |-> FALSE, deferred |-> FALSE, stuck |-> FALSE, ready |-> FALSE]
    /\ backing_ready = FALSE
    /\ klog = [ring |-> [i \in 0 .. Capacity - 1 |-> " "], head |-> 0, used |-> 0, total |-> 0]
    /\ recent = <<>>

Next == Putchar \/ Write \/ Clear \/ SetColors \/ Attach

Spec == Init /\ [][Next]_vars

-----------------------------------------------------------------------------
(* Properties.                                                             *)

TextScreen ==
    IF ~console.ready THEN <<>>
    ELSE [grid |-> console.pixels, col |-> console.col, row |-> console.row,
          fg |-> console.fg, bg |-> console.bg, stuck |-> console.stuck]

Text == INSTANCE TextConsole WITH screen <- TextScreen, NoScreen <- <<>>

(* Whenever a call returns, the pixels are those of a plain text screen:   *)
(* with or without a copy of the cells, one character or many at once, and *)
(* whatever was scrolled, erased or put off on the way.                    *)
ShowsText == Text!Spec

(* The log gives out the last characters written, oldest first, for every  *)
(* size of buffer, and says how many are lost.                             *)
LogTail ==
    /\ \A n \in 1 .. Capacity + 1 :
          klog_copy_tail(klog, n) = SubSeq(recent, Max({1, Len(recent) - n + 1}), Len(recent))
    /\ klog_dropped(klog) + Len(recent) = klog.total

(* app.c:232 says of the command: "cat       print a file".  Whatever is in *)
(* the file, and wherever the cursor is: putting a character on the screen *)
(* ends.                                                                   *)
CatPrints == ~console.stuck

=============================================================================

----------------------------- MODULE TextConsole -----------------------------
(***************************************************************************)
(* The screen of module Screen as a specification: what callers of the     *)
(* console can see of it.  A call that does not return leaves the screen   *)
(* as it was, as far as anyone can say.                                    *)
(***************************************************************************)
EXTENDS Screen

CONSTANTS Texts, NoScreen

VARIABLE screen

Init == screen = NoScreen

Attach == screen = NoScreen /\ screen' = NewScreen

Usable == screen # NoScreen /\ ~screen.stuck

Write ==
    /\ Usable
    /\ \E text \in Texts :
          LET after == PutAll(screen, text)
          IN  screen' = IF after.stuck THEN [screen EXCEPT !.stuck = TRUE] ELSE after

Clear == Usable /\ screen' = Cleared(screen)

Colour ==
    /\ Usable
    /\ \E fg, bg \in Colours : screen' = [screen EXCEPT !.fg = fg, !.bg = bg]

Next == Attach \/ Write \/ Clear \/ Colour

Spec == Init /\ [][Next]_screen

=============================================================================

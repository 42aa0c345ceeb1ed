------------------------------ MODULE MCConsole ------------------------------
(***************************************************************************)
(* An instance of Console for TLC.                                         *)
(***************************************************************************)
EXTENDS Console

MCPrintable == {"a", " "}
MCColours == {"black", "white"}

(* Single characters; a text that scrolls and goes on, one that erases     *)
(* after scrolling, one with a tab behind a new line.                      *)
MCTexts == {<<ch>> : ch \in {"a", "nl", "cr", "tab", "bs", "bell"}}
             \cup {<<"a", "nl", "a">>, <<"nl", "a", "bs">>, <<"nl", "tab", "a">>}

=============================================================================

------------------------------- MODULE MCShell -------------------------------
(***************************************************************************)
(* An instance of Shell for TLC.                                           *)
(***************************************************************************)
EXTENDS Shell

MCPrintable == {"x", "u", ">", " ", "^", "C"}
MCColours == {"black", "white"}
MCLetters == {"x"}
MCOutputs == {<<>>, <<"x", "nl">>}

=============================================================================

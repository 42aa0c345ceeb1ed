------------------------------ MODULE MCExt2Dir ------------------------------
(***************************************************************************)
(* Instances of Ext2Dir for TLC.                                           *)
(***************************************************************************)
EXTENDS Ext2Dir

(* Names of up to 4 characters, and of 9 to 12.                            *)
MCNames == {"a", "b", "longer-name", "other-name"}
MCMoreNames == MCNames \cup {"c"}
MCNameUnits == [n \in Names |-> IF n \in {"a", "b", "c"} THEN 1 ELSE 3]

=============================================================================

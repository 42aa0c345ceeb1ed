------------------------------ MODULE MCKeyboard ------------------------------
(***************************************************************************)
(* An instance of Keyboard for TLC.                                        *)
(***************************************************************************)
EXTENDS Keyboard

MCLetters == {"l"}
MCExtended == {"up"}
MCShifts == {"shift"}
MCCtrls == {"ctrl_l", "ctrl_r"}
MCExtendedModifiers == {"ctrl_r"}

=============================================================================

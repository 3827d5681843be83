------------------------------ MODULE MCKeyboard ------------------------------
(***************************************************************************)
(* TLC instance of Keyboard.  A behaviour is followed until readers        *)
(* overlap: from there on the buffer may hand out anything.                *)
(***************************************************************************)
EXTENDS Keyboard

InOrder == ~overlapped
=============================================================================

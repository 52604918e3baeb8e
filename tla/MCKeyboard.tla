----------------------------- MODULE MCKeyboard -----------------------------
(***************************************************************************)
(* A letter, Enter, both Shifts, Caps Lock, both Ctrls, an arrow and the   *)
(* keypad digit with the arrow's code, three keys down at once.            *)
(***************************************************************************)
EXTENDS Keyboard

MCKeys == {<<30, FALSE>>, <<28, FALSE>>, <<42, FALSE>>, <<54, FALSE>>,
           <<58, FALSE>>, <<29, FALSE>>, <<29, TRUE>>, <<72, TRUE>>, <<72, FALSE>>}
=============================================================================

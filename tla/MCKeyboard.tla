----------------------------- MODULE MCKeyboard -----------------------------
(* Keyboard for TLC: a small ring, the Q key and every modifier. *)
EXTENDS Keyboard
=============================================================================

----------------------------- MODULE MCKeyboard -----------------------------
(***************************************************************************)
(* Keyboard and Panic with a ring small enough to fill and to wrap around. *)
(***************************************************************************)
EXTENDS Panic
=============================================================================

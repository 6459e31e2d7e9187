---------------------------- MODULE MCTypewriter ----------------------------
(***************************************************************************)
(* Typewriter with a dash of two bytes.                                    *)
(***************************************************************************)
EXTENDS Typewriter

TwoByteDash == <<4, 5>>
=============================================================================

---------------------------- MODULE MCScrollLog -----------------------------
(***************************************************************************)
(* ScrollLog on a disk of a few tiny sectors.                              *)
(***************************************************************************)
EXTENDS ScrollLog, MCRecord

\* A keystroke of either kind, and a string that spans sectors.
MCInputs == {<<1>>, <<2>>, <<1, 2, 1>>}
=============================================================================

----------------------------- MODULE MCScrollRot ----------------------------
(***************************************************************************)
(* ScrollRot on a disk of a few tiny sectors, one of which decays.         *)
(***************************************************************************)
EXTENDS ScrollRot, MCRecord

OneByteDash == <<4>>
=============================================================================

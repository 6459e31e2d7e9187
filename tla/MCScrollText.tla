---------------------------- MODULE MCScrollText ----------------------------
(***************************************************************************)
(* ScrollText on a disk of a few tiny sectors.                             *)
(***************************************************************************)
EXTENDS ScrollText, MCRecord

TwoByteDash == <<4, 5>>
=============================================================================

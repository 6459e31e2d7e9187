------------------------------- MODULE MCI8042 ------------------------------
(***************************************************************************)
(* I8042 with a firmware that may leave more bytes than are drained.       *)
(***************************************************************************)
EXTENDS I8042
=============================================================================

------------------------------ MODULE MCRecord ------------------------------
(***************************************************************************)
(* The checksum the small instances use: like crc32 it is 0 for the empty  *)
(* payload, and it has no collisions at all on bytes below 7.              *)
(***************************************************************************)
EXTENDS Naturals, Sequences

MCcrc32(p) ==
  LET sum[n \in 0..Len(p)] == IF n = 0 THEN 0 ELSE 8 * sum[n - 1] + p[n] + 1
  IN  sum[Len(p)]
=============================================================================

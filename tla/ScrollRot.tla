----------------------------- MODULE ScrollRot ------------------------------
(***************************************************************************)
(* ScrollText on a disk that decays: between two sessions a sector that    *)
(* held a record may stop decoding ("torn or rotted payloads", as the      *)
(* design puts it).  Decay breaks the contiguous prefix that load's search *)
(* rests on; this module asks what is left of the scroll's promises.       *)
(***************************************************************************)
EXTENDS ScrollText

CONSTANT ROT_BOUND  \* how many sectors decay in a behaviour

ASSUME RotAssumption == ROT_BOUND \in Nat

VARIABLE rotten  \* the sectors that have decayed

rotVars == <<textVars, rotten>>

\* A sealed record decays.  An unsealed one that does is a torn tail, which
\* ScrollLog has already.
Rot(lba) ==
  /\ pc = "off"
  /\ Cardinality(rotten) < ROT_BOUND
  /\ lba \notin rotten
  /\ isFull(disk[lba], lba)
  /\ disk' = [disk EXCEPT ![lba].crc = GarbledCrc]
  /\ rotten' = rotten \cup {lba}
  /\ UNCHANGED <<pc, lo, hi, ram, session>>

RotInit == TextInit /\ rotten = {}

RotNext ==
  \/ TextNext /\ UNCHANGED rotten
  \/ \E lba \in LBA : Rot(lba)

\* The kernel's steps are as fair as on a sound disk.
RotSpec ==
  /\ RotInit /\ [][RotNext]_rotVars
  /\ WF_rotVars(DiskStep /\ Kernel /\ UNCHANGED rotten)
  /\ WF_rotVars(Restore /\ UNCHANGED rotten)

-----------------------------------------------------------------------------
(***************************************************************************)
(* Properties                                                              *)
(***************************************************************************)

(* The search of load stops between a sector that decodes and one that     *)
(* does not, whatever the disk looks like, so the record it recovers the   *)
(* tail from is a valid one.                                               *)
SearchFindsBoundary ==
  pc = "search" /\ lo = hi => /\ lo > 0 => decodes(disk[lo - 1], lo - 1)
                              /\ lo < TOTAL_SECTORS => ~decodes(disk[lo], lo)

(* Decay never reaches backwards: while the sectors up to i are sound, a   *)
(* sealed sector i is never written again, wherever the search ends.       *)
SoundPrefixForever ==
  [][\A i \in LBA : /\ \A j \in 0..i : j \notin rotten'
                    /\ isFull(disk[i], i)
                    => disk'[i] = disk[i]]_rotVars
=============================================================================

---------------------------- MODULE SectorWrite -----------------------------
(***************************************************************************)
(* What the scroll takes a call of Scroll::write for (scroll.rs, and the   *)
(* actions WriteOk and WriteErr of ScrollLog): while a write is under way  *)
(* the sector may be half written, and after the last attempt failed it    *)
(* may still change; after a success it holds what was to be written, and  *)
(* stays as it is until the next write.                                    *)
(***************************************************************************)
CONSTANTS Value, Torn

VARIABLES
  content,  \* the sector on the medium
  wanted,   \* what was last to be written to it
  phase     \* "quiet", "writing", or "given_up" for good

Init == content \in Value /\ wanted = content /\ phase = "quiet"

Start(v) ==
  /\ phase = "quiet"
  /\ phase' = "writing" /\ wanted' = v
  /\ UNCHANGED content

\* Part of the sector, or all of it, reaches the medium.
Reach ==
  /\ phase \in {"writing", "given_up"}
  /\ content' \in {wanted, Torn}
  /\ UNCHANGED <<wanted, phase>>

Succeed ==
  /\ phase = "writing" /\ content = wanted
  /\ phase' = "quiet"
  /\ UNCHANGED <<content, wanted>>

GiveUp ==
  /\ phase = "writing"
  /\ phase' = "given_up"
  /\ UNCHANGED <<content, wanted>>

Next == (\E v \in Value : Start(v)) \/ Reach \/ Succeed \/ GiveUp

Spec == Init /\ [][Next]_<<content, wanted, phase>>
=============================================================================

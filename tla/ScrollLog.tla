----------------------------- MODULE ScrollLog ------------------------------
(***************************************************************************)
(* The scroll disk and the part of kernel/src/scroll.rs that reads and     *)
(* writes it: Scroll::load (the binary search for the last record and the  *)
(* recovery of the unsealed tail), append_raw and write, with write errors *)
(* and power cuts that strike between any two steps or inside a sector     *)
(* write.  The RAM text and its layout are the business of ScrollText; the *)
(* bytes a caller appends are any member of Inputs.                        *)
(*                                                                         *)
(* The kernel is single-threaded and interrupt handlers never touch this   *)
(* state, so pc is one program counter.  A step of the model runs from one *)
(* point at which the disk may change to the next.                         *)
(***************************************************************************)
EXTENDS Record

CONSTANTS
  TOTAL_SECTORS,  \* size of the scroll disk, as ata::identify reports it
  TAIL_SECTORS,   \* sectors read before load returns (64)
  Inputs          \* the byte strings append_raw is called with

ASSUME SectorsAssumption == /\ TOTAL_SECTORS \in Nat
                            /\ TAIL_SECTORS \in Nat \ {0}

ASSUME InputsAssumption == \A s \in Inputs : s \in Seq(Byte)

VARIABLES
  disk,     \* the sectors of the scroll disk
  pc,       \* where the kernel is
  lo, hi,   \* bounds of load's binary search
  sealed,   \* count of full, never-touched-again sectors
  tail,     \* bytes of the one rewritable sector
  full,     \* Scroll::full
  trouble,  \* WRITE_TROUBLE
  todo,     \* bytes append_raw has not pushed yet
  attempt   \* failed attempts of the write under way

ram  == <<sealed, tail, full, trouble, todo, attempt>>
vars == <<disk, pc, lo, hi, ram>>

LBA == 0..(TOTAL_SECTORS - 1)

\* write gives up after this many attempts: for _attempt in 0..3
ATTEMPTS == 3

Appending == pc \in {"ink", "seal", "rewrite"}
Running   == pc = "idle" \/ Appending

\* Trouble with an earlier write is not looked at.
MutWriting == pc \in {"seal", "rewrite"}

\* A write to the disk is under way.
Writing == pc \in {"seal", "rewrite"} /\ ~trouble

TypeOK ==
  /\ disk \in [LBA -> Sector]
  /\ pc \in {"off", "search", "idle", "ink", "seal", "rewrite", "panic"}
  /\ lo \in 0..TOTAL_SECTORS
  /\ hi \in 0..TOTAL_SECTORS
  /\ sealed \in 0..TOTAL_SECTORS
  /\ tail \in Seq(Byte)
  /\ Len(tail) <= PAYLOAD_CAPACITY
  /\ full \in BOOLEAN
  /\ trouble \in BOOLEAN
  /\ todo \in Seq(Byte)
  /\ attempt \in 0..(ATTEMPTS - 1)

-----------------------------------------------------------------------------
\* What is left of the kernel's memory without power.
Amnesia ==
  /\ lo' = 0
  /\ hi' = 0
  /\ sealed' = 0
  /\ tail' = <<>>
  /\ full' = FALSE
  /\ trouble' = FALSE
  /\ todo' = <<>>
  /\ attempt' = 0

Init ==
  /\ disk = [i \in LBA |-> Zeroed]
  /\ pc = "off"
  /\ lo = 0 /\ hi = 0
  /\ sealed = 0
  /\ tail = <<>>
  /\ full = FALSE
  /\ trouble = FALSE
  /\ todo = <<>>
  /\ attempt = 0

(***************************************************************************)
(* Scroll::load                                                            *)
(***************************************************************************)

\* The search starts one sector short.
MutPowerOn ==
  /\ pc = "off"
  /\ pc' = "search"
  /\ lo' = 0
  /\ hi' = TOTAL_SECTORS - 1
  /\ UNCHANGED <<disk, ram>>

\* The kernel boots and load has the size of the disk.
PowerOn ==
  /\ pc = "off"
  /\ pc' = "search"
  /\ lo' = 0
  /\ hi' = TOTAL_SECTORS
  /\ UNCHANGED <<disk, ram>>

\* The lower bound never passes the sector probed.
MutProbe ==
  /\ pc = "search"
  /\ lo < hi
  /\ LET mid == lo + (hi - lo) \div 2
     IN  \/ decodes(disk[mid], mid) /\ lo' = mid /\ UNCHANGED hi
         \/ ~decodes(disk[mid], mid) /\ hi' = mid /\ UNCHANGED lo
  /\ UNCHANGED <<disk, pc, ram>>

\* One turn of the binary search for the end of the valid records.
Probe ==
  /\ pc = "search"
  /\ lo < hi
  /\ LET mid == lo + (hi - lo) \div 2
     IN  \/ /\ decodes(disk[mid], mid)
            /\ lo' = mid + 1
            /\ UNCHANGED hi
         \/ /\ ~decodes(disk[mid], mid)
            /\ hi' = mid
            /\ UNCHANGED lo
  /\ UNCHANGED <<disk, pc, ram>>

\* first_loaded: valid.saturating_sub(TAIL_SECTORS)
FirstLoaded(valid) == IF valid > TAIL_SECTORS THEN valid - TAIL_SECTORS ELSE 0

\* A record load relies on does not decode: Err, and kernel_main's expect.
Unreadable(valid) ==
  \E i \in FirstLoaded(valid)..(valid - 1) : ~decodes(disk[i], i)

LastIsSealed(valid) == disk[valid - 1].length = PAYLOAD_CAPACITY

\* The unsealed tail sector is taken for a sealed one.
MutLoad ==
  /\ pc = "search"
  /\ lo = hi
  /\ lo' = 0 /\ hi' = 0
  /\ pc' = "idle"
  /\ sealed' = lo
  /\ tail' = <<>>
  /\ full' = (sealed' = TOTAL_SECTORS)
  /\ UNCHANGED <<disk, trouble, todo, attempt>>

\* The search is over: read the last sectors, recover sealed, tail and full.
Load ==
  /\ pc = "search"
  /\ lo = hi
  /\ lo' = 0 /\ hi' = 0
  /\ \/ /\ Unreadable(lo)
        /\ pc' = "panic"
        /\ UNCHANGED <<sealed, tail, full>>
     \/ /\ ~Unreadable(lo)
        /\ pc' = "idle"
        /\ sealed' = IF lo = 0 \/ LastIsSealed(lo) THEN lo ELSE lo - 1
        /\ tail' = IF lo = 0 \/ LastIsSealed(lo) THEN <<>> ELSE payload(disk[lo - 1])
        /\ full' = (sealed' = TOTAL_SECTORS)
  /\ UNCHANGED <<disk, trouble, todo, attempt>>

\* identify or a read fails during load: the kernel panics.
LoadError ==
  /\ pc = "search"
  /\ pc' = "panic"
  /\ lo' = 0 /\ hi' = 0
  /\ UNCHANGED <<disk, ram>>

(***************************************************************************)
(* Scroll::append_raw                                                      *)
(***************************************************************************)

\* A caller appends a string to a scroll that is not full.
AppendRaw(bytes) ==
  /\ pc = "idle"
  /\ ~full
  /\ todo' = bytes
  /\ pc' = "ink"
  /\ UNCHANGED <<disk, lo, hi, sealed, tail, full, trouble, attempt>>

\* The length of the tail is looked at after the loop only.
MutInk ==
  /\ pc = "ink"
  /\ tail' = tail \o todo
  /\ todo' = <<>>
  /\ pc' = IF Len(tail') = PAYLOAD_CAPACITY THEN "seal" ELSE "rewrite"
  /\ UNCHANGED <<disk, lo, hi, sealed, full, trouble, attempt>>

\* The byte loop, up to the point where the tail is full or no byte is left.
Ink ==
  /\ pc = "ink"
  /\ LET room == PAYLOAD_CAPACITY - Len(tail)
         n    == IF Len(todo) < room THEN Len(todo) ELSE room
     IN  /\ tail' = tail \o SubSeq(todo, 1, n)
         /\ todo' = SubSeq(todo, n + 1, Len(todo))
  /\ pc' = IF Len(tail') = PAYLOAD_CAPACITY THEN "seal"
           ELSE IF tail' # <<>> THEN "rewrite"
           ELSE "idle"
  /\ UNCHANGED <<disk, lo, hi, sealed, full, trouble, attempt>>

\* The sealed sector is not counted.
MutSealedUncounted ==
  /\ pc = "seal"
  /\ tail' = <<>>
  /\ pc' = "ink"
  /\ UNCHANGED <<sealed, full, todo>>

\* write returned from the byte loop: the sector is sealed.
Sealed ==
  /\ pc = "seal"
  /\ sealed' = sealed + 1
  /\ tail' = <<>>
  /\ full' = (sealed' = TOTAL_SECTORS)
  /\ todo' = IF full' THEN <<>> ELSE todo
  /\ pc' = IF full' THEN "idle" ELSE "ink"

\* write returned from the rewrite of the tail, and so does append_raw.
Rewritten ==
  /\ pc = "rewrite"
  /\ pc' = "idle"
  /\ UNCHANGED <<sealed, tail, full, todo>>

WriteReturns == (Sealed \/ Rewritten) /\ attempt' = 0

(***************************************************************************)
(* Scroll::write                                                           *)
(***************************************************************************)

NewSector == encode(sealed, tail)

\* After earlier trouble nothing is written any more.
WriteSkipped ==
  /\ trouble
  /\ WriteReturns
  /\ UNCHANGED <<disk, lo, hi, trouble>>

WriteOk ==
  /\ Writing
  /\ disk' = [disk EXCEPT ![sealed] = NewSector]
  /\ WriteReturns
  /\ UNCHANGED <<lo, hi, trouble>>

\* ata::write_sector reports an error; any part of the sector may be written.
WriteErr ==
  /\ Writing
  /\ \E cut \in Cut : disk' = [disk EXCEPT ![sealed] = torn(@, NewSector, cut)]
  /\ \/ /\ attempt + 1 < ATTEMPTS
        /\ attempt' = attempt + 1
        /\ UNCHANGED <<pc, sealed, tail, full, trouble, todo>>
     \/ /\ attempt + 1 = ATTEMPTS
        /\ trouble' = TRUE
        /\ WriteReturns
  /\ UNCHANGED <<lo, hi>>

-----------------------------------------------------------------------------
\* The power fails, in the middle of a sector write if one is under way.
PowerLoss ==
  /\ pc # "off"
  /\ pc' = "off"
  /\ Amnesia
  /\ \/ /\ Writing
        /\ \E cut \in Cut : disk' = [disk EXCEPT ![sealed] = torn(@, NewSector, cut)]
     \/ /\ ~Writing
        /\ UNCHANGED disk

Kernel == Probe \/ Load \/ Ink \/ WriteSkipped \/ WriteOk \/ WriteErr

Next ==
  \/ PowerOn
  \/ LoadError
  \/ Kernel
  \/ \E bytes \in Inputs : AppendRaw(bytes)
  \/ PowerLoss

Spec == Init /\ [][Next]_vars

\* Once called, load and append_raw run on: nothing they do waits for another.
FairSpec == Spec /\ WF_vars(Kernel)

-----------------------------------------------------------------------------
(***************************************************************************)
(* Properties                                                              *)
(***************************************************************************)

(* Valid records form a contiguous prefix of the disk, in every state a    *)
(* boot can find: the claim load's binary search rests on (scroll.rs:37).  *)
(* A write behind a sector whose own write failed would leave a gap.       *)
ContiguousPrefix ==
  \A i \in LBA : decodes(disk[i], i) => \A j \in 0..i : decodes(disk[j], j)

(* When the search stops it has found the end: the sectors below lo hold a *)
(* record, the others do not (the while loop of load).                     *)
SearchSound ==
  pc = "search" /\ lo = hi => \A i \in LBA : decodes(disk[i], i) <=> i < lo

(* A sector that holds a full record never changes again, not even under   *)
(* the retries of write or a power cut in the middle of one ("count of     *)
(* full, never-touched-again sectors", scroll.rs:14).                      *)
SealedForever ==
  [][\A i \in LBA : isFull(disk[i], i) => disk'[i] = disk[i]]_vars

(* Every boot comes to an end: the binary search closes in on a sector     *)
(* instead of probing the same one for ever.                               *)
BootFinishes == pc = "search" ~> pc \in {"idle", "panic", "off"}

\* The text of a page as any reader of the disk sees it.
Page(i) == IF decodes(disk[i], i) THEN payload(disk[i]) ELSE <<>>

Eternal == INSTANCE EternalInk WITH
             Ink <- Padded, PageSize <- PAYLOAD_CAPACITY, Pages <- TOTAL_SECTORS,
             page <- [i \in LBA |-> Page(i)]

(* The disk keeps the abstract promise: pages fill in order, sealed pages  *)
(* are immutable and whatever fails costs the open page at most.           *)
RefinesEternalInk == Eternal!Spec
=============================================================================

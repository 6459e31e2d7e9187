-------------------------- MODULE ScrollTextProofs --------------------------
(***************************************************************************)
(* The scroll with its text, on a sound disk and on one that decays, for   *)
(* every disk size, sector capacity, chunk size and number of rotten       *)
(* sectors.                                                                *)
(***************************************************************************)
EXTENDS ScrollRot, ScrollLogProofs, Utf8Proofs

\* What a step of the text does to the disk and to the kernel's view of it.
LogStep ==
  \/ PowerOn \/ Probe \/ Load \/ LoadError
  \/ \E bytes \in Seq(Byte) : AppendRaw(bytes)
  \/ Ink \/ WriteSkipped \/ WriteOk \/ WriteErr
  \/ PowerLoss
  \/ UNCHANGED vars

LEMMA Utf8IsByte ==
  ASSUME NEW s \in Seq(Char)
  PROVE  as_bytes(s) \in Seq(Byte)
<1>1. Utf8Byte \subseteq Byte
  BY TypedAssumption
<1> QED BY <1>1, BytesType, SeqMonotonic

LEMMA SeparatorType ==
  ASSUME NEW s
  PROVE  separator(s) \in Seq(Char)
<1>1. {"nl", "mark", "dash", "letter", "fffd"} = Char
  BY DEF Char, encode_utf8
<1>2. <<"mark", "dash", "nl">> \in Seq(Char)
  BY <1>1
<1>3. <<"nl">> \in Seq(Char) /\ <<"nl", "nl">> \in Seq(Char) /\ <<>> \in Seq(Char)
  BY <1>1
<1> DEFINE a == IF s = <<>> THEN <<>> ELSE IF s[Len(s)] = "nl" THEN <<"nl">> ELSE <<"nl", "nl">>
           b == <<"mark", "dash", "nl">>
<1>4. a \in Seq(Char)
  BY <1>3
<1>5. separator(s) = a \o b
  BY DEF separator
<1> HIDE DEF a, b
<1>6. b \in Seq(Char)
  BY <1>2 DEF b
<1> QED BY <1>4, <1>5, <1>6, ConcatProperties

LEMMA TypedChar ==
  ASSUME NEW ch \in Typed
  PROVE  ch \in Char /\ <<ch>> \in Seq(Char)
<1>1. ch \in Char
  BY TypedAssumption DEF Char, encode_utf8
<1> QED BY <1>1

LEMMA TextIsLogStep == [TextNext]_textVars => LogStep
<1> SUFFICES ASSUME [TextNext]_textVars PROVE LogStep
  OBVIOUS
<1>1. CASE DiskStep
  BY <1>1 DEF DiskStep, LogStep
<1>2. CASE Restore
  BY <1>2 DEF Restore, LogStep
<1>3. CASE Stamp
  <2>1. separator(text) \in Seq(Char)
    BY SeparatorType
  <2>2. as_bytes(separator(text)) \in Seq(Byte)
    BY <2>1, Utf8IsByte
  <2> QED BY <1>3, <2>2 DEF Stamp, append_str, LogStep
<1>4. ASSUME NEW ch \in Typed, Keystroke(ch) PROVE LogStep
  <2>1. as_bytes(<<ch>>) \in Seq(Byte)
    BY TypedChar, Utf8IsByte
  <2> QED BY <1>4, <2>1 DEF Keystroke, append_str, LogStep
<1>5. CASE pump
  BY <1>5 DEF pump, LogStep
<1>6. CASE Blackout
  BY <1>6 DEF Blackout, LogStep
<1>7. CASE UNCHANGED textVars
  BY <1>7 DEF textVars, LogStep
<1> QED BY <1>1, <1>2, <1>3, <1>4, <1>5, <1>6, <1>7 DEF TextNext

\* The frontier invariant of ScrollLogProofs under the strings the text appends.
LEMMA LogStepInv == IInv /\ LogStep => IInv'
BY PowerOnInv, ProbeInv, LoadInv, LoadErrorInv, AppendRawInv, InkStepInv, WriteSkippedInv,
   WriteOkInv, WriteErrInv, PowerLossInv, StutterInv DEF LogStep

-----------------------------------------------------------------------------
(***************************************************************************)
(* What needs no sound disk.  The binary search keeps a sector that        *)
(* decodes below lo and one that does not at hi, so the tail is recovered  *)
(* from a record that decodes, and what decodes is a text.                 *)
(***************************************************************************)
BoundaryInv ==
  pc = "search" => /\ lo <= hi
                   /\ lo > 0 => decodes(disk[lo - 1], lo - 1)
                   /\ hi < TOTAL_SECTORS => ~decodes(disk[hi], hi)

CoreInv == TypeOK /\ InkInv /\ TailInv /\ BoundaryInv

LEMMA CoreInit == Init => CoreInv
<1> SUFFICES ASSUME Init PROVE CoreInv
  OBVIOUS
<1>1. IInv
  BY InitInv
<1> QED BY <1>1 DEF Init, IInv, DiskInv, CoreInv, BoundaryInv

LEMMA PowerOnCore == CoreInv /\ PowerOn => CoreInv'
<1> SUFFICES ASSUME CoreInv, PowerOn PROVE CoreInv'
  OBVIOUS
<1> USE DEF PowerOn, ram
<1>1. TypeOK' /\ InkInv'
  BY SectorsAssumption DEF CoreInv, TypeOK, InkInv
<1>2. BoundaryInv'
  BY SectorsAssumption DEF BoundaryInv
<1>3. TailInv'
  BY DEF TailInv, Running, Appending
<1> QED BY <1>1, <1>2, <1>3 DEF CoreInv

LEMMA ProbeCore == CoreInv /\ Probe => CoreInv'
<1> SUFFICES ASSUME CoreInv, Probe PROVE CoreInv'
  OBVIOUS
<1> DEFINE mid == lo + (hi - lo) \div 2
<1>1. /\ pc = "search" /\ lo < hi
      /\ UNCHANGED <<disk, pc, sealed, tail, full, trouble, todo, attempt>>
      /\ \/ decodes(disk[mid], mid) /\ lo' = mid + 1 /\ hi' = hi
         \/ ~decodes(disk[mid], mid) /\ hi' = mid /\ lo' = lo
  BY DEF Probe, ram
<1>2. /\ lo <= mid /\ mid < hi /\ mid \in Nat
      /\ lo \in Nat /\ hi \in Nat /\ hi <= TOTAL_SECTORS
  BY <1>1, SectorsAssumption DEF CoreInv, TypeOK
<1> HIDE DEF mid
<1>3. TypeOK' /\ InkInv'
  BY <1>1, <1>2, SectorsAssumption DEF CoreInv, TypeOK, InkInv
<1>4. BoundaryInv'
  <2>1. CASE decodes(disk[mid], mid) /\ lo' = mid + 1 /\ hi' = hi
    <3>1. lo' - 1 = mid /\ lo' <= hi'
      BY <1>2, <2>1
    <3> QED BY <1>1, <2>1, <3>1 DEF CoreInv, BoundaryInv
  <2>2. CASE ~decodes(disk[mid], mid) /\ hi' = mid /\ lo' = lo
    BY <1>1, <1>2, <2>2 DEF CoreInv, BoundaryInv
  <2> QED BY <1>1, <2>1, <2>2
<1>5. TailInv'
  BY <1>1 DEF TailInv, Running, Appending
<1> QED BY <1>3, <1>4, <1>5 DEF CoreInv

LEMMA LoadErrorCore == CoreInv /\ LoadError => CoreInv'
<1> SUFFICES ASSUME CoreInv, LoadError PROVE CoreInv'
  OBVIOUS
<1> USE DEF LoadError, ram
<1>1. TypeOK' /\ InkInv'
  BY SectorsAssumption DEF CoreInv, TypeOK, InkInv
<1>2. BoundaryInv' /\ TailInv'
  BY DEF BoundaryInv, TailInv, Running, Appending
<1> QED BY <1>1, <1>2 DEF CoreInv

\* What load makes of the search's result, on any disk.
LEMMA LoadResult ==
  ASSUME CoreInv, Load, pc' = "idle"
  PROVE  /\ sealed' \in 0..TOTAL_SECTORS
         /\ tail' \in Seq(Byte) /\ Len(tail') < PAYLOAD_CAPACITY
         /\ full' = (sealed' = TOTAL_SECTORS)
<1>1. /\ pc = "search" /\ lo = hi
      /\ sealed' = IF lo = 0 \/ LastIsSealed(lo) THEN lo ELSE lo - 1
      /\ tail' = IF lo = 0 \/ LastIsSealed(lo) THEN <<>> ELSE payload(disk[lo - 1])
      /\ full' = (sealed' = TOTAL_SECTORS)
  BY DEF Load
<1>2. lo \in 0..TOTAL_SECTORS
  BY DEF CoreInv, TypeOK
<1>3. CASE lo = 0 \/ LastIsSealed(lo)
  <2>1. sealed' = lo /\ tail' = <<>>
    BY <1>1, <1>3
  <2>2. <<>> \in Seq(Byte) /\ Len(<<>>) < PAYLOAD_CAPACITY
    BY EmptySeq, CapacityAssumption
  <2> QED BY <1>1, <1>2, <2>1, <2>2
<1>4. CASE lo # 0 /\ ~LastIsSealed(lo)
  <2>1. sealed' = lo - 1 /\ tail' = payload(disk[lo - 1])
    BY <1>1, <1>4
  <2>2. lo - 1 \in LBA /\ lo - 1 \in 0..TOTAL_SECTORS /\ decodes(disk[lo - 1], lo - 1)
    BY <1>1, <1>2, <1>4, SectorsAssumption DEF CoreInv, BoundaryInv, LBA
  <2>3. payload(disk[lo - 1]) \in Text
    BY <2>2, DecodedIsText DEF CoreInv
  <2>4. /\ disk[lo - 1].length \in Nat
        /\ disk[lo - 1].length < PAYLOAD_CAPACITY
    <3>1. disk[lo - 1] \in Sector
      BY <2>2 DEF CoreInv, TypeOK
    <3> QED BY <1>4, <2>2, <3>1, CapacityAssumption DEF Sector, decodes, LastIsSealed
  <2>5. Len(payload(disk[lo - 1])) = disk[lo - 1].length
    BY <2>4 DEF payload
  <2> QED BY <1>1, <2>1, <2>2, <2>3, <2>4, <2>5 DEF Text
<1> QED BY <1>3, <1>4

LEMMA LoadCore == CoreInv /\ Load => CoreInv'
<1> SUFFICES ASSUME CoreInv, Load PROVE CoreInv'
  OBVIOUS
<1>1. /\ lo' = 0 /\ hi' = 0 /\ pc' \in {"idle", "panic"}
      /\ UNCHANGED <<disk, trouble, todo, attempt>>
  BY DEF Load
<1>2. InkInv' /\ BoundaryInv'
  BY <1>1 DEF CoreInv, InkInv, BoundaryInv
<1>3. CASE pc' = "panic"
  <2>1. UNCHANGED <<sealed, tail, full>>
    BY <1>3 DEF Load
  <2>2. TypeOK' /\ TailInv'
    BY <1>1, <1>3, <2>1, SectorsAssumption DEF CoreInv, TypeOK, TailInv, Running, Appending
  <2> QED BY <1>2, <2>2 DEF CoreInv
<1>4. CASE pc' = "idle"
  <2>1. /\ sealed' \in 0..TOTAL_SECTORS
        /\ tail' \in Seq(Byte) /\ Len(tail') < PAYLOAD_CAPACITY
        /\ full' = (sealed' = TOTAL_SECTORS)
    BY <1>4, LoadResult
  <2>2. /\ 0 \in 0..TOTAL_SECTORS /\ Len(tail') <= PAYLOAD_CAPACITY
    BY <2>1, SectorsAssumption, CapacityAssumption
  <2>3. full' \in BOOLEAN
    BY <2>1
  <2>4. TypeOK'
    BY <1>1, <1>4, <2>1, <2>2, <2>3 DEF CoreInv, TypeOK
  <2>5. TailInv'
    BY <1>4, <2>1 DEF TailInv, Running, Appending
  <2> QED BY <1>2, <2>4, <2>5 DEF CoreInv
<1> QED BY <1>1, <1>3, <1>4

LEMMA AppendRawCore ==
  ASSUME CoreInv, NEW bytes \in Seq(Byte), AppendRaw(bytes)
  PROVE  CoreInv'
<1> USE DEF AppendRaw
<1>1. TypeOK' /\ InkInv'
  BY DEF CoreInv, TypeOK, InkInv
<1>2. sealed < TOTAL_SECTORS
  BY SectorsAssumption DEF CoreInv, TypeOK, TailInv, Running
<1>3. BoundaryInv' /\ TailInv'
  BY <1>2 DEF CoreInv, BoundaryInv, TailInv, Running, Appending
<1> QED BY <1>1, <1>3 DEF CoreInv

LEMMA InkCore == CoreInv /\ Ink => CoreInv'
<1> SUFFICES ASSUME CoreInv, Ink PROVE CoreInv'
  OBVIOUS
<1>1. /\ UNCHANGED <<disk, lo, hi, sealed, full, trouble, attempt>>
      /\ pc = "ink" /\ pc' # "search"
  BY DEF Ink
<1>2. TypeOK' /\ TailInv'
  BY InkTypes DEF CoreInv
<1>3. InkInv' /\ BoundaryInv'
  BY <1>1 DEF CoreInv, InkInv, BoundaryInv
<1> QED BY <1>2, <1>3 DEF CoreInv

LEMMA WrittenCore ==
  ASSUME CoreInv, Writing, NEW cut \in Cut,
         disk' = [disk EXCEPT ![sealed] = torn(disk[sealed], NewSector, cut)]
  PROVE  /\ sealed \in LBA
         /\ disk' \in [LBA -> Sector] /\ InkInv'
         /\ \A i \in LBA : i # sealed => disk'[i] = disk[i]
<1> DEFINE t == torn(disk[sealed], NewSector, cut)
<1>1. /\ disk \in [LBA -> Sector]
      /\ tail \in Seq(Byte) /\ Len(tail) <= PAYLOAD_CAPACITY
      /\ sealed \in LBA /\ sealed \in Nat
  BY SectorsAssumption
     DEF CoreInv, TypeOK, TailInv, Writing, Running, Appending, LBA
<1>2. NewSector \in Sector /\ NewSector.crc = crc32(tail) /\ tail \in Text
  BY <1>1, EncodeType DEF NewSector, encode, Text
<1>3. t \in Sector
  BY <1>1, <1>2, TornType
<1>4. t.crc \in {disk[sealed].crc, NewSector.crc, GarbledCrc}
  BY DEF torn
<1>5. t.crc \in {GarbledCrc} \cup {crc32(q) : q \in Text}
  BY <1>1, <1>2, <1>4 DEF CoreInv, InkInv
<1> HIDE DEF t
<1>6. /\ disk' \in [LBA -> Sector]
      /\ disk'[sealed] = t
      /\ \A i \in LBA : i # sealed => disk'[i] = disk[i]
  BY <1>1, <1>3 DEF t
<1>7. InkInv'
  BY <1>5, <1>6 DEF CoreInv, InkInv
<1> QED BY <1>1, <1>6, <1>7

\* All that a step can do to the disk.
LEMMA CoreDiskWrites ==
  ASSUME CoreInv, LogStep
  PROVE  \/ UNCHANGED disk
         \/ Writing /\ \E cut \in Cut :
              disk' = [disk EXCEPT ![sealed] = torn(disk[sealed], NewSector, cut)]
<1>1. CASE WriteOk
  <2>1. Writing /\ disk' = [disk EXCEPT ![sealed] = NewSector]
    BY <1>1 DEF WriteOk
  <2>2. /\ disk[sealed] \in Sector
        /\ tail \in Seq(Byte) /\ Len(tail) <= PAYLOAD_CAPACITY /\ sealed \in Nat
    BY <2>1, SectorsAssumption DEF CoreInv, TypeOK, TailInv, Writing, Appending, LBA
  <2>3. NewSector \in Sector
    BY <2>2, EncodeType DEF NewSector
  <2>4. PAYLOAD_CAPACITY + 5 \in Cut
    BY CapacityAssumption DEF Cut
  <2>5. torn(disk[sealed], NewSector, PAYLOAD_CAPACITY + 5) = NewSector
    BY <2>2, <2>3, TornLast
  <2> QED BY <2>1, <2>4, <2>5
<1>2. CASE WriteErr
  BY <1>2 DEF WriteErr
<1>3. CASE PowerLoss
  BY <1>3 DEF PowerLoss
<1>4. CASE PowerOn \/ Probe \/ LoadError \/ Ink \/ WriteSkipped \/ UNCHANGED vars
  BY <1>4 DEF PowerOn, Probe, LoadError, Ink, WriteSkipped, vars
<1>5. CASE Load
  BY <1>5 DEF Load
<1>6. CASE \E bytes \in Seq(Byte) : AppendRaw(bytes)
  BY <1>6 DEF AppendRaw
<1> QED BY <1>1, <1>2, <1>3, <1>4, <1>5, <1>6 DEF LogStep

LEMMA CoreDisk ==
  ASSUME CoreInv, LogStep
  PROVE  disk' \in [LBA -> Sector] /\ InkInv'
<1>1. CASE UNCHANGED disk
  BY <1>1 DEF CoreInv, TypeOK, InkInv
<1>2. CASE Writing /\ \E cut \in Cut :
             disk' = [disk EXCEPT ![sealed] = torn(disk[sealed], NewSector, cut)]
  BY <1>2, WrittenCore
<1> QED BY <1>1, <1>2, CoreDiskWrites

LEMMA WriteReturnsCore ==
  ASSUME CoreInv, WriteReturns, UNCHANGED <<lo, hi>>, trouble' \in BOOLEAN,
         disk' \in [LBA -> Sector], InkInv'
  PROVE  CoreInv'
<1>1. TypeOK' /\ TailInv'
  BY WriteReturnsTypes DEF CoreInv
<1>2. BoundaryInv'
  BY DEF WriteReturns, Sealed, Rewritten, BoundaryInv
<1> QED BY <1>1, <1>2 DEF CoreInv

LEMMA WriteCore == CoreInv /\ (WriteSkipped \/ WriteOk \/ WriteErr) => CoreInv'
<1> SUFFICES ASSUME CoreInv, WriteSkipped \/ WriteOk \/ WriteErr PROVE CoreInv'
  OBVIOUS
<1>1. disk' \in [LBA -> Sector] /\ InkInv'
  BY CoreDisk DEF LogStep
<1>2. CASE WriteSkipped \/ WriteOk
  <2>1. WriteReturns /\ UNCHANGED <<lo, hi, trouble>>
    BY <1>2 DEF WriteSkipped, WriteOk
  <2>2. trouble' \in BOOLEAN
    BY <2>1 DEF CoreInv, TypeOK
  <2> QED BY <1>1, <2>1, <2>2, WriteReturnsCore
<1>3. CASE WriteErr
  <2>1. Writing /\ UNCHANGED <<lo, hi>>
    BY <1>3 DEF WriteErr
  <2>2. CASE /\ attempt + 1 < ATTEMPTS
             /\ attempt' = attempt + 1
             /\ UNCHANGED <<pc, sealed, tail, full, trouble, todo>>
    <3>1. TypeOK'
      BY <1>1, <2>1, <2>2 DEF CoreInv, TypeOK, ATTEMPTS
    <3>2. TailInv' /\ BoundaryInv'
      BY <2>1, <2>2 DEF CoreInv, TailInv, BoundaryInv, Writing, Running, Appending
    <3> QED BY <1>1, <3>1, <3>2 DEF CoreInv
  <2>3. CASE attempt + 1 = ATTEMPTS /\ trouble' = TRUE /\ WriteReturns
    BY <1>1, <2>1, <2>3, WriteReturnsCore
  <2> QED BY <1>3, <2>2, <2>3 DEF WriteErr
<1> QED BY <1>2, <1>3

LEMMA PowerLossCore == CoreInv /\ PowerLoss => CoreInv'
<1> SUFFICES ASSUME CoreInv, PowerLoss PROVE CoreInv'
  OBVIOUS
<1>1. pc' = "off" /\ Amnesia
  BY DEF PowerLoss
<1>2. disk' \in [LBA -> Sector] /\ InkInv'
  BY CoreDisk DEF LogStep
<1>3. TypeOK'
  <2>1. 0 \in 0..TOTAL_SECTORS /\ 0 \in 0..(ATTEMPTS - 1)
    BY SectorsAssumption DEF ATTEMPTS
  <2>2. tail' \in Seq(Byte) /\ Len(tail') <= PAYLOAD_CAPACITY /\ todo' \in Seq(Byte)
    BY <1>1, CapacityAssumption DEF Amnesia
  <2> QED BY <1>1, <1>2, <2>1, <2>2 DEF TypeOK, Amnesia
<1>4. TailInv' /\ BoundaryInv'
  BY <1>1 DEF TailInv, BoundaryInv, Running, Appending
<1> QED BY <1>2, <1>3, <1>4 DEF CoreInv

LEMMA CoreStep == CoreInv /\ LogStep => CoreInv'
<1> SUFFICES ASSUME CoreInv, LogStep PROVE CoreInv'
  OBVIOUS
<1>1. CASE UNCHANGED vars
  BY <1>1 DEF vars, ram, CoreInv, TypeOK, InkInv, TailInv, BoundaryInv, Running, Appending
<1> QED BY <1>1, PowerOnCore, ProbeCore, LoadCore, LoadErrorCore, AppendRawCore, InkCore,
           WriteCore, PowerLossCore DEF LogStep

-----------------------------------------------------------------------------
(***************************************************************************)
(* The decaying disk.  Until a sector decays the disk is sound.  Once one  *)
(* has, the lowest rotten sector shelters those before it: they are full,  *)
(* the search stops behind them and nothing is written before it.          *)
(***************************************************************************)
Sheltered(m) == /\ \A i \in LBA : i < m => isFull(disk[i], i) /\ i \notin rotten
                /\ Running => m <= sealed

RotInv ==
  /\ CoreInv
  /\ rotten \subseteq LBA
  /\ rotten = {} => IInv
  /\ rotten # {} => \E m \in rotten : Sheltered(m)

LEMMA RotInitInv == RotInit => RotInv
BY InitInv, CoreInit DEF RotInit, TextInit, RotInv

\* Before the lowest rotten sector nothing is touched.
LEMMA ShelteredSector ==
  ASSUME CoreInv, LogStep, NEW m \in LBA, Sheltered(m), NEW i \in LBA, i < m
  PROVE  disk'[i] = disk[i]
<1>1. CASE UNCHANGED disk
  BY <1>1
<1>2. ASSUME Writing, NEW cut \in Cut,
             disk' = [disk EXCEPT ![sealed] = torn(disk[sealed], NewSector, cut)]
      PROVE  disk'[i] = disk[i]
  <2>1. m <= sealed /\ sealed \in LBA
    BY <1>2, WrittenCore DEF Sheltered, Writing, Running, Appending
  <2>2. i # sealed
    BY <2>1, SectorsAssumption DEF LBA
  <2> QED BY <1>2, <2>2, WrittenCore
<1> QED BY <1>1, <1>2, CoreDiskWrites

\* sealed only grows while the kernel runs.
LEMMA SealedGrows ==
  ASSUME CoreInv, LogStep, Running'
  PROVE  (Running /\ sealed <= sealed') \/ (Load /\ pc' = "idle")
<1>1. sealed \in Nat
  BY SectorsAssumption DEF CoreInv, TypeOK
<1>2. CASE PowerOn \/ Probe \/ LoadError \/ PowerLoss
  BY <1>2 DEF PowerOn, Probe, LoadError, PowerLoss, Running, Appending
<1>3. CASE Load
  BY <1>3 DEF Load, Running, Appending
<1>4. CASE \E bytes \in Seq(Byte) : AppendRaw(bytes)
  BY <1>1, <1>4 DEF AppendRaw, Running
<1>5. CASE Ink
  BY <1>1, <1>5 DEF Ink, Running, Appending
<1>6. ASSUME WriteReturns PROVE Running /\ sealed <= sealed'
  BY <1>1, <1>6 DEF WriteReturns, Sealed, Rewritten, Running, Appending
<1>7. CASE WriteSkipped \/ WriteOk
  BY <1>6, <1>7 DEF WriteSkipped, WriteOk
<1>8. CASE WriteErr
  BY <1>1, <1>6, <1>8 DEF WriteErr, Writing, Running, Appending
<1>9. CASE UNCHANGED vars
  BY <1>1, <1>9 DEF vars, ram, Running, Appending
<1> QED BY <1>2, <1>3, <1>4, <1>5, <1>7, <1>8, <1>9 DEF LogStep

\* Wherever the search ends, it ends behind the sheltered sectors.
LEMMA LoadSkipsSheltered ==
  ASSUME CoreInv, Load, pc' = "idle", NEW m \in LBA, Sheltered(m)
  PROVE  m <= sealed'
<1>1. /\ pc = "search" /\ lo = hi
      /\ sealed' = IF lo = 0 \/ LastIsSealed(lo) THEN lo ELSE lo - 1
  BY DEF Load
<1>2. lo \in 0..TOTAL_SECTORS /\ lo \in Nat /\ m \in Nat /\ m < TOTAL_SECTORS
  BY SectorsAssumption DEF CoreInv, TypeOK, LBA
<1>3. \A i \in LBA : i < m => decodes(disk[i], i) /\ disk[i].length = PAYLOAD_CAPACITY
  BY DEF Sheltered, isFull
<1>4. m <= lo
  <2> SUFFICES ASSUME lo < m PROVE FALSE
    BY <1>2
  <2>1. lo \in LBA /\ lo < TOTAL_SECTORS
    BY <1>2, SectorsAssumption DEF LBA
  <2> QED BY <1>1, <1>3, <2>1 DEF CoreInv, BoundaryInv
<1>5. CASE lo = m
  <2>1. lo # 0 => lo - 1 \in LBA /\ lo - 1 < m
    BY <1>2, <1>5, SectorsAssumption DEF LBA
  <2>2. lo = 0 \/ LastIsSealed(lo)
    BY <1>3, <2>1 DEF LastIsSealed
  <2> QED BY <1>1, <1>2, <1>5, <2>2
<1>6. CASE lo # m
  BY <1>1, <1>2, <1>4, <1>6
<1> QED BY <1>5, <1>6

LEMMA ShelteredStep ==
  ASSUME CoreInv, LogStep, UNCHANGED rotten, NEW m \in LBA, Sheltered(m)
  PROVE  Sheltered(m)'
<1>1. ASSUME NEW i \in LBA, i < m PROVE isFull(disk'[i], i) /\ i \notin rotten'
  <2>1. disk'[i] = disk[i]
    BY <1>1, ShelteredSector
  <2> QED BY <1>1, <2>1 DEF Sheltered
<1>2. ASSUME Running' PROVE m <= sealed'
  <2>1. CASE Running /\ sealed <= sealed'
    <3>1. sealed \in Int /\ sealed' \in Int
      BY CoreStep, SectorsAssumption DEF CoreInv, TypeOK
    <3> QED BY <2>1, <3>1 DEF Sheltered, LBA
  <2>2. CASE Load /\ pc' = "idle"
    BY <2>2, LoadSkipsSheltered
  <2> QED BY <1>2, <2>1, <2>2, SealedGrows
<1> QED BY <1>1, <1>2 DEF Sheltered

LEMMA RotTextInv == RotInv /\ LogStep /\ UNCHANGED rotten => RotInv'
<1> SUFFICES ASSUME RotInv, LogStep, UNCHANGED rotten PROVE RotInv'
  OBVIOUS
<1>1. CoreInv'
  BY CoreStep DEF RotInv
<1>2. rotten' = {} => IInv'
  BY LogStepInv DEF RotInv
<1>3. ASSUME rotten' # {} PROVE \E m \in rotten' : Sheltered(m)'
  <2>1. PICK m \in rotten : Sheltered(m)
    BY <1>3 DEF RotInv
  <2>2. Sheltered(m)'
    BY <2>1, ShelteredStep DEF RotInv
  <2> QED BY <2>1, <2>2
<1> QED BY <1>1, <1>2, <1>3 DEF RotInv

\* A sector that decays was full, and so were all before the lowest one.
LEMMA DecayInv ==
  ASSUME RotInv, NEW lba \in LBA, Rot(lba)
  PROVE  RotInv'
<1>1. /\ pc = "off" /\ lba \notin rotten /\ isFull(disk[lba], lba)
      /\ disk' = [disk EXCEPT ![lba].crc = GarbledCrc]
      /\ rotten' = rotten \cup {lba}
      /\ UNCHANGED <<pc, lo, hi, sealed, tail, full, trouble, todo, attempt>>
  BY DEF Rot, ram
<1> DEFINE t == [disk[lba] EXCEPT !.crc = GarbledCrc]
<1>2. disk \in [LBA -> Sector] /\ disk[lba] \in Sector
  BY DEF RotInv, CoreInv, TypeOK
<1>3. t \in Sector /\ t.crc = GarbledCrc
  BY <1>2 DEF Sector, GarbledCrc
<1>4. disk' = [disk EXCEPT ![lba] = t]
  BY <1>1
<1> HIDE DEF t
<1>5. /\ disk' \in [LBA -> Sector] /\ disk'[lba].crc = GarbledCrc
      /\ \A i \in LBA : i # lba => disk'[i] = disk[i]
  BY <1>2, <1>3, <1>4
<1>6. CoreInv'
  <2>1. TypeOK'
    BY <1>1, <1>5 DEF RotInv, CoreInv, TypeOK
  <2>2. InkInv'
    BY <1>5 DEF RotInv, CoreInv, InkInv
  <2>3. TailInv' /\ BoundaryInv'
    BY <1>1 DEF TailInv, BoundaryInv, Running, Appending
  <2> QED BY <2>1, <2>2, <2>3 DEF CoreInv
<1>7. \E m \in rotten' : Sheltered(m)'
  <2>1. ~Running'
    BY <1>1 DEF Running, Appending
  <2>2. CASE rotten = {}
    <3>1. PICK f \in 0..TOTAL_SECTORS : Frontier(f)
      BY <2>2 DEF RotInv, IInv, DiskInv
    <3>2. lba <= f
      BY <1>1, <3>1, ZeroedFacts, SectorsAssumption DEF Frontier, isFull, LBA
    <3>3. \A i \in LBA : i < lba => isFull(disk[i], i) /\ i # lba
      BY <3>1, <3>2, SectorsAssumption DEF Frontier, LBA
    <3>4. Sheltered(lba)'
      BY <1>1, <1>5, <2>1, <2>2, <3>3 DEF Sheltered
    <3> QED BY <1>1, <3>4
  <2>3. CASE rotten # {}
    <3>1. PICK m \in rotten : Sheltered(m)
      BY <2>3 DEF RotInv
    <3>2. m \in LBA
      BY DEF RotInv
    <3>3. CASE lba < m
      <4>1. \A i \in LBA : i < lba => i < m /\ i # lba
        BY <3>2, <3>3, SectorsAssumption DEF LBA
      <4>2. Sheltered(lba)'
        BY <1>1, <1>5, <2>1, <3>1, <4>1 DEF Sheltered
      <4> QED BY <1>1, <4>2
    <3>4. CASE ~(lba < m)
      <4>1. \A i \in LBA : i < m => i # lba
        BY <3>2, <3>4, SectorsAssumption DEF LBA
      <4>2. Sheltered(m)'
        BY <1>1, <1>5, <2>1, <3>1, <4>1 DEF Sheltered
      <4> QED BY <1>1, <3>1, <4>2
    <3> QED BY <3>3, <3>4
  <2> QED BY <2>2, <2>3
<1> QED BY <1>1, <1>6, <1>7 DEF RotInv

LEMMA RotNextInv == RotInv /\ [RotNext]_rotVars => RotInv'
<1> SUFFICES ASSUME RotInv, [RotNext]_rotVars PROVE RotInv'
  OBVIOUS
<1>1. CASE TextNext /\ UNCHANGED rotten
  BY <1>1, TextIsLogStep, RotTextInv
<1>2. CASE \E lba \in LBA : Rot(lba)
  BY <1>2, DecayInv
<1>3. CASE UNCHANGED rotVars
  <2>1. UNCHANGED textVars /\ UNCHANGED rotten
    BY <1>3 DEF rotVars
  <2> QED BY <2>1, TextIsLogStep, RotTextInv
<1> QED BY <1>1, <1>2, <1>3 DEF RotNext

(* Decay leaves a shelter: before the lowest rotten sector every record is *)
(* full, and the kernel never writes there, in this boot or a later one.   *)
THEOREM RotInvariance == RotSpec => []RotInv
BY RotInitInv, RotNextInv, PTL DEF RotSpec

(* On any disk the search of load stops between a sector that decodes and  *)
(* one that does not.                                                      *)
THEOREM SearchStopsAtBoundary == RotSpec => []SearchFindsBoundary
<1>1. RotInv => SearchFindsBoundary
  <2> SUFFICES ASSUME RotInv, pc = "search", lo = hi
               PROVE  /\ lo > 0 => decodes(disk[lo - 1], lo - 1)
                      /\ lo < TOTAL_SECTORS => ~decodes(disk[lo], lo)
    BY DEF SearchFindsBoundary
  <2> QED BY DEF RotInv, CoreInv, BoundaryInv
<1> QED BY <1>1, RotInvariance, PTL

(* Decay never reaches backwards: a sealed sector behind which nothing but *)
(* sound sectors lie is never written again.                               *)
THEOREM SoundPrefixStays == RotSpec => SoundPrefixForever
<1>1. ASSUME RotInv, [RotNext]_rotVars, NEW i \in LBA,
             \A j \in 0..i : j \notin rotten', isFull(disk[i], i)
      PROVE  disk'[i] = disk[i]
  <2>1. CASE LogStep /\ UNCHANGED rotten
    <3>1. CASE rotten = {}
      <4>1. IInv
        BY <3>1, <1>1 DEF RotInv
      <4>2. \/ UNCHANGED disk
            \/ Writing /\ \E cut \in Cut :
                 disk' = [disk EXCEPT ![sealed] = torn(disk[sealed], NewSector, cut)]
        BY <1>1, <2>1, CoreDiskWrites DEF RotInv
      <4> QED BY <1>1, <4>1, <4>2, WriteStep
    <3>2. CASE rotten # {}
      <4>1. PICK m \in rotten : Sheltered(m)
        BY <1>1, <3>2 DEF RotInv
      <4>2. m \in LBA
        BY <1>1 DEF RotInv
      <4>3. i < m
        BY <1>1, <2>1, <4>2, SectorsAssumption DEF LBA
      <4> QED BY <1>1, <2>1, <4>1, <4>2, <4>3, ShelteredSector DEF RotInv
    <3> QED BY <3>1, <3>2
  <2>2. ASSUME NEW lba \in LBA, Rot(lba) PROVE disk'[i] = disk[i]
    <3>1. lba \in rotten' /\ disk' = [disk EXCEPT ![lba].crc = GarbledCrc]
      BY <2>2 DEF Rot
    <3>2. i # lba
      BY <1>1, <3>1, SectorsAssumption DEF LBA
    <3> QED BY <1>1, <3>1, <3>2 DEF RotInv, CoreInv, TypeOK
  <2>3. CASE UNCHANGED rotVars
    BY <2>3 DEF rotVars, textVars, vars
  <2> QED BY <1>1, <2>1, <2>2, <2>3, TextIsLogStep DEF RotNext
<1>2. RotInv /\ [RotNext]_rotVars =>
        [\A i \in LBA : /\ \A j \in 0..i : j \notin rotten'
                        /\ isFull(disk[i], i)
                        => disk'[i] = disk[i]]_rotVars
  BY <1>1
<1> QED BY <1>2, RotInvariance, PTL DEF RotSpec, SoundPrefixForever

-----------------------------------------------------------------------------
(***************************************************************************)
(* Payloads, with the disk as an argument, so that the text of a disk and  *)
(* that of its successor can be compared.                                  *)
(***************************************************************************)
PayloadsOf(d, first, end) ==
  LET upto[n \in first..end] ==
        IF n = first THEN <<>> ELSE upto[n - 1] \o payload(d[n - 1])
  IN  upto[end]

Unfolds(f, d, a, b) ==
  f = [n \in a..b |-> IF n = a THEN <<>> ELSE f[n - 1] \o payload(d[n - 1])]

LEMMA PayloadsExist ==
  ASSUME NEW d, NEW a \in Nat, NEW k \in Nat
  PROVE  \E f : Unfolds(f, d, a, a + k)
<1> DEFINE Ok(j) == \E f : f = [n \in a..(a + j) |->
                                  IF n = a THEN <<>> ELSE f[n - 1] \o payload(d[n - 1])]
           S == {j \in Nat : Ok(j)}
<1>1. Ok(0)
  <2> DEFINE f == [n \in a..(a + 0) |-> <<>>]
  <2>1. \A n \in a..(a + 0) : n = a
    OBVIOUS
  <2>2. f = [n \in a..(a + 0) |-> IF n = a THEN <<>> ELSE f[n - 1] \o payload(d[n - 1])]
    BY <2>1
  <2> QED BY <2>2
<1>2. ASSUME NEW j \in Nat, Ok(j) PROVE Ok(j + 1)
  <2>1. PICK f : f = [n \in a..(a + j) |->
                        IF n = a THEN <<>> ELSE f[n - 1] \o payload(d[n - 1])]
    BY <1>2
  <2> DEFINE g == [n \in a..(a + (j + 1)) |->
                     IF n = a THEN <<>> ELSE f[n - 1] \o payload(d[n - 1])]
  <2>2. \A n \in a..(a + (j + 1)) : n # a => n - 1 \in a..(a + j)
    OBVIOUS
  <2>3. \A n \in a..(a + j) : n \in a..(a + (j + 1))
    OBVIOUS
  <2>4. \A n \in a..(a + j) : g[n] = f[n]
    BY <2>1, <2>3
  <2>5. g = [n \in a..(a + (j + 1)) |->
               IF n = a THEN <<>> ELSE g[n - 1] \o payload(d[n - 1])]
    BY <2>2, <2>4
  <2> QED BY <2>5
<1> HIDE DEF Ok
<1>3. 0 \in S /\ \A j \in Nat : j \in S => j + 1 \in S
  BY <1>1, <1>2
<1>4. k \in S
  <2> HIDE DEF S
  <2> QED BY <1>3, Lengths
<1> QED BY <1>4 DEF Ok, Unfolds

LEMMA PayloadsDef ==
  ASSUME NEW d, NEW a \in Nat, NEW b \in Nat, a <= b
  PROVE  \E f : /\ f = [n \in a..b |->
                          IF n = a THEN <<>> ELSE f[n - 1] \o payload(d[n - 1])]
                /\ PayloadsOf(d, a, b) = f[b]
<1> DEFINE Rec(f) == f = [n \in a..b |->
                            IF n = a THEN <<>> ELSE f[n - 1] \o payload(d[n - 1])]
<1>1. \E f : Rec(f)
  <2>1. PICK k \in Nat : k = b - a
    OBVIOUS
  <2>2. a + k = b
    BY <2>1
  <2>3. \E f : Unfolds(f, d, a, a + k)
    BY PayloadsExist
  <2> QED BY <2>2, <2>3 DEF Unfolds
<1>2. PayloadsOf(d, a, b) = (CHOOSE f : Rec(f))[b]
  BY DEF PayloadsOf
<1>3. Rec(CHOOSE f : Rec(f))
  BY <1>1
<1> QED BY <1>2, <1>3

LEMMA PayloadsNone ==
  ASSUME NEW d, NEW a \in Nat
  PROVE  PayloadsOf(d, a, a) = <<>>
<1>1. PICK f : /\ f = [n \in a..a |->
                         IF n = a THEN <<>> ELSE f[n - 1] \o payload(d[n - 1])]
               /\ PayloadsOf(d, a, a) = f[a]
  <2>1. a <= a
    OBVIOUS
  <2> QED BY <2>1, PayloadsDef
<1>2. a \in a..a
  OBVIOUS
<1> QED BY <1>1, <1>2

LEMMA PayloadsNext ==
  ASSUME NEW d, NEW a \in Nat, NEW b \in Nat, a <= b
  PROVE  PayloadsOf(d, a, b + 1) = PayloadsOf(d, a, b) \o payload(d[b])
<1>1. PICK f : /\ f = [n \in a..b |->
                         IF n = a THEN <<>> ELSE f[n - 1] \o payload(d[n - 1])]
               /\ PayloadsOf(d, a, b) = f[b]
  BY PayloadsDef
<1>2. PICK g : /\ g = [n \in a..(b + 1) |->
                         IF n = a THEN <<>> ELSE g[n - 1] \o payload(d[n - 1])]
               /\ PayloadsOf(d, a, b + 1) = g[b + 1]
  <2>1. b + 1 \in Nat /\ a <= b + 1
    OBVIOUS
  <2> QED BY <2>1, PayloadsDef
<1> DEFINE S == {j \in 0..(b - a) : g[a + j] = f[a + j]}
<1>3. b - a \in Nat /\ a + (b - a) = b
  OBVIOUS
<1>4. 0 \in S
  <2>1. a + 0 = a /\ a \in a..b /\ a \in a..(b + 1) /\ 0 \in 0..(b - a)
    OBVIOUS
  <2>2. f[a] = <<>> /\ g[a] = <<>>
    BY <1>1, <1>2, <2>1
  <2> QED BY <2>1, <2>2
<1>5. ASSUME NEW j \in 0..((b - a) - 1), j \in S PROVE j + 1 \in S
  <2>1. /\ j + 1 \in 0..(b - a)
        /\ a + (j + 1) \in a..b /\ a + (j + 1) \in a..(b + 1)
        /\ a + (j + 1) # a /\ (a + (j + 1)) - 1 = a + j
    OBVIOUS
  <2>2. f[a + (j + 1)] = f[a + j] \o payload(d[a + j])
    BY <1>1, <2>1
  <2>3. g[a + (j + 1)] = g[a + j] \o payload(d[a + j])
    BY <1>2, <2>1
  <2> QED BY <1>5, <2>1, <2>2, <2>3
<1>6. b - a \in S
  <2>1. b - a \in 0..(b - a)
    OBVIOUS
  <2> HIDE DEF S
  <2> QED BY <1>3, <1>4, <1>5, <2>1, LengthsUpto
<1>7. g[b] = f[b]
  BY <1>3, <1>6
<1>8. g[b + 1] = g[b] \o payload(d[b])
  <2>1. b + 1 \in a..(b + 1) /\ b + 1 # a /\ (b + 1) - 1 = b
    OBVIOUS
  <2> QED BY <1>2, <2>1
<1> QED BY <1>1, <1>2, <1>7, <1>8

\* Two disks that agree on a range hold the same text there.
LEMMA PayloadsAgree ==
  ASSUME NEW d, NEW e, NEW a \in Nat, NEW b \in Nat, a <= b,
         \A i \in a..(b - 1) : d[i] = e[i]
  PROVE  PayloadsOf(d, a, b) = PayloadsOf(e, a, b)
<1> DEFINE S == {j \in 0..(b - a) : PayloadsOf(d, a, a + j) = PayloadsOf(e, a, a + j)}
<1>1. 0 \in S
  <2>1. a + 0 = a /\ 0 \in 0..(b - a)
    OBVIOUS
  <2> QED BY <2>1, PayloadsNone
<1>2. ASSUME NEW j \in 0..((b - a) - 1), j \in S PROVE j + 1 \in S
  <2>1. /\ j + 1 \in 0..(b - a) /\ a + j \in Nat /\ a <= a + j
        /\ a + (j + 1) = (a + j) + 1 /\ a + j \in a..(b - 1)
    OBVIOUS
  <2>2. d[a + j] = e[a + j]
    BY <2>1
  <2>3. /\ PayloadsOf(d, a, (a + j) + 1) = PayloadsOf(d, a, a + j) \o payload(d[a + j])
        /\ PayloadsOf(e, a, (a + j) + 1) = PayloadsOf(e, a, a + j) \o payload(e[a + j])
    BY <2>1, PayloadsNext
  <2> QED BY <1>2, <2>1, <2>2, <2>3
<1>3. b - a \in S
  <2>1. b - a \in Nat /\ b - a \in 0..(b - a)
    OBVIOUS
  <2> HIDE DEF S
  <2> QED BY <1>1, <1>2, <2>1, LengthsUpto
<1>4. a + (b - a) = b
  OBVIOUS
<1> QED BY <1>3, <1>4

LEMMA PayloadsType ==
  ASSUME NEW d, NEW a \in Nat, NEW b \in Nat, a <= b,
         \A i \in a..(b - 1) : payload(d[i]) \in Seq(Byte)
  PROVE  PayloadsOf(d, a, b) \in Seq(Byte)
<1> DEFINE S == {j \in 0..(b - a) : PayloadsOf(d, a, a + j) \in Seq(Byte)}
<1>1. 0 \in S
  <2>1. a + 0 = a /\ 0 \in 0..(b - a)
    OBVIOUS
  <2> QED BY <2>1, PayloadsNone, EmptySeq
<1>2. ASSUME NEW j \in 0..((b - a) - 1), j \in S PROVE j + 1 \in S
  <2>1. /\ j + 1 \in 0..(b - a) /\ a + j \in Nat /\ a <= a + j
        /\ a + (j + 1) = (a + j) + 1 /\ a + j \in a..(b - 1)
    OBVIOUS
  <2>2. payload(d[a + j]) \in Seq(Byte)
    BY <2>1
  <2>3. PayloadsOf(d, a, (a + j) + 1) = PayloadsOf(d, a, a + j) \o payload(d[a + j])
    BY <2>1, PayloadsNext
  <2> QED BY <1>2, <2>1, <2>2, <2>3, ConcatProperties
<1>3. b - a \in S
  <2>1. b - a \in Nat /\ b - a \in 0..(b - a)
    OBVIOUS
  <2> HIDE DEF S
  <2> QED BY <1>1, <1>2, <2>1, LengthsUpto
<1>4. a + (b - a) = b
  OBVIOUS
<1> QED BY <1>3, <1>4

LEMMA PayloadsSplit ==
  ASSUME NEW d, NEW a \in Nat, NEW b \in Nat, NEW c \in Nat, a <= b, b <= c,
         \A i \in a..(c - 1) : payload(d[i]) \in Seq(Byte)
  PROVE  PayloadsOf(d, a, b) \o PayloadsOf(d, b, c) = PayloadsOf(d, a, c)
<1> DEFINE S == {j \in 0..(c - b) :
                   PayloadsOf(d, a, b) \o PayloadsOf(d, b, b + j) = PayloadsOf(d, a, b + j)}
<1>1. PayloadsOf(d, a, b) \in Seq(Byte)
  <2>1. \A i \in a..(b - 1) : i \in a..(c - 1)
    OBVIOUS
  <2> QED BY <2>1, PayloadsType
<1>2. 0 \in S
  <2>1. b + 0 = b /\ 0 \in 0..(c - b)
    OBVIOUS
  <2> QED BY <1>1, <2>1, PayloadsNone, ConcatEmptySeq
<1>3. ASSUME NEW j \in 0..((c - b) - 1), j \in S PROVE j + 1 \in S
  <2>1. /\ j + 1 \in 0..(c - b) /\ b + j \in Nat /\ b <= b + j /\ a <= b + j
        /\ b + (j + 1) = (b + j) + 1 /\ b + j \in a..(c - 1)
        /\ \A i \in b..((b + j) - 1) : i \in a..(c - 1)
    OBVIOUS
  <2>2. payload(d[b + j]) \in Seq(Byte) /\ PayloadsOf(d, b, b + j) \in Seq(Byte)
    BY <2>1, PayloadsType
  <2>3. /\ PayloadsOf(d, a, (b + j) + 1) = PayloadsOf(d, a, b + j) \o payload(d[b + j])
        /\ PayloadsOf(d, b, (b + j) + 1) = PayloadsOf(d, b, b + j) \o payload(d[b + j])
    BY <2>1, PayloadsNext
  <2>4. PayloadsOf(d, a, b) \o (PayloadsOf(d, b, b + j) \o payload(d[b + j]))
          = (PayloadsOf(d, a, b) \o PayloadsOf(d, b, b + j)) \o payload(d[b + j])
    <3>1. \A x, y, z \in Seq(Byte) : x \o (y \o z) = (x \o y) \o z
      BY ConcatAssociative
    <3> QED BY <1>1, <2>2, <3>1, Zenon
  <2> QED BY <1>3, <2>1, <2>3, <2>4
<1>4. c - b \in S
  <2>1. c - b \in Nat /\ c - b \in 0..(c - b)
    OBVIOUS
  <2> HIDE DEF S
  <2> QED BY <1>2, <1>3, <2>1, LengthsUpto
<1>5. b + (c - b) = c
  OBVIOUS
<1> QED BY <1>4, <1>5

-----------------------------------------------------------------------------
(***************************************************************************)
(* The loader on a sound disk.  The sectors it still owes are full, so     *)
(* neither a keystroke nor a failed write can change what it will find,    *)
(* and the tail sector, which may change, is not one of them.              *)
(***************************************************************************)
LoaderInv ==
  /\ pending \in [prefix : Seq(Byte), cursor : Nat, end : 0..TOTAL_SECTORS]
  /\ pending.cursor <= pending.end
  /\ pending.prefix = PayloadsOf(disk, 0, pending.cursor)
  /\ \A i \in LBA : i < pending.end => isFull(disk[i], i)
  /\ Running => pending.end <= sealed

TextInv == IInv /\ CoreInv /\ LoaderInv

LEMMA NoneLoader ==
  ASSUME pending' = None, sealed' \in Nat
  PROVE  LoaderInv'
<1>1. /\ None.prefix = <<>> /\ None.cursor = 0 /\ None.end = 0
      /\ None \in [prefix : Seq(Byte), cursor : Nat, end : 0..TOTAL_SECTORS]
  <2>1. <<>> \in Seq(Byte)
    BY EmptySeq
  <2>2. 0 \in 0..TOTAL_SECTORS
    BY SectorsAssumption
  <2> QED BY <2>1, <2>2 DEF None
<1>2. PayloadsOf(disk', 0, 0) = <<>>
  BY PayloadsNone
<1>3. \A i \in LBA : ~(i < 0)
  BY SectorsAssumption DEF LBA
<1> HIDE DEF None
<1> QED BY <1>1, <1>2, <1>3 DEF LoaderInv

LEMMA TextInitInv == TextInit => TextInv
<1> SUFFICES ASSUME TextInit PROVE TextInv
  OBVIOUS
<1>1. IInv /\ CoreInv
  BY InitInv, CoreInit DEF TextInit
<1>2. LoaderInv
  <2>1. /\ pending.prefix = <<>> /\ pending.cursor = 0 /\ pending.end = 0
        /\ pending \in [prefix : Seq(Byte), cursor : Nat, end : 0..TOTAL_SECTORS]
    <3>1. <<>> \in Seq(Byte)
      BY EmptySeq
    <3>2. 0 \in 0..TOTAL_SECTORS
      BY SectorsAssumption
    <3> QED BY <3>1, <3>2 DEF TextInit, None
  <2>2. PayloadsOf(disk, 0, 0) = <<>>
    BY PayloadsNone
  <2>3. \A i \in LBA : ~(i < 0)
    BY SectorsAssumption DEF LBA
  <2>4. ~Running
    BY DEF TextInit, Init, Running, Appending
  <2> QED BY <2>1, <2>2, <2>3, <2>4 DEF LoaderInv
<1> QED BY <1>1, <1>2 DEF TextInv

\* A full sector stays as it is.
LEMMA FullStays ==
  ASSUME IInv, CoreInv, LogStep, NEW i \in LBA, isFull(disk[i], i)
  PROVE  disk'[i] = disk[i]
<1>1. \/ UNCHANGED disk
      \/ Writing /\ \E cut \in Cut :
           disk' = [disk EXCEPT ![sealed] = torn(disk[sealed], NewSector, cut)]
  BY CoreDiskWrites
<1> QED BY <1>1, WriteStep

\* The disk goes on, the loader stands still.
LEMMA LoaderKept ==
  ASSUME TextInv, LogStep, pending' = pending, ~(Load /\ pc' = "idle")
  PROVE  LoaderInv'
<1>1. /\ pending \in [prefix : Seq(Byte), cursor : Nat, end : 0..TOTAL_SECTORS]
      /\ pending.cursor \in Nat /\ pending.end \in 0..TOTAL_SECTORS
      /\ pending.cursor <= pending.end
  BY DEF TextInv, LoaderInv
<1>2. ASSUME NEW i \in LBA, i < pending.end
      PROVE  disk'[i] = disk[i] /\ isFull(disk[i], i)
  BY <1>2, FullStays DEF TextInv, LoaderInv
<1>3. PayloadsOf(disk', 0, pending.cursor) = PayloadsOf(disk, 0, pending.cursor)
  <2>1. \A i \in 0..(pending.cursor - 1) : i \in LBA /\ i < pending.end
    BY <1>1, SectorsAssumption DEF LBA
  <2>2. \A i \in 0..(pending.cursor - 1) : disk'[i] = disk[i]
    BY <1>2, <2>1
  <2>3. 0 <= pending.cursor
    BY <1>1
  <2> QED BY <1>1, <2>2, <2>3, PayloadsAgree
<1>4. ASSUME Running' PROVE pending.end <= sealed'
  <2>1. Running /\ sealed <= sealed'
    BY <1>4, SealedGrows DEF TextInv
  <2>2. sealed \in Int /\ sealed' \in Int /\ pending.end \in Int
    BY <1>1, CoreStep, SectorsAssumption DEF TextInv, CoreInv, TypeOK
  <2> QED BY <2>1, <2>2 DEF TextInv, LoaderInv
<1> QED BY <1>1, <1>2, <1>3, <1>4 DEF TextInv, LoaderInv

\* What load leaves to the loader lies below the tail sector.
LEMMA RestoreLoader == TextInv /\ Restore => LoaderInv'
<1> SUFFICES ASSUME TextInv, Restore PROVE LoaderInv'
  OBVIOUS
<1>1. CASE pc' = "panic" /\ UNCHANGED <<text, pending>>
  BY <1>1, LoaderKept DEF Restore, LogStep
<1>2. CASE pc' = "idle" /\ pending' = [None EXCEPT !.end = FirstLoaded(lo)]
  <2>1. /\ pc = "search" /\ lo = hi /\ disk' = disk
        /\ sealed' = IF lo = 0 \/ LastIsSealed(lo) THEN lo ELSE lo - 1
    BY <1>2 DEF Restore, Load
  <2>2. /\ lo \in 0..TOTAL_SECTORS
        /\ \A i \in LBA : i < lo => decodes(disk[i], i)
    BY <2>1 DEF TextInv, IInv, TypeOK, SearchInv
  <2>3. /\ FirstLoaded(lo) \in 0..TOTAL_SECTORS
        /\ FirstLoaded(lo) = 0 \/ FirstLoaded(lo) <= lo - 1
    BY <2>2, SectorsAssumption DEF FirstLoaded
  <2>4. PICK f \in 0..TOTAL_SECTORS : Frontier(f)
    BY DEF TextInv, IInv, DiskInv
  <2>5. ASSUME NEW i \in LBA, i < FirstLoaded(lo) PROVE isFull(disk[i], i)
    <3>1. lo - 1 \in LBA /\ lo - 1 < lo /\ i < lo - 1
      BY <2>2, <2>3, <2>5, SectorsAssumption DEF LBA
    <3>2. decodes(disk[lo - 1], lo - 1)
      BY <2>2, <3>1
    <3>3. lo - 1 <= f
      BY <2>4, <3>1, <3>2, ZeroedFacts, SectorsAssumption DEF Frontier, LBA
    <3>4. i < f
      BY <3>1, <3>3, SectorsAssumption DEF LBA
    <3> QED BY <2>4, <3>4 DEF Frontier
  <2>6. FirstLoaded(lo) <= sealed'
    BY <2>1, <2>2, <2>3
  <2>7. /\ pending' = [prefix |-> <<>>, cursor |-> 0, end |-> FirstLoaded(lo)]
    BY <1>2 DEF None
  <2>8. <<>> \in Seq(Byte) /\ PayloadsOf(disk', 0, 0) = <<>>
    BY EmptySeq, PayloadsNone
  <2>9. /\ pending' \in [prefix : Seq(Byte), cursor : Nat, end : 0..TOTAL_SECTORS]
        /\ pending'.prefix = <<>> /\ pending'.cursor = 0 /\ pending'.end = FirstLoaded(lo)
    BY <2>3, <2>7, <2>8
  <2>10. 0 <= FirstLoaded(lo)
    BY <2>3
  <2> QED BY <2>1, <2>5, <2>6, <2>8, <2>9, <2>10 DEF LoaderInv
<1> QED BY <1>1, <1>2 DEF Restore

LEMMA MinOfTwo ==
  ASSUME NEW x \in Nat, NEW y \in Nat
  PROVE  Min({x, y}) = IF x <= y THEN x ELSE y
<1>1. CASE x <= y
  <2>1. x \in {x, y} /\ \A z \in {x, y} : x <= z
    BY <1>1
  <2>2. \A u \in {x, y} : (\A z \in {x, y} : u <= z) => u = x
    BY <1>1
  <2> QED BY <1>1, <2>1, <2>2 DEF Min
<1>2. CASE ~(x <= y)
  <2>1. y \in {x, y} /\ \A z \in {x, y} : y <= z
    BY <1>2
  <2>2. \A u \in {x, y} : (\A z \in {x, y} : u <= z) => u = y
    BY <1>2
  <2> QED BY <1>2, <2>1, <2>2 DEF Min
<1> QED BY <1>1, <1>2

\* The payload of a full sector is a text.
LEMMA FullIsText ==
  ASSUME CoreInv, NEW i \in LBA, isFull(disk[i], i)
  PROVE  payload(disk[i]) \in Seq(Byte)
BY DecodedIsText DEF CoreInv, isFull, Text

\* One chunk: every sector of it decodes, so the prefix grows by all of them.
LEMMA PumpStep ==
  ASSUME TextInv, TakeChunk
  PROVE  LET next == pending.cursor + ChunkSize
         IN  /\ next \in Nat /\ pending.cursor <= next /\ next <= pending.end
             /\ pending.prefix \o Payloads(pending.cursor, next) = PayloadsOf(disk, 0, next)
             /\ PayloadsOf(disk, 0, next) \in Seq(Byte)
             /\ \/ /\ next < pending.end
                   /\ pending' = [pending EXCEPT !.prefix = PayloadsOf(disk, 0, next),
                                                 !.cursor = next]
                   /\ UNCHANGED text
                \/ /\ next = pending.end
                   /\ text' = from_utf8_lossy(PayloadsOf(disk, 0, next) \o as_bytes(text))
                   /\ pending' = None
<1> DEFINE next == pending.cursor + ChunkSize
           broken == {lba \in pending.cursor..(next - 1) : ~decodes(disk[lba], lba)}
           taken(end) == pending.prefix \o Payloads(pending.cursor, end)
<1>1. /\ pending.cursor \in Nat /\ pending.end \in Nat
      /\ pending.end <= TOTAL_SECTORS /\ pending.cursor <= pending.end
  BY SectorsAssumption DEF TextInv, LoaderInv
<1>2. next \in Nat /\ pending.cursor <= next /\ next <= pending.end
  <2>1. /\ pending.end - pending.cursor \in Nat /\ CHUNK \in Nat
    BY <1>1, ChunkAssumption
  <2>2. ChunkSize = IF pending.end - pending.cursor <= CHUNK
                    THEN pending.end - pending.cursor ELSE CHUNK
    BY <2>1, MinOfTwo DEF ChunkSize
  <2> QED BY <1>1, <2>1, <2>2
<1>3. \/ /\ broken # {}
         /\ pending' = [pending EXCEPT !.prefix = taken(Min(broken))]
         /\ UNCHANGED text
      \/ /\ broken = {}
         /\ next < pending.end
         /\ pending' = [pending EXCEPT !.prefix = taken(next), !.cursor = next]
         /\ UNCHANGED text
      \/ /\ broken = {}
         /\ next = pending.end
         /\ text' = from_utf8_lossy(taken(next) \o as_bytes(text))
         /\ pending' = None
  BY DEF TakeChunk
<1> HIDE DEF next
<1>4. ASSUME NEW i \in 0..(next - 1)
      PROVE  i \in LBA /\ isFull(disk[i], i) /\ payload(disk[i]) \in Seq(Byte)
  <2>1. i \in LBA /\ i < pending.end
    BY <1>1, <1>2, SectorsAssumption DEF LBA
  <2> QED BY <2>1, FullIsText DEF TextInv, LoaderInv
<1>5. broken = {}
  <2>1. \A i \in pending.cursor..(next - 1) : i \in 0..(next - 1)
    BY <1>1, <1>2
  <2> QED BY <1>4, <2>1 DEF isFull
<1>6. taken(next) = PayloadsOf(disk, 0, next)
  <2>1. Payloads(pending.cursor, next) = PayloadsOf(disk, pending.cursor, next)
    BY DEF Payloads, PayloadsOf
  <2>2. PayloadsOf(disk, 0, pending.cursor) \o PayloadsOf(disk, pending.cursor, next)
          = PayloadsOf(disk, 0, next)
    <3>1. 0 \in Nat /\ 0 <= pending.cursor
      BY <1>1
    <3> QED BY <1>1, <1>2, <1>4, <3>1, PayloadsSplit
  <2> QED BY <2>1, <2>2 DEF TextInv, LoaderInv
<1>7. PayloadsOf(disk, 0, next) \in Seq(Byte)
  <2>1. 0 \in Nat /\ 0 <= next
    BY <1>2
  <2> QED BY <1>2, <1>4, <2>1, PayloadsType
<1>8. \/ /\ next < pending.end
         /\ pending' = [pending EXCEPT !.prefix = PayloadsOf(disk, 0, next), !.cursor = next]
         /\ UNCHANGED text
      \/ /\ next = pending.end
         /\ text' = from_utf8_lossy(PayloadsOf(disk, 0, next) \o as_bytes(text))
         /\ pending' = None
  <2> HIDE DEF broken
  <2> QED BY <1>3, <1>5, <1>6
<1> QED BY <1>2, <1>6, <1>7, <1>8 DEF next

LEMMA PumpLoader == TextInv /\ pump /\ TakeChunk => LoaderInv'
<1> SUFFICES ASSUME TextInv, pump, TakeChunk PROVE LoaderInv'
  OBVIOUS
<1> DEFINE next == pending.cursor + ChunkSize
<1>1. UNCHANGED <<disk, pc, lo, hi, sealed, tail, full, trouble, todo, attempt>>
  BY DEF pump, vars, ram
<1>2. /\ next \in Nat /\ next <= pending.end
      /\ PayloadsOf(disk, 0, next) \in Seq(Byte)
      /\ \/ pending' = [pending EXCEPT !.prefix = PayloadsOf(disk, 0, next), !.cursor = next]
         \/ pending' = None
  BY PumpStep
<1> HIDE DEF next
<1>3. CASE pending' = [pending EXCEPT !.prefix = PayloadsOf(disk, 0, next), !.cursor = next]
  <2>1. pending \in [prefix : Seq(Byte), cursor : Nat, end : 0..TOTAL_SECTORS]
    BY DEF TextInv, LoaderInv
  <2>2. /\ pending' \in [prefix : Seq(Byte), cursor : Nat, end : 0..TOTAL_SECTORS]
        /\ pending'.prefix = PayloadsOf(disk, 0, next) /\ pending'.cursor = next
        /\ pending'.end = pending.end
    BY <1>2, <1>3, <2>1
  <2> QED BY <1>1, <1>2, <2>2 DEF TextInv, LoaderInv, Running, Appending
<1>4. CASE pending' = None
  <2>1. sealed' \in Nat
    BY <1>1, SectorsAssumption DEF TextInv, IInv, TypeOK
  <2> QED BY <1>4, <2>1, NoneLoader
<1> QED BY <1>2, <1>3, <1>4

LEMMA TextNextInv == TextInv /\ [TextNext]_textVars => TextInv'
<1> SUFFICES ASSUME TextInv, [TextNext]_textVars PROVE TextInv'
  OBVIOUS
<1>1. LogStep
  BY TextIsLogStep
<1>2. IInv' /\ CoreInv'
  BY <1>1, LogStepInv, CoreStep DEF TextInv
<1>3. CASE DiskStep
  <2>1. pending' = pending
    BY <1>3 DEF DiskStep, session
  <2>2. ~(Load /\ pc' = "idle")
    BY <1>3 DEF DiskStep, Load, PowerOn, Probe, LoadError, Ink, WriteSkipped, WriteOk, WriteErr,
                WriteReturns, Sealed, Rewritten, Writing
  <2> QED BY <1>1, <1>2, <2>1, <2>2, LoaderKept DEF TextInv
<1>4. CASE Restore
  BY <1>2, <1>4, RestoreLoader DEF TextInv
<1>5. CASE Stamp \/ \E ch \in Typed : Keystroke(ch)
  <2>1. pending' = pending /\ pc # "search"
    BY <1>5 DEF Stamp, Keystroke, append_str, AppendRaw
  <2>2. ~(Load /\ pc' = "idle")
    BY <2>1 DEF Load
  <2> QED BY <1>1, <1>2, <2>1, <2>2, LoaderKept DEF TextInv
<1>6. CASE pump /\ TakeChunk
  BY <1>2, <1>6, PumpLoader DEF TextInv
<1>7. CASE Blackout
  <2>1. pending' = None /\ sealed' = 0
    BY <1>7 DEF Blackout, PowerLoss, Amnesia
  <2> QED BY <1>2, <2>1, NoneLoader DEF TextInv
<1>8. CASE UNCHANGED <<vars, pending>>
  <2>1. pending' = pending /\ pc' = pc
    BY <1>8 DEF vars
  <2>2. ~(Load /\ pc' = "idle")
    BY <2>1 DEF Load
  <2> QED BY <1>1, <1>2, <2>1, <2>2, LoaderKept DEF TextInv
<1>9. CASE pump /\ ~TakeChunk
  BY <1>8, <1>9 DEF pump
<1>10. CASE UNCHANGED textVars
  BY <1>8, <1>10 DEF textVars, session
<1> QED BY <1>3, <1>4, <1>5, <1>6, <1>7, <1>9, <1>10 DEF TextNext

(* The frontier invariant and the loader's hold in every behaviour of the  *)
(* scroll with its text: whatever is typed while the history streams in,   *)
(* the sectors still owed are full ones.                                   *)
THEOREM TextInvariance == TextSpec => []TextInv
BY TextInitInv, TextNextInv, PTL DEF TextSpec

(* The loader's prefix is the payloads of the sectors [0, cursor), each    *)
(* once, while the tail sector is rewritten and writes fail (scroll.rs:24).*)
THEOREM PrefixStaysAtCursor == TextSpec => []PrefixMatchesCursor
<1>1. TextInv => PrefixMatchesCursor
  BY DEF TextInv, LoaderInv, PrefixMatchesCursor, Payloads, PayloadsOf
<1> QED BY <1>1, TextInvariance, PTL

-----------------------------------------------------------------------------
(***************************************************************************)
(* The text in RAM.  As long as no write has failed for good and the       *)
(* scroll is not full, the text is what the bytes from the first loaded    *)
(* sector on decode to: those of the sealed sectors, the tail and what     *)
(* append_raw has not pushed yet.  This is what the code keeps true from   *)
(* one step to the next; that the disk says the same follows at rest,      *)
(* where nothing is left to push and the tail is on the disk.              *)
(***************************************************************************)
HeldOf(d, first, end, rest) == PayloadsOf(d, first, end) \o rest

Live == Running /\ ~trouble /\ ~full

\* No dash was split where load began to decode.
Unsplit ==
  fully_loaded => WholeAt(PayloadsOf(disk, 0, first_loaded),
                          HeldOf(disk, first_loaded, sealed, tail \o todo))

RamInv ==
  Live /\ Unsplit => text = from_utf8_lossy(HeldOf(disk, pending.end, sealed, tail \o todo))

SeamInv ==
  /\ first_loaded \in Nat
  /\ Running => first_loaded <= sealed
  /\ ~fully_loaded => pending.end = first_loaded

SettledInv ==
  /\ pc \notin {"ink", "seal"} => todo = <<>>
  /\ pc \in {"idle", "ink"} /\ ~trouble /\ sealed \in LBA => Page(sealed) = tail

SceneInv == TextInv /\ SeamInv /\ text \in Seq(Char) /\ SettledInv

LiveInv == SceneInv /\ RamInv

\* Where load began to decode lies below the open sector.
LEMMA SeamKept ==
  ASSUME TextInv, SeamInv, LogStep, UNCHANGED <<pending, first_loaded>>, ~(Load /\ pc' = "idle")
  PROVE  SeamInv'
<1>1. ASSUME Running' PROVE first_loaded <= sealed'
  <2>1. Running /\ sealed <= sealed'
    BY <1>1, SealedGrows DEF TextInv
  <2>2. sealed \in Int /\ sealed' \in Int /\ first_loaded \in Int
    BY CoreStep, SectorsAssumption DEF TextInv, CoreInv, TypeOK, SeamInv
  <2> QED BY <2>1, <2>2 DEF SeamInv
<1> QED BY <1>1 DEF SeamInv, fully_loaded

LEMMA SeamNextInv == TextInv /\ SeamInv /\ [TextNext]_textVars => SeamInv'
<1> SUFFICES ASSUME TextInv, SeamInv, [TextNext]_textVars PROVE SeamInv'
  OBVIOUS
<1>1. LogStep /\ TextInv'
  BY TextIsLogStep, TextNextInv
<1>2. CASE UNCHANGED <<pending, first_loaded>> /\ pc # "search"
  BY <1>1, <1>2, SeamKept DEF Load
<1>3. CASE DiskStep
  <2>1. UNCHANGED <<pending, first_loaded>>
    BY <1>3 DEF DiskStep
  <2>2. ~(Load /\ pc' = "idle")
    BY <1>3 DEF DiskStep, Load, PowerOn, Probe, LoadError, Ink, WriteSkipped, WriteOk, WriteErr,
                WriteReturns, Sealed, Rewritten, Writing
  <2> QED BY <1>1, <2>1, <2>2, SeamKept
<1>4. CASE Restore
  <2>1. CASE pc' = "panic" /\ UNCHANGED <<pending, first_loaded>>
    BY <1>1, <2>1, SeamKept
  <2>2. CASE /\ pc' = "idle" /\ pending' = [None EXCEPT !.end = FirstLoaded(lo)]
             /\ first_loaded' = FirstLoaded(lo)
    <3>1. pending'.end = first_loaded'
      BY <2>2 DEF None
    <3>2. /\ Running' /\ pending'.end \in Nat
          /\ pending'.end <= sealed'
      BY <1>1, <2>2, SectorsAssumption DEF TextInv, LoaderInv, Running
    <3> QED BY <3>1, <3>2 DEF SeamInv
  <2> QED BY <1>4, <2>1, <2>2 DEF Restore
<1>5. CASE Stamp \/ \E ch \in Typed : Keystroke(ch)
  BY <1>2, <1>5 DEF Stamp, Keystroke, append_str, AppendRaw
<1>6. CASE pump
  <2>1. CASE pump /\ TakeChunk
    <3>1. UNCHANGED <<pc, sealed, first_loaded>> /\ pc = "idle" /\ ~fully_loaded
      BY <1>6 DEF pump, vars, ram
    <3>2. pending'.end = pending.end \/ fully_loaded'
      <4>1. pending \in [prefix : Seq(Byte), cursor : Nat, end : 0..TOTAL_SECTORS]
        BY DEF TextInv, LoaderInv
      <4> QED BY <2>1, <4>1, PumpStep DEF fully_loaded
    <3> QED BY <3>1, <3>2 DEF SeamInv, Running, Appending
  <2>2. CASE ~TakeChunk
    BY <1>2, <1>6, <2>2 DEF pump
  <2> QED BY <1>6, <2>1, <2>2
<1>7. CASE Blackout
  <2>1. pc' = "off" /\ pending' = None /\ first_loaded' = 0
    BY <1>7 DEF Blackout, PowerLoss
  <2> QED BY <2>1 DEF SeamInv, fully_loaded, Running, Appending
<1>8. CASE UNCHANGED textVars
  <2>1. UNCHANGED <<pc, pending, first_loaded>>
    BY <1>8 DEF textVars, session, vars
  <2>2. ~(Load /\ pc' = "idle")
    BY <2>1 DEF Load
  <2> QED BY <1>1, <2>1, <2>2, SeamKept
<1> QED BY <1>3, <1>4, <1>5, <1>6, <1>7, <1>8 DEF TextNext

\* Fewer bytes behind a place cannot lay a character across it.
LEMMA WholeShrinks ==
  ASSUME NEW a, NEW b \in Seq(Nat), NEW c \in Seq(Nat), WholeAt(a, b \o c)
  PROVE  WholeAt(a, b)
<1>1. CASE b = <<>>
  BY <1>1 DEF WholeAt
<1>2. CASE b # <<>>
  <2>1. Len(b) \in Nat /\ Len(b) >= 1 /\ Len(c) \in Nat
    BY <1>2, EmptySeq, LenProperties
  <2>2. b \o c # <<>> /\ (b \o c)[1] = b[1]
    <3>1. /\ b \o c \in Seq(Nat) /\ Len(b \o c) = Len(b) + Len(c)
          /\ \A i \in 1..(Len(b) + Len(c)) : (b \o c)[i] = IF i <= Len(b) THEN b[i] ELSE c[i - Len(b)]
      BY ConcatProperties
    <3>2. 1 \in 1..(Len(b) + Len(c)) /\ 1 <= Len(b) /\ Len(b) + Len(c) # 0
      BY <2>1
    <3> QED BY <3>1, <3>2, EmptySeq
  <2> QED BY <2>2 DEF WholeAt
<1> QED BY <1>1, <1>2

LEMMA ByteIsNat == Byte \subseteq Nat /\ \A s \in Seq(Byte) : s \in Seq(Nat)
<1>1. Byte \subseteq Nat
  BY ByteAssumption
<1> QED BY <1>1, SeqMonotonic

LEMMA AssociativeByte ==
  ASSUME NEW p \in Seq(Byte), NEW q \in Seq(Byte), NEW s \in Seq(Byte)
  PROVE  (p \o q) \o s = p \o (q \o s)
BY Associative

\* What the kernel holds, typed.
LEMMA HeldType ==
  ASSUME SceneInv, Live
  PROVE  /\ pending.end \in Nat /\ sealed \in Nat /\ pending.end <= sealed
         /\ sealed \in LBA
         /\ \A i \in LBA : i < sealed => isFull(disk[i], i) /\ payload(disk[i]) \in Seq(Byte)
         /\ \A i \in 0..(sealed - 1) : i \in LBA
         /\ PayloadsOf(disk, pending.end, sealed) \in Seq(Byte)
         /\ \A a \in 0..sealed : PayloadsOf(disk, a, sealed) \in Seq(Byte)
         /\ tail \in Seq(Byte) /\ todo \in Seq(Byte)
<1>1. /\ TypeOK /\ CoreInv /\ TailInv /\ SessionInv
  BY DEF SceneInv, TextInv, IInv
<1>2. pending.end \in Nat /\ sealed \in Nat /\ pending.end <= sealed
  BY <1>1, SectorsAssumption DEF SceneInv, TextInv, LoaderInv, Live, TypeOK
<1>3. sealed \in LBA
  <2>1. sealed # TOTAL_SECTORS
    BY <1>1 DEF Live, TailInv
  <2>2. sealed \in 0..TOTAL_SECTORS
    BY <1>1 DEF TypeOK
  <2> QED BY <2>1, <2>2, SectorsAssumption DEF LBA
<1>4. \A i \in 0..(sealed - 1) : i \in LBA /\ i < sealed
  BY <1>3, SectorsAssumption DEF LBA
<1>5. \A i \in LBA : i < sealed => isFull(disk[i], i)
  BY <1>1 DEF SessionInv, Live, Frontier
<1>6. \A i \in LBA : i < sealed => payload(disk[i]) \in Seq(Byte)
  BY <1>1, <1>5, FullIsText
<1>7. ASSUME NEW a \in 0..sealed PROVE PayloadsOf(disk, a, sealed) \in Seq(Byte)
  <2>1. a \in Nat /\ a <= sealed /\ \A i \in a..(sealed - 1) : i \in 0..(sealed - 1)
    BY <1>2
  <2> QED BY <1>2, <1>4, <1>6, <2>1, PayloadsType
<1>8. pending.end \in 0..sealed
  BY <1>2
<1> QED BY <1>1, <1>2, <1>3, <1>4, <1>5, <1>6, <1>7, <1>8 DEF TypeOK

\* What one write leaves of the bytes before it.
LEMMA HeldAgree ==
  ASSUME SceneInv, Live, \A i \in LBA : i # sealed => disk'[i] = disk[i],
         NEW a \in 0..sealed
  PROVE  PayloadsOf(disk', a, sealed) = PayloadsOf(disk, a, sealed)
<1>1. sealed \in Nat /\ \A i \in 0..(sealed - 1) : i \in LBA
  BY HeldType
<1>2. /\ a \in Nat /\ a <= sealed
      /\ \A i \in a..(sealed - 1) : i \in 0..(sealed - 1) /\ i # sealed
  BY <1>1
<1>3. \A i \in a..(sealed - 1) : disk'[i] = disk[i]
  BY <1>1, <1>2
<1> QED BY <1>1, <1>2, <1>3, PayloadsAgree

\* Bytes that move from todo to the tail are still held.
LEMMA InkHolds ==
  ASSUME SceneInv, Ink
  PROVE  /\ tail' \o todo' = tail \o todo
         /\ pc' # "seal" => todo' = <<>>
         /\ pc' = "idle" => tail' = <<>> /\ tail = <<>>
<1> DEFINE room == PAYLOAD_CAPACITY - Len(tail)
           n == IF Len(todo) < room THEN Len(todo) ELSE room
           u == SubSeq(todo, 1, n)
           v == SubSeq(todo, n + 1, Len(todo))
<1>1. /\ pc = "ink" /\ tail' = tail \o u /\ todo' = v
      /\ pc' = IF Len(tail') = PAYLOAD_CAPACITY THEN "seal"
               ELSE IF tail' # <<>> THEN "rewrite" ELSE "idle"
  BY DEF Ink
<1>2. /\ tail \in Seq(Byte) /\ todo \in Seq(Byte)
      /\ Len(tail) \in Nat /\ Len(todo) \in Nat /\ Len(tail) < PAYLOAD_CAPACITY
  BY <1>1, LenProperties DEF SceneInv, TextInv, IInv, TypeOK, TailInv
<1>3. /\ n \in 0..Len(todo) /\ n \in Nat
      /\ n = Len(todo) \/ Len(tail) + n = PAYLOAD_CAPACITY
  BY <1>2, CapacityAssumption
<1> HIDE DEF n
<1>4. \A i \in 1..Len(todo) : todo[i] \in Byte
  BY <1>2, ElementOfSeq
<1>5. u \in Seq(Byte) /\ Len(u) = n
  <2>1. \A i \in 1..n : todo[i] \in Byte
    BY <1>3, <1>4
  <2> QED BY <1>3, <2>1, SubSeqProperties
<1>6. v \in Seq(Byte)
  <2>1. \A i \in (n + 1)..Len(todo) : todo[i] \in Byte
    BY <1>3, <1>4
  <2> QED BY <1>2, <1>3, <2>1, SubSeqProperties
<1>7. u \o v = todo
  <2>1. 1 \in 1..(Len(todo) + 1) /\ n \in (1 - 1)..Len(todo) /\ Len(todo) \in n..Len(todo)
    BY <1>2, <1>3
  <2>2. u \o v = SubSeq(todo, 1, Len(todo))
    BY <1>2, <2>1, ConcatAdjacentSubSeq
  <2> QED BY <1>2, <2>2, SubSeqFull
<1> HIDE DEF u, v
<1>8. tail' \o todo' = tail \o todo
  <2>1. tail \in Seq(Byte)
    BY <1>2
  <2>2. (tail \o u) \o v = tail \o (u \o v)
    BY <1>5, <1>6, <2>1, AssociativeByte
  <2> QED BY <1>1, <1>7, <2>2
<1>9. Len(tail') = Len(tail) + n
  BY <1>1, <1>2, <1>5, ConcatProperties
<1>10. ASSUME pc' # "seal" PROVE todo' = <<>>
  <2>1. n = Len(todo)
    BY <1>1, <1>3, <1>9, <1>10
  <2>2. n + 1 \in Int /\ Len(todo) \in Int /\ Len(todo) < n + 1
    BY <1>2, <2>1
  <2> QED BY <1>1, <2>2, SubSeqEmpty DEF v
<1>11. ASSUME pc' = "idle" PROVE tail' = <<>> /\ tail = <<>>
  <2>1. tail' = <<>>
    BY <1>1, <1>11
  <2>2. Len(tail') = 0
    BY <2>1
  <2>3. Len(tail) = 0
    <3>1. \A x, y \in Nat : x + y = 0 => x = 0
      OBVIOUS
    <3>2. Len(tail) + n = 0
      BY <1>9, <2>2
    <3> QED BY <1>2, <1>3, <3>1, <3>2
  <2> QED BY <1>2, <2>1, <2>3, EmptySeq
<1> QED BY <1>8, <1>10, <1>11

\* What the kernel holds is moved from one place to another, never changed.
LEMMA HeldKept ==
  ASSUME SceneInv, Ink \/ WriteSkipped \/ WriteOk \/ WriteErr, Live'
  PROVE  /\ Live
         /\ \A a \in 0..sealed : HeldOf(disk', a, sealed', tail' \o todo')
                                   = HeldOf(disk, a, sealed, tail \o todo)
<1>1. CASE Ink
  <2>1. /\ pc = "ink" /\ UNCHANGED <<disk, sealed, full, trouble>>
    BY <1>1 DEF Ink
  <2>2. tail' \o todo' = tail \o todo
    BY <1>1, InkHolds
  <2> QED BY <2>1, <2>2 DEF Live, Running, Appending
<1>2. CASE WriteSkipped
  BY <1>2 DEF WriteSkipped, Live
<1>3. CASE WriteErr
  <2>1. PICK cut \in Cut : disk' = [disk EXCEPT ![sealed] = torn(disk[sealed], NewSector, cut)]
    BY <1>3 DEF WriteErr
  <2>2. Writing /\ UNCHANGED <<pc, sealed, tail, full, trouble, todo>>
    BY <1>3 DEF WriteErr, Live
  <2>3. Live
    BY <2>2 DEF Live, Running, Appending
  <2>4. \A i \in LBA : i # sealed => disk'[i] = disk[i]
    BY <2>1, <2>2, WrittenCore DEF SceneInv, TextInv
  <2>5. ASSUME NEW a \in 0..sealed
        PROVE  PayloadsOf(disk', a, sealed) = PayloadsOf(disk, a, sealed)
    BY <2>3, <2>4, HeldAgree
  <2> QED BY <2>2, <2>3, <2>5 DEF HeldOf
<1>4. CASE WriteOk
  <2>1. /\ Writing /\ WriteReturns /\ ~trouble /\ disk' = [disk EXCEPT ![sealed] = NewSector]
    BY <1>4 DEF WriteOk, Writing
  <2>2. /\ disk \in [LBA -> Sector] /\ tail \in Seq(Byte) /\ todo \in Seq(Byte)
        /\ Len(tail) <= PAYLOAD_CAPACITY
        /\ sealed \in LBA /\ sealed \in Nat /\ sealed # TOTAL_SECTORS
    BY <2>1, SectorsAssumption
       DEF SceneInv, TextInv, IInv, TypeOK, TailInv, Writing, Appending, LBA
  <2>3. Live
    BY <2>1, <2>2 DEF Live, Writing, Running, Appending, SceneInv, TextInv, IInv, TailInv
  <2>4. payload(NewSector) = tail
    BY <2>2, DecodeEncode DEF NewSector
  <2>5. disk'[sealed] = NewSector /\ \A i \in LBA : i # sealed => disk'[i] = disk[i]
    BY <2>1, <2>2
  <2>6. ASSUME NEW a \in 0..sealed
        PROVE  PayloadsOf(disk', a, sealed) = PayloadsOf(disk, a, sealed)
    BY <2>3, <2>5, HeldAgree
  <2>7. CASE Rewritten
    BY <2>3, <2>6, <2>7 DEF Rewritten, HeldOf
  <2>8. ASSUME Sealed, NEW a \in 0..sealed
        PROVE  HeldOf(disk', a, sealed', tail' \o todo') = HeldOf(disk, a, sealed, tail \o todo)
    <3> DEFINE p == PayloadsOf(disk, a, sealed)
    <3>1. sealed' = sealed + 1 /\ tail' = <<>> /\ todo' = todo
      BY <2>8 DEF Sealed, Live
    <3>2. a \in Nat /\ a <= sealed
      BY <2>2
    <3>3. p \in Seq(Byte)
      BY <2>3, HeldType
    <3>4. PayloadsOf(disk', a, sealed + 1) = p \o tail
      <4>1. PayloadsOf(disk', a, sealed + 1) = PayloadsOf(disk', a, sealed) \o payload(disk'[sealed])
        BY <2>2, <3>2, PayloadsNext
      <4> QED BY <2>4, <2>5, <2>6, <4>1
    <3> HIDE DEF p
    <3>5. (p \o tail) \o todo = p \o (tail \o todo)
      BY <2>2, <3>3, AssociativeByte
    <3>6. tail' \o todo' = todo
      BY <2>2, <3>1, ConcatEmptySeq
    <3> QED BY <3>1, <3>4, <3>5, <3>6 DEF HeldOf, p
  <2> QED BY <2>1, <2>3, <2>7, <2>8 DEF WriteReturns
<1> QED BY <1>1, <1>2, <1>3, <1>4

LEMMA RamKept ==
  ASSUME SceneInv, Ink \/ WriteSkipped \/ WriteOk \/ WriteErr,
         UNCHANGED <<text, pending, first_loaded>>, LogStep, RamInv
  PROVE  RamInv'
<1> SUFFICES ASSUME Live', Unsplit'
             PROVE  text' = from_utf8_lossy(HeldOf(disk', pending'.end, sealed', tail' \o todo'))
  BY DEF RamInv
<1>1. /\ Live
      /\ \A a \in 0..sealed : HeldOf(disk', a, sealed', tail' \o todo')
                                = HeldOf(disk, a, sealed, tail \o todo)
  BY HeldKept
<1>2. pending.end \in 0..sealed
  BY <1>1, HeldType
<1>3. first_loaded \in 0..sealed
  BY <1>1, HeldType DEF SceneInv, SeamInv, Live
<1>4. Unsplit
  <2>1. PayloadsOf(disk', 0, first_loaded) = PayloadsOf(disk, 0, first_loaded)
    <3>1. \A i \in 0..(first_loaded - 1) : i \in 0..(sealed - 1) /\ i \in LBA /\ i < sealed
      BY <1>1, <1>3, HeldType
    <3>2. \A i \in 0..(first_loaded - 1) : disk'[i] = disk[i]
      BY <1>1, <3>1, HeldType, FullStays DEF SceneInv, TextInv
    <3>3. 0 \in Nat /\ first_loaded \in Nat /\ 0 <= first_loaded
      BY <1>3
    <3> QED BY <3>2, <3>3, PayloadsAgree
  <2> QED BY <1>1, <1>3, <2>1 DEF Unsplit, fully_loaded
<1> QED BY <1>1, <1>2, <1>4 DEF RamInv

LEMMA InkSettled == SceneInv /\ Ink => SettledInv'
<1> SUFFICES ASSUME SceneInv, Ink PROVE SettledInv'
  OBVIOUS
<1>1. /\ pc = "ink" /\ pc' \in {"seal", "rewrite", "idle"}
      /\ UNCHANGED <<disk, sealed, trouble>>
  BY DEF Ink
<1>2. /\ pc' # "seal" => todo' = <<>>
      /\ pc' = "idle" => tail' = <<>> /\ tail = <<>>
  BY InkHolds
<1>3. ASSUME pc' = "idle", ~trouble, sealed \in LBA PROVE Page(sealed)' = tail'
  <2>1. Page(sealed) = tail
    BY <1>1, <1>3 DEF SceneInv, SettledInv
  <2> QED BY <1>1, <1>2, <1>3, <2>1 DEF Page
<1> QED BY <1>1, <1>2, <1>3 DEF SettledInv

LEMMA AppendLive ==
  ASSUME SceneInv, NEW s \in Seq(Char), append_str(s), UNCHANGED <<pending, first_loaded>>
  PROVE  text' \in Seq(Char) /\ SettledInv' /\ (RamInv => RamInv')
<1>1. /\ pc = "idle" /\ ~full /\ pc' = "ink" /\ todo' = as_bytes(s)
      /\ text' = text \o s
      /\ UNCHANGED <<disk, sealed, tail, full, trouble, pending>>
  BY DEF append_str, AppendRaw
<1>2. text' \in Seq(Char)
  BY <1>1, ConcatProperties DEF SceneInv
<1>3. SettledInv'
  BY <1>1 DEF SceneInv, SettledInv, Page
<1>4. RamInv => RamInv'
  <2> SUFFICES ASSUME RamInv, Live', Unsplit'
               PROVE  text' = from_utf8_lossy(HeldOf(disk', pending'.end, sealed', tail' \o todo'))
    BY DEF RamInv
  <2> DEFINE p == PayloadsOf(disk, pending.end, sealed)
             b == as_bytes(s)
  <2>1. Live
    BY <1>1 DEF Live, Running, Appending
  <2>2. p \in Seq(Byte) /\ tail \in Seq(Byte) /\ todo \in Seq(Byte)
    BY <2>1, HeldType
  <2>3. b \in Seq(Byte)
    BY Utf8IsByte
  <2>5. todo = <<>>
    BY <1>1 DEF SceneInv, SettledInv
  <2>10. Unsplit
    <3> DEFINE q == PayloadsOf(disk, first_loaded, sealed)
               a == PayloadsOf(disk, 0, first_loaded)
    <3>1. first_loaded \in 0..sealed
      BY <2>1, HeldType DEF SceneInv, SeamInv, Live
    <3>2. q \in Seq(Byte)
      BY <2>1, <3>1, HeldType
    <3>3. fully_loaded => WholeAt(a, q \o (tail \o b))
      BY <1>1 DEF Unsplit, fully_loaded, HeldOf
    <3> HIDE DEF q, a
    <3>4. q \o (tail \o b) = (q \o tail) \o b
      BY <2>2, <2>3, <3>2, AssociativeByte
    <3>5. q \o tail \in Seq(Nat) /\ b \in Seq(Nat)
      BY <2>2, <2>3, <3>2, ByteIsNat, ConcatProperties
    <3>6. fully_loaded => WholeAt(a, q \o tail)
      BY <3>3, <3>4, <3>5, WholeShrinks
    <3>7. tail \o todo = tail
      BY <2>2, <2>5, ConcatEmptySeq
    <3> QED BY <3>6, <3>7 DEF Unsplit, HeldOf, q, a
  <2>4. text = from_utf8_lossy(p \o (tail \o todo))
    BY <2>1, <2>10 DEF RamInv, HeldOf
  <2> HIDE DEF p
  <2>6. text = from_utf8_lossy(p \o tail)
    BY <2>2, <2>4, <2>5, ConcatEmptySeq
  <2>7. p \o tail \in Seq(Nat)
    BY <2>2, ByteIsNat, ConcatProperties
  <2>8. text \o s = from_utf8_lossy((p \o tail) \o b)
    BY <2>6, <2>7, LossyAppend
  <2>9. (p \o tail) \o b = p \o (tail \o b)
    BY <2>2, <2>3, AssociativeByte
  <2> QED BY <1>1, <2>8, <2>9 DEF HeldOf, p
<1> QED BY <1>2, <1>3, <1>4

LEMMA WriteSettled == SceneInv /\ (WriteSkipped \/ WriteErr \/ WriteOk) => SettledInv'
<1>1. ASSUME SceneInv, WriteReturns PROVE pc' \notin {"ink", "seal"} => todo' = <<>>
  BY <1>1 DEF WriteReturns, Sealed, Rewritten, SceneInv, SettledInv
<1>2. ASSUME SceneInv, WriteSkipped \/ WriteErr PROVE SettledInv'
  <2>1. CASE trouble' /\ WriteReturns
    BY <1>1, <1>2, <2>1 DEF SettledInv
  <2>2. CASE Writing /\ UNCHANGED <<pc, todo>>
    BY <1>2, <2>2 DEF Writing, SceneInv, SettledInv
  <2> QED BY <1>2, <2>1, <2>2 DEF WriteSkipped, WriteErr
<1>3. ASSUME SceneInv, WriteOk PROVE SettledInv'
  <2>1. /\ Writing /\ WriteReturns /\ ~trouble
        /\ disk' = [disk EXCEPT ![sealed] = NewSector]
    BY <1>3 DEF WriteOk, Writing
  <2>2. /\ disk \in [LBA -> Sector] /\ tail \in Seq(Byte) /\ Len(tail) <= PAYLOAD_CAPACITY
        /\ sealed \in LBA /\ sealed \in Nat
    BY <1>3, <2>1, SectorsAssumption
       DEF SceneInv, TextInv, IInv, TypeOK, TailInv, Writing, Appending, LBA
  <2>3. decodes(NewSector, sealed) /\ payload(NewSector) = tail
    BY <2>2, DecodeEncode DEF NewSector
  <2>4. disk'[sealed] = NewSector /\ \A i \in LBA : i # sealed => disk'[i] = disk[i]
    BY <2>1, <2>2
  <2>5. CASE Rewritten
    <3>1. sealed' = sealed /\ tail' = tail
      BY <2>5 DEF Rewritten
    <3>2. Page(sealed)' = tail'
      BY <2>3, <2>4, <3>1 DEF Page
    <3> QED BY <1>1, <1>3, <2>1, <3>2 DEF SettledInv
  <2>6. CASE Sealed
    <3>1. sealed' = sealed + 1 /\ tail' = <<>>
      BY <2>6 DEF Sealed
    <3>2. ASSUME sealed' \in LBA PROVE Page(sealed)' = tail'
      <4>1. Frontier(sealed)
        BY <1>3, <2>1 DEF SceneInv, TextInv, IInv, SessionInv, Writing, Running, Appending
      <4>2. sealed' > sealed /\ sealed' # sealed
        BY <2>2, <3>1
      <4>3. disk[sealed'] = Zeroed
        BY <3>2, <4>1, <4>2 DEF Frontier
      <4>4. ~decodes(disk'[sealed'], sealed')
        BY <2>4, <3>2, <4>2, <4>3, ZeroedFacts
      <4> QED BY <3>1, <4>4 DEF Page
    <3> QED BY <1>1, <1>3, <2>1, <3>2 DEF SettledInv
  <2> QED BY <2>1, <2>5, <2>6 DEF WriteReturns
<1> QED BY <1>2, <1>3

\* What load recovers is what the disk holds: the sectors below lo.
LEMMA RestoreHeld ==
  ASSUME SceneInv, Restore, pc' = "idle"
  PROVE  LET e == FirstLoaded(lo)
         IN  /\ lo \in 0..TOTAL_SECTORS /\ lo \in Nat /\ e \in 0..lo
             /\ \A i \in 0..(lo - 1) : i \in LBA /\ decodes(disk[i], i)
             /\ \A i \in LBA : i >= lo => ~decodes(disk[i], i)
             /\ disk' = disk /\ todo' = <<>>
             /\ pending'.end = e /\ text' = from_utf8_lossy(PayloadsOf(disk, e, lo))
             /\ \A a \in 0..lo : PayloadsOf(disk, a, lo) \in Seq(Byte)
             /\ \A a \in 0..e : /\ HeldOf(disk, a, sealed', tail') = PayloadsOf(disk, a, lo)
                                /\ HeldOf(disk, a, sealed', tail' \o todo') = PayloadsOf(disk, a, lo)
             /\ sealed' \in LBA => Page(sealed)' = tail'
<1> DEFINE e == FirstLoaded(lo)
<1>1. /\ pc = "search" /\ lo = hi /\ UNCHANGED <<disk, todo>>
      /\ sealed' = IF lo = 0 \/ LastIsSealed(lo) THEN lo ELSE lo - 1
      /\ tail' = IF lo = 0 \/ LastIsSealed(lo) THEN <<>> ELSE payload(disk[lo - 1])
      /\ text' = from_utf8_lossy(Payloads(FirstLoaded(lo), lo))
      /\ pending' = [None EXCEPT !.end = FirstLoaded(lo)]
  BY DEF Restore, Load
<1>2. todo' = <<>>
  BY <1>1 DEF SceneInv, SettledInv
<1>3. /\ lo \in 0..TOTAL_SECTORS /\ lo \in Nat
      /\ \A i \in LBA : i < lo => decodes(disk[i], i)
      /\ \A i \in LBA : i >= lo => ~decodes(disk[i], i)
  BY <1>1, SectorsAssumption DEF SceneInv, TextInv, IInv, TypeOK, SearchInv
<1>4. e \in 0..lo /\ (lo # 0 => e <= lo - 1)
  BY <1>3, SectorsAssumption DEF FirstLoaded
<1>5. pending'.end = e /\ text' = from_utf8_lossy(PayloadsOf(disk, e, lo))
  BY <1>1 DEF None, Payloads, PayloadsOf
<1> HIDE DEF e
<1>6. \A i \in 0..(lo - 1) : i \in LBA /\ i < lo
  BY <1>3, SectorsAssumption DEF LBA
<1>7. \A i \in 0..(lo - 1) : payload(disk[i]) \in Seq(Byte)
  BY <1>3, <1>6, DecodedIsText DEF SceneInv, TextInv, CoreInv, Text
<1>8. ASSUME NEW a \in 0..lo PROVE PayloadsOf(disk, a, lo) \in Seq(Byte)
  <2>1. a \in Nat /\ a <= lo /\ \A i \in a..(lo - 1) : i \in 0..(lo - 1)
    BY <1>3
  <2> QED BY <1>3, <1>7, <2>1, PayloadsType
<1>9. tail' \in Seq(Byte)
  <2>1. lo # 0 => lo - 1 \in 0..(lo - 1)
    BY <1>3
  <2> QED BY <1>1, <1>7, <2>1, EmptySeq
<1>10. tail' \o todo' = tail'
  BY <1>2, <1>9, ConcatEmptySeq
<1>11. ASSUME NEW a \in 0..e PROVE HeldOf(disk, a, sealed', tail') = PayloadsOf(disk, a, lo)
  <2>1. a \in 0..lo /\ a \in Nat /\ (lo # 0 => a <= lo - 1 /\ lo - 1 \in Nat /\ (lo - 1) + 1 = lo)
    BY <1>3, <1>4
  <2>2. CASE lo = 0 \/ LastIsSealed(lo)
    BY <1>1, <1>8, <2>1, <2>2, ConcatEmptySeq DEF HeldOf
  <2>3. CASE ~(lo = 0 \/ LastIsSealed(lo))
    <3>1. PayloadsOf(disk, a, (lo - 1) + 1)
            = PayloadsOf(disk, a, lo - 1) \o payload(disk[lo - 1])
      BY <2>1, <2>3, PayloadsNext
    <3> QED BY <1>1, <2>1, <2>3, <3>1 DEF HeldOf
  <2> QED BY <2>2, <2>3
<1>12. ASSUME sealed' \in LBA PROVE Page(sealed)' = tail'
  <2>1. CASE lo = 0 \/ LastIsSealed(lo)
    BY <1>1, <1>3, <1>12, <2>1 DEF Page
  <2>2. CASE ~(lo = 0 \/ LastIsSealed(lo))
    <3>1. lo - 1 < lo
      BY <1>3
    <3> QED BY <1>1, <1>3, <1>12, <2>2, <3>1 DEF Page
  <2> QED BY <2>1, <2>2
<1> QED BY <1>1, <1>2, <1>3, <1>4, <1>5, <1>6, <1>8, <1>10, <1>11, <1>12 DEF e

LEMMA RestoreLive ==
  SceneInv /\ Restore => text' \in Seq(Char) /\ SettledInv' /\ (RamInv => RamInv')
<1> SUFFICES ASSUME SceneInv, Restore PROVE text' \in Seq(Char) /\ SettledInv' /\ (RamInv => RamInv')
  OBVIOUS
<1>1. CASE pc' = "panic" /\ UNCHANGED <<text, pending>>
  <2>1. todo' = <<>>
    BY DEF Restore, Load, SceneInv, SettledInv
  <2> QED BY <1>1, <2>1 DEF SceneInv, SettledInv, RamInv, Live, Running, Appending
<1>2. CASE pc' = "idle"
  <2> DEFINE e == FirstLoaded(lo)
  <2>1. /\ lo \in Nat /\ e \in 0..lo /\ disk' = disk /\ todo' = <<>>
        /\ pending'.end = e /\ text' = from_utf8_lossy(PayloadsOf(disk, e, lo))
        /\ \A a \in 0..lo : PayloadsOf(disk, a, lo) \in Seq(Byte)
        /\ \A a \in 0..e : HeldOf(disk, a, sealed', tail' \o todo') = PayloadsOf(disk, a, lo)
        /\ sealed' \in LBA => Page(sealed)' = tail'
    BY <1>2, RestoreHeld
  <2> HIDE DEF e
  <2>2. PayloadsOf(disk, e, lo) \in Seq(Byte)
    BY <2>1
  <2>3. text' \in Seq(Char)
    BY <2>1, <2>2, LossyType, LenProperties
  <2>4. e \in 0..e
    BY <2>1
  <2>5. RamInv'
    BY <2>1, <2>4 DEF RamInv
  <2>6. SettledInv'
    BY <1>2, <2>1 DEF SettledInv
  <2> QED BY <2>3, <2>5, <2>6
<1> QED BY <1>1, <1>2 DEF Restore

\* The splice: what is put before the text is what lies before it on the disk.
LEMMA PumpLive ==
  SceneInv /\ pump /\ TakeChunk => text' \in Seq(Char) /\ SettledInv' /\ (RamInv => RamInv')
<1> SUFFICES ASSUME SceneInv, pump, TakeChunk
             PROVE  text' \in Seq(Char) /\ SettledInv' /\ (RamInv => RamInv')
  OBVIOUS
<1> DEFINE next == pending.cursor + ChunkSize
<1>1. /\ pc = "idle" /\ ~fully_loaded
      /\ UNCHANGED <<disk, pc, sealed, tail, full, trouble, todo, first_loaded>>
  BY DEF pump, vars, ram
<1>2. SettledInv'
  BY <1>1 DEF SceneInv, SettledInv, Page
<1>3. /\ next \in Nat
      /\ PayloadsOf(disk, 0, next) \in Seq(Byte)
      /\ \/ /\ pending' = [pending EXCEPT !.prefix = PayloadsOf(disk, 0, next), !.cursor = next]
            /\ UNCHANGED text
         \/ /\ next = pending.end
            /\ text' = from_utf8_lossy(PayloadsOf(disk, 0, next) \o as_bytes(text))
            /\ pending' = None
  BY PumpStep DEF SceneInv
<1> HIDE DEF next
<1>4. CASE /\ pending' = [pending EXCEPT !.prefix = PayloadsOf(disk, 0, next), !.cursor = next]
           /\ UNCHANGED text
  <2>1. pending'.end = pending.end
    BY <1>4 DEF SceneInv, TextInv, LoaderInv
  <2>2. RamInv => RamInv'
    BY <1>1, <1>4, <2>1 DEF SceneInv, RamInv, Unsplit, Live, Running, Appending
  <2> QED BY <1>2, <1>4, <2>2 DEF SceneInv
<1>5. CASE /\ next = pending.end
           /\ text' = from_utf8_lossy(PayloadsOf(disk, 0, next) \o as_bytes(text))
           /\ pending' = None
  <2> DEFINE p == PayloadsOf(disk, 0, pending.end)
  <2>1. p \in Seq(Byte) /\ p \in Seq(Nat) /\ text \in Seq(Char)
    BY <1>3, <1>5, ByteIsNat DEF SceneInv
  <2>2. text' = from_utf8_lossy(p) \o text
    BY <1>5, <2>1, LossyAppend
  <2>3. text' \in Seq(Char)
    BY <2>1, <2>2, LossyType, LenProperties, ConcatProperties
  <2>4. RamInv => RamInv'
    <3> SUFFICES ASSUME RamInv, Live', Unsplit'
                 PROVE  text' = from_utf8_lossy(HeldOf(disk', pending'.end, sealed', tail' \o todo'))
      BY DEF RamInv
    <3> DEFINE q == PayloadsOf(disk, pending.end, sealed)
               r == tail \o todo
               h == q \o r
    <3>1. Live
      BY <1>1 DEF Live, Running, Appending
    <3>2. /\ pending.end \in Nat /\ sealed \in Nat /\ pending.end <= sealed
          /\ \A i \in LBA : i < sealed => payload(disk[i]) \in Seq(Byte)
          /\ \A i \in 0..(sealed - 1) : i \in LBA
          /\ q \in Seq(Byte) /\ tail \in Seq(Byte) /\ todo \in Seq(Byte)
      BY <3>1, HeldType
    <3>3. r \in Seq(Byte)
      BY <3>2, ConcatProperties
    <3>4. h \in Seq(Byte) /\ h \in Seq(Nat)
      BY <3>2, <3>3, ConcatProperties, ByteIsNat
    <3>5. text = from_utf8_lossy(h)
      BY <1>1, <3>1 DEF RamInv, Unsplit, HeldOf
    <3>6. WholeAt(p, h)
      <4>1. first_loaded = pending.end /\ fully_loaded'
        BY <1>1, <1>5 DEF SceneInv, SeamInv, fully_loaded
      <4> QED BY <1>1, <4>1 DEF Unsplit, HeldOf
    <3>7. p \o q = PayloadsOf(disk, 0, sealed)
      <4>1. 0 \in Nat /\ 0 <= pending.end /\ \A i \in 0..(sealed - 1) : i < sealed
        BY <3>2
      <4> QED BY <3>2, <4>1, PayloadsSplit
    <3> HIDE DEF p, q, r
    <3>8. from_utf8_lossy(p \o h) = from_utf8_lossy(p) \o from_utf8_lossy(h)
      BY <2>1, <3>4, <3>6, LossySplice
    <3>9. p \o h = (p \o q) \o r
      BY <2>1, <3>2, <3>3, AssociativeByte
    <3>10. pending'.end = 0
      BY <1>5 DEF None
    <3>11. HeldOf(disk', pending'.end, sealed', tail' \o todo') = p \o h
      BY <1>1, <3>7, <3>9, <3>10 DEF HeldOf, r
    <3> QED BY <2>2, <3>5, <3>8, <3>11
  <2> QED BY <1>2, <2>3, <2>4
<1> QED BY <1>3, <1>4, <1>5

LEMMA SceneNextInv ==
  SceneInv /\ [TextNext]_textVars => SceneInv' /\ (RamInv => RamInv')
<1> DEFINE Goal == text' \in Seq(Char) /\ SettledInv' /\ (RamInv => RamInv')
<1> SUFFICES ASSUME SceneInv, [TextNext]_textVars PROVE Goal
  BY TextNextInv, SeamNextInv DEF SceneInv
<1>2. CASE DiskStep
  <2>1. text' \in Seq(Char) /\ UNCHANGED <<text, pending, first_loaded>> /\ LogStep
    BY <1>2, TextIsLogStep DEF DiskStep, SceneInv
  <2>2. CASE PowerOn \/ Probe \/ LoadError
    <3>1. pc \in {"off", "search"} /\ pc' \in {"search", "panic"} /\ todo' = todo
      BY <2>2 DEF PowerOn, Probe, LoadError, ram
    <3>2. SettledInv'
      BY <3>1 DEF SceneInv, SettledInv
    <3>3. RamInv'
      BY <3>1 DEF RamInv, Live, Running, Appending
    <3> QED BY <2>1, <3>2, <3>3
  <2>3. CASE Ink \/ WriteSkipped \/ WriteOk \/ WriteErr
    <3>1. SettledInv'
      BY <2>3, InkSettled, WriteSettled
    <3>2. RamInv => RamInv'
      BY <2>1, <2>3, RamKept
    <3> QED BY <2>1, <3>1, <3>2
  <2> QED BY <1>2, <2>2, <2>3 DEF DiskStep
<1>3. CASE Restore
  BY <1>3, RestoreLive
<1>4. CASE UNCHANGED <<vars, text, pending, first_loaded>>
  <2>1. UNCHANGED <<disk, pc, sealed, tail, full, trouble, todo, text, pending, first_loaded>>
    BY <1>4 DEF vars, ram
  <2>2. SettledInv'
    BY <2>1 DEF SceneInv, SettledInv, Page
  <2>3. RamInv => RamInv'
    BY <2>1 DEF RamInv, Unsplit, fully_loaded, Live, Running, Appending
  <2> QED BY <2>1, <2>2, <2>3 DEF SceneInv
<1>5. CASE Stamp
  <2>1. separator(text) \in Seq(Char)
    BY SeparatorType
  <2> QED BY <1>4, <1>5, <2>1, AppendLive DEF Stamp
<1>6. ASSUME NEW ch \in Typed, Keystroke(ch) PROVE Goal
  <2>1. <<ch>> \in Seq(Char)
    BY TypedChar
  <2> QED BY <1>6, <2>1, AppendLive DEF Keystroke
<1>7. CASE pump
  <2>1. CASE TakeChunk
    BY <1>7, <2>1, PumpLive
  <2>2. CASE ~TakeChunk
    BY <1>4, <1>7, <2>2 DEF pump
  <2> QED BY <2>1, <2>2
<1>8. CASE Blackout
  <2>1. pc' = "off" /\ todo' = <<>> /\ text' = <<>>
    BY <1>8 DEF Blackout, PowerLoss, Amnesia
  <2>2. text' \in Seq(Char)
    BY <2>1, EmptySeq
  <2>3. SettledInv' /\ RamInv'
    BY <2>1 DEF SettledInv, RamInv, Live, Running, Appending
  <2> QED BY <2>2, <2>3
<1>9. CASE UNCHANGED textVars
  BY <1>4, <1>9 DEF textVars, session
<1> QED BY <1>2, <1>3, <1>5, <1>6, <1>7, <1>8, <1>9 DEF TextNext

LEMMA LiveInitInv == TextInit => LiveInv
<1> SUFFICES ASSUME TextInit PROVE LiveInv
  OBVIOUS
<1>1. TextInv
  BY TextInitInv
<1>2. pc = "off" /\ todo = <<>> /\ text = <<>>
  BY DEF TextInit, Init
<1>3. text \in Seq(Char)
  BY <1>2, EmptySeq
<1>4. SettledInv /\ RamInv
  BY <1>2 DEF SettledInv, RamInv, Live, Running, Appending
<1>5. SeamInv
  BY <1>2 DEF TextInit, SeamInv, fully_loaded, Running, Appending
<1> QED BY <1>1, <1>3, <1>4, <1>5 DEF LiveInv, SceneInv

-----------------------------------------------------------------------------
(***************************************************************************)
(* What extract.py reads, sector by sector from the front, is what lies    *)
(* before the open sector and that sector.                                 *)
(***************************************************************************)
ExtractOf(f) ==
  f = [lba \in 0..TOTAL_SECTORS |->
         IF lba = TOTAL_SECTORS THEN <<>>
         ELSE IF ~decodes(disk[lba], lba) THEN <<>>
         ELSE payload(disk[lba]) \o f[lba + 1]]

LEMMA ExtractExist == \E f : ExtractOf(f)
<1> DEFINE T == TOTAL_SECTORS
           Body(lba, f) == IF lba = T THEN <<>>
                           ELSE IF ~decodes(disk[lba], lba) THEN <<>>
                           ELSE payload(disk[lba]) \o f[lba + 1]
           Ok(k) == \E f : f = [lba \in (T - k)..T |-> Body(lba, f)]
           S == {k \in 0..T : Ok(k)}
<1>0. T \in Nat
  BY SectorsAssumption
<1> HIDE DEF T
<1>1. Ok(0)
  <2> DEFINE f == [lba \in (T - 0)..T |-> <<>>]
  <2>1. \A lba \in (T - 0)..T : lba = T
    BY <1>0
  <2>2. f = [lba \in (T - 0)..T |-> Body(lba, f)]
    BY <2>1
  <2> QED BY <2>2
<1>2. ASSUME NEW k \in 0..(T - 1), Ok(k) PROVE Ok(k + 1)
  <2>1. PICK f : f = [lba \in (T - k)..T |-> Body(lba, f)]
    BY <1>2
  <2> DEFINE g == [lba \in (T - (k + 1))..T |-> Body(lba, f)]
  <2>2. \A lba \in (T - (k + 1))..T : lba # T => lba + 1 \in (T - k)..T
    BY <1>0
  <2>3. \A lba \in (T - k)..T : lba \in (T - (k + 1))..T
    BY <1>0
  <2>4. \A lba \in (T - k)..T : g[lba] = f[lba]
    BY <2>1, <2>3
  <2>5. \A lba \in (T - (k + 1))..T : Body(lba, f) = Body(lba, g)
    <3> HIDE DEF g
    <3> QED BY <2>2, <2>4
  <2>6. g = [lba \in (T - (k + 1))..T |-> Body(lba, g)]
    BY <2>5, Zenon
  <2> QED BY <2>6
<1> HIDE DEF Ok
<1>3. 0 \in S /\ \A k \in 0..(T - 1) : k \in S => k + 1 \in S
  <2>1. 0 \in 0..T /\ \A k \in 0..(T - 1) : k + 1 \in 0..T
    BY <1>0
  <2> QED BY <1>1, <1>2, <2>1
<1>4. T \in S
  <2>1. T \in 0..T
    BY <1>0
  <2> HIDE DEF S
  <2> QED BY <1>0, <1>3, <2>1, LengthsUpto
<1>5. T - T = 0
  BY <1>0
<1> QED BY <1>4, <1>5 DEF Ok, ExtractOf, T

\* One more sector in front.
LEMMA PayloadsCons ==
  ASSUME NEW d, NEW a \in Nat, NEW b \in Nat, a < b,
         \A i \in a..(b - 1) : payload(d[i]) \in Seq(Byte)
  PROVE  payload(d[a]) \o PayloadsOf(d, a + 1, b) = PayloadsOf(d, a, b)
<1>1. a + 1 \in Nat /\ a <= a + 1 /\ a + 1 <= b /\ a <= a /\ a \in a..(b - 1)
  OBVIOUS
<1>2. PayloadsOf(d, a, a + 1) = PayloadsOf(d, a, a) \o payload(d[a])
  BY <1>1, PayloadsNext
<1>3. PayloadsOf(d, a, a + 1) = payload(d[a])
  BY <1>1, <1>2, PayloadsNone, ConcatEmptySeq
<1> QED BY <1>1, <1>3, PayloadsSplit

LEMMA ExtractReads ==
  ASSUME CoreInv
  PROVE  \E v \in 0..TOTAL_SECTORS :
           /\ \A i \in 0..(v - 1) : decodes(disk[i], i)
           /\ v < TOTAL_SECTORS => ~decodes(disk[v], v)
           /\ \A a \in 0..v : PayloadsFrom(a) = PayloadsOf(disk, a, v)
           /\ payloads = PayloadsOf(disk, 0, v)
<1> DEFINE T == TOTAL_SECTORS
<1>1. PICK f : ExtractOf(f) /\ \A a : PayloadsFrom(a) = f[a]
  <2>1. \A a : PayloadsFrom(a) = (CHOOSE f : ExtractOf(f))[a]
    BY DEF PayloadsFrom, ExtractOf
  <2>2. ExtractOf(CHOOSE f : ExtractOf(f))
    BY ExtractExist
  <2> QED BY <2>1, <2>2
<1>2. T \in Nat /\ \A i \in 0..(T - 1) : i \in LBA
  BY SectorsAssumption DEF LBA
<1>3. \A i \in 0..(T - 1) : decodes(disk[i], i) => payload(disk[i]) \in Seq(Byte)
  BY <1>2, DecodedIsText DEF CoreInv, Text
<1>4. \A i \in 0..T :
        f[i] = IF i = T THEN <<>>
               ELSE IF ~decodes(disk[i], i) THEN <<>>
               ELSE payload(disk[i]) \o f[i + 1]
  BY <1>1 DEF ExtractOf
<1> DEFINE Read(i, v) == /\ \A j \in i..(v - 1) : decodes(disk[j], j)
                         /\ v < T => ~decodes(disk[v], v)
                         /\ \A j \in i..v : f[j] = PayloadsOf(disk, j, v)
           S == {k \in 0..T : \E v \in (T - k)..T : Read(T - k, v)}
<1> HIDE DEF T
<1>5. 0 \in S
  <2>1. T - 0 = T /\ 0 \in 0..T /\ T \in (T - 0)..T /\ T \in 0..T /\ ~(T < T)
        /\ (\A j \in T..(T - 1) : FALSE) /\ (\A j \in T..T : j = T)
    BY <1>2
  <2>2. f[T] = <<>> /\ PayloadsOf(disk, T, T) = <<>>
    BY <1>2, <1>4, <2>1, PayloadsNone
  <2>3. Read(T - 0, T)
    BY <2>1, <2>2
  <2> QED BY <2>1, <2>3
<1>6. ASSUME NEW k \in 0..(T - 1), k \in S PROVE k + 1 \in S
  <2> DEFINE i == T - (k + 1)
  <2>1. /\ k + 1 \in 0..T /\ i \in 0..(T - 1) /\ i \in Nat /\ i \in 0..T /\ i # T /\ i < T
        /\ i + 1 = T - k /\ i \in i..T
        /\ (\A j \in i..(i - 1) : FALSE) /\ (\A j \in i..i : j = i)
    BY <1>2
  <2> HIDE DEF i
  <2>2. CASE ~decodes(disk[i], i)
    <3>1. f[i] = <<>> /\ PayloadsOf(disk, i, i) = <<>>
      BY <1>4, <2>1, <2>2, PayloadsNone
    <3>2. Read(i, i)
      BY <2>1, <2>2, <3>1
    <3> QED BY <2>1, <3>2 DEF i
  <2>3. CASE decodes(disk[i], i)
    <3>1. PICK v \in (i + 1)..T : Read(i + 1, v)
      BY <1>6, <2>1
    <3>2. /\ v \in Nat /\ i < v /\ v \in i..T /\ i + 1 \in (i + 1)..v
          /\ \A j \in i..(v - 1) : (j = i \/ j \in (i + 1)..(v - 1)) /\ j \in 0..(T - 1)
          /\ \A j \in i..v : j = i \/ j \in (i + 1)..v
      BY <1>2, <2>1
    <3>3. \A j \in i..(v - 1) : decodes(disk[j], j) /\ payload(disk[j]) \in Seq(Byte)
      BY <1>3, <2>3, <3>1, <3>2
    <3>4. f[i] = PayloadsOf(disk, i, v)
      BY <1>4, <2>1, <2>3, <3>1, <3>2, <3>3, PayloadsCons
    <3>5. Read(i, v)
      BY <3>1, <3>2, <3>3, <3>4
    <3> QED BY <2>1, <3>2, <3>5 DEF i
  <2> QED BY <2>2, <2>3
<1>7. T \in S
  <2>1. T \in 0..T
    BY <1>2
  <2> HIDE DEF S
  <2> QED BY <1>2, <1>5, <1>6, <2>1, LengthsUpto
<1>8. T - T = 0
  BY <1>2
<1>9. PICK v \in 0..T : Read(0, v)
  BY <1>7, <1>8
<1>10. 0 \in 0..v
  BY <1>2
<1> QED BY <1>1, <1>9, <1>10 DEF T, payloads

\* If no character lies across a place, no dash does.
LEMMA ApartIsWhole ==
  ASSUME NEW a \in Seq(Nat), NEW b \in Seq(Nat), Apart(a, b)
  PROVE  WholeAt(a, b)
<1> SUFFICES ASSUME ~WholeAt(a, b) PROVE FALSE
  OBVIOUS
<1>0. DASH_UTF8 # <<4>> /\ a # <<>> /\ b # <<>> /\ a[Len(a)] = 4 /\ b[1] = 5
  BY DEF WholeAt
<1> DEFINE n == Len(a)
           w == a \o b
<1>1. DASH_UTF8 = <<4, 5>>
  BY <1>0, DashAssumption
<1>2. n \in Nat /\ n >= 1 /\ Len(b) \in Nat /\ Len(b) >= 1
  BY <1>0, EmptySeq, LenProperties
<1>3. w \in Seq(Nat) /\ Len(w) = n + Len(b) /\ w[n] = 4 /\ w[n + 1] = 5
  <2>1. /\ w \in Seq(Nat) /\ Len(w) = n + Len(b)
        /\ \A i \in 1..(n + Len(b)) : w[i] = IF i <= n THEN a[i] ELSE b[i - n]
    BY ConcatProperties
  <2>2. /\ n \in 1..(n + Len(b)) /\ n + 1 \in 1..(n + Len(b))
        /\ n <= n /\ ~(n + 1 <= n) /\ (n + 1) - n = 1
    BY <1>2
  <2> QED BY <1>0, <2>1, <2>2
<1> HIDE DEF n, w
<1>4. SubSeq(w, n, n + 1) = <<4, 5>>
  <2> DEFINE d == SubSeq(w, n, n + 1)
  <2>1. /\ n \in Int /\ n + 1 \in Int /\ n <= n + 1 /\ (n + 1) - n + 1 = 2
        /\ \A i \in n..(n + 1) : i = n \/ i = n + 1
        /\ \A i \in 1..2 : i = 1 \/ i = 2
        /\ n + 1 - 1 = n /\ n + 2 - 1 = n + 1
        /\ 1 \in 1..2 /\ 2 \in 1..2
    BY <1>2
  <2>2. \A i \in n..(n + 1) : w[i] \in Nat
    <3>1. w[n] \in Nat /\ w[n + 1] \in Nat
      BY <1>3
    <3> QED BY <2>1, <3>1
  <2>3. d \in Seq(Nat) /\ Len(d) = 2 /\ d[1] = w[n] /\ d[2] = w[n + 1]
    <3>1. /\ d \in Seq(Nat)
          /\ Len(d) = IF n <= n + 1 THEN (n + 1) - n + 1 ELSE 0
          /\ \A i \in 1..((n + 1) - n + 1) : d[i] = w[n + i - 1]
      BY <2>1, <2>2, SubSeqProperties
    <3> HIDE DEF d
    <3> QED BY <2>1, <3>1
  <2> HIDE DEF d
  <2>4. d[1] = 4 /\ d[2] = 5
    BY <1>3, <2>1, <2>3
  <2> DEFINE e == <<4, 5>>
  <2>5. e \in Seq(Nat) /\ Len(e) = 2 /\ e[1] = 4 /\ e[2] = 5
    OBVIOUS
  <2> HIDE DEF e
  <2>6. \A i \in 1..Len(d) : d[i] = e[i]
    BY <2>1, <2>3, <2>4, <2>5
  <2>7. d = e
    BY <2>3, <2>5, <2>6, SeqEqual
  <2> QED BY <2>7 DEF d, e
<1>5. "dash" \in Char /\ encode_utf8["dash"] = <<4, 5>> /\ Len(encode_utf8["dash"]) = 2
  BY <1>1 DEF Char, encode_utf8
<1>6. n + Len(encode_utf8["dash"]) - 1 = n + 1 /\ n + 1 <= Len(w)
  BY <1>2, <1>3, <1>5
<1>7. "dash" \in CharsAt(w, n)
  BY <1>4, <1>5, <1>6 DEF CharsAt
<1>8. n \in 1..n /\ ~(n + 1 <= n)
  BY <1>2
<1> QED BY <1>6, <1>7, <1>8 DEF Apart, n, w

\* What the kernel holds at rest is what is read off the disk.
LEMMA HeldIsRead ==
  ASSUME SceneInv, Live, pc = "idle", NEW a \in 0..sealed
  PROVE  /\ PayloadsFrom(a) = HeldOf(disk, a, sealed, tail \o todo)
         /\ PayloadsFrom(a) \in Seq(Byte)
<1>1. /\ sealed \in LBA /\ sealed \in Nat /\ tail \in Seq(Byte)
      /\ PayloadsOf(disk, a, sealed) \in Seq(Byte)
  BY HeldType
<1>2. todo = <<>> /\ Page(sealed) = tail
  BY <1>1 DEF SceneInv, SettledInv, Live
<1>3. tail \o todo = tail
  BY <1>1, <1>2, ConcatEmptySeq
<1>4. PayloadsFrom(a) = PayloadsOf(disk, a, sealed) \o Page(sealed)
  <2>1. PICK v \in 0..TOTAL_SECTORS :
          /\ \A i \in 0..(v - 1) : decodes(disk[i], i)
          /\ v < TOTAL_SECTORS => ~decodes(disk[v], v)
          /\ \A i \in 0..v : PayloadsFrom(i) = PayloadsOf(disk, i, v)
    BY ExtractReads DEF SceneInv, TextInv
  <2>2. Frontier(sealed)
    BY DEF SceneInv, TextInv, IInv, SessionInv, Live
  <2>3. sealed <= v /\ v <= sealed + 1
    <3>1. ~(v < sealed)
      <4>1. v < sealed => v \in LBA /\ v < TOTAL_SECTORS
        BY <1>1, SectorsAssumption DEF LBA
      <4> QED BY <2>1, <2>2, <4>1 DEF Frontier, isFull
    <3>2. ~(sealed + 1 < v)
      <4>1. sealed + 1 < v => /\ sealed + 1 \in LBA /\ sealed + 1 > sealed
                              /\ sealed + 1 \in 0..(v - 1)
        BY <1>1, SectorsAssumption DEF LBA
      <4> QED BY <2>1, <2>2, <4>1, ZeroedFacts DEF Frontier
    <3> QED BY <1>1, <3>1, <3>2
  <2>4. a \in 0..v /\ a \in Nat /\ a <= sealed
    BY <1>1, <2>3
  <2>5. CASE v = sealed
    <3>1. ~decodes(disk[sealed], sealed)
      BY <1>1, <2>1, <2>5, SectorsAssumption DEF LBA
    <3> QED BY <1>1, <2>1, <2>4, <2>5, <3>1, ConcatEmptySeq DEF Page
  <2>6. CASE v = sealed + 1
    <3>1. sealed \in 0..(v - 1)
      BY <1>1, <2>6
    <3>2. PayloadsOf(disk, a, sealed + 1) = PayloadsOf(disk, a, sealed) \o payload(disk[sealed])
      BY <1>1, <2>4, PayloadsNext
    <3> QED BY <2>1, <2>4, <2>6, <3>1, <3>2 DEF Page
  <2> QED BY <1>1, <2>3, <2>5, <2>6
<1> QED BY <1>1, <1>2, <1>3, <1>4, ConcatProperties DEF HeldOf

\* At rest the text is what the loaded sectors decode to.
LEMMA LiveIsRead == LiveInv => RamMatchesUnlessSplit
<1> SUFFICES ASSUME LiveInv, Settled PROVE text = from_utf8_lossy(Loaded)
  BY DEF RamMatchesUnlessSplit
<1>1. SceneInv /\ RamInv /\ Live /\ pc = "idle"
  BY DEF LiveInv, Settled, Live, Running
<1>2. first_loaded \in 0..sealed /\ 0 \in 0..sealed /\ pending.end \in 0..sealed
  BY <1>1, HeldType DEF SceneInv, SeamInv, Live
<1>3. PayloadsFrom(pending.end) = HeldOf(disk, pending.end, sealed, tail \o todo)
  BY <1>1, <1>2, HeldIsRead
<1>4. Unsplit
  <2> DEFINE a == PayloadsOf(disk, 0, first_loaded)
             b == PayloadsFrom(first_loaded)
  <2>1. b = HeldOf(disk, first_loaded, sealed, tail \o todo) /\ b \in Seq(Nat)
    BY <1>1, <1>2, HeldIsRead, ByteIsNat
  <2>2. a \in Seq(Nat)
    <3>1. /\ sealed \in Nat /\ \A i \in LBA : i < sealed => payload(disk[i]) \in Seq(Byte)
          /\ \A i \in 0..(sealed - 1) : i \in LBA
      BY <1>1, HeldType
    <3>2. /\ 0 \in Nat /\ first_loaded \in Nat /\ 0 <= first_loaded
          /\ \A i \in 0..(first_loaded - 1) : i \in 0..(sealed - 1) /\ i < sealed
      BY <1>2, <3>1
    <3>3. \A i \in 0..(first_loaded - 1) : payload(disk[i]) \in Seq(Byte)
      BY <3>1, <3>2
    <3> QED BY <3>2, <3>3, PayloadsType, ByteIsNat
  <2>3. fully_loaded => Apart(a, b)
    BY DEF Settled, SeamIsWhole, Payloads, PayloadsOf
  <2> HIDE DEF a, b
  <2>4. fully_loaded => WholeAt(a, b)
    BY <2>1, <2>2, <2>3, ApartIsWhole
  <2> QED BY <2>1, <2>4 DEF Unsplit, a
<1>5. PayloadsFrom(pending.end) = Loaded
  BY <1>1 DEF Loaded, fully_loaded, None, SceneInv, SeamInv
<1> QED BY <1>1, <1>3, <1>4, <1>5 DEF RamInv

(* What the text in RAM has been decoded from, at every moment between two *)
(* steps of the kernel: the sectors from first_loaded on while the history *)
(* is owed, all of them afterwards.                                        *)
THEOREM LiveInvariance == TextSpec => []LiveInv
BY LiveInitInv, SceneNextInv, PTL DEF TextSpec, LiveInv

(* At rest the text in RAM is the text of the loaded part of the disk,     *)
(* also while characters longer than a byte are split across sectors,      *)
(* writes are tried again and power is lost, unless a character lies       *)
(* across the place where load began to decode (scroll.rs:76): the only    *)
(* way in which the two can differ, short of trouble and a full scroll.    *)
THEOREM RamFollowsUnlessSplit == TextSpec => []RamMatchesUnlessSplit
BY LiveInvariance, LiveIsRead, PTL

-----------------------------------------------------------------------------
(***************************************************************************)
(* The dump: leaving the markers out of the characters and leaving their   *)
(* byte out of the bytes come to the same.                                 *)
(***************************************************************************)
Taken(v, e, x) == IF e = x THEN v ELSE Append(v, e)

\* The function in the definition of Without.
Takes(f, s, x, k) ==
  f = [i \in 0..k |-> IF i = 0 THEN <<>> ELSE Taken(f[i - 1], s[i], x)]

LEMMA WithoutExist ==
  ASSUME NEW s, NEW x, NEW k \in Nat
  PROVE  \E f : Takes(f, s, x, k)
<1> DEFINE S == {j \in Nat : \E f : Takes(f, s, x, j)}
<1>1. 0 \in S
  <2>1. Takes([i \in 0..0 |-> <<>>], s, x, 0)
    BY DEF Takes
  <2> QED BY <2>1
<1>2. ASSUME NEW j \in Nat, j \in S PROVE j + 1 \in S
  <2>1. PICK f : Takes(f, s, x, j)
    BY <1>2
  <2> DEFINE g == [i \in 0..(j + 1) |-> IF i = 0 THEN <<>> ELSE Taken(f[i - 1], s[i], x)]
  <2>2. \A i \in 0..(j + 1) : i # 0 => i - 1 \in 0..j
    OBVIOUS
  <2>3. \A i \in 0..j : g[i] = f[i]
    BY <2>1 DEF Takes
  <2>4. Takes(g, s, x, j + 1)
    BY <2>2, <2>3 DEF Takes
  <2> HIDE DEF g
  <2>5. \E h : Takes(h, s, x, j + 1)
    BY <2>4, Zenon
  <2> QED BY <2>5
<1>3. k \in S
  <2> HIDE DEF S
  <2> QED BY <1>1, <1>2, Lengths
<1> QED BY <1>3

LEMMA WithoutDef ==
  ASSUME NEW s, NEW x, Len(s) \in Nat
  PROVE  \E f : Takes(f, s, x, Len(s)) /\ Without(s, x) = f[Len(s)]
<1>1. \E f : Takes(f, s, x, Len(s))
  BY WithoutExist, Zenon
<1>2. Without(s, x) = (CHOOSE f : Takes(f, s, x, Len(s)))[Len(s)]
  BY DEF Without, Takes, Taken
<1>3. Takes(CHOOSE f : Takes(f, s, x, Len(s)), s, x, Len(s))
  BY <1>1, Zenon
<1> QED BY <1>2, <1>3, Zenon

LEMMA WithoutEmpty ==
  ASSUME NEW x
  PROVE  Without(<<>>, x) = <<>>
<1>1. Len(<<>>) = 0
  OBVIOUS
<1>2. PICK f : Takes(f, <<>>, x, 0) /\ Without(<<>>, x) = f[0]
  BY <1>1, WithoutDef
<1>3. f[0] = <<>>
  BY <1>2 DEF Takes
<1> QED BY <1>2, <1>3

LEMMA WithoutAppend ==
  ASSUME NEW A, NEW s \in Seq(A), NEW e \in A, NEW x
  PROVE  Without(Append(s, e), x) = IF e = x THEN Without(s, x) ELSE Append(Without(s, x), e)
<1> DEFINE k == Len(s)
           t == Append(s, e)
<1>1. /\ k \in Nat /\ Len(t) = k + 1 /\ t[k + 1] = e
      /\ \A i \in 1..k : t[i] = s[i]
  BY AppendProperties, LenProperties
<1>2. PICK f : Takes(f, s, x, k) /\ Without(s, x) = f[k]
  BY <1>1, WithoutDef, Zenon
<1>3. PICK g : Takes(g, t, x, k + 1) /\ Without(t, x) = g[k + 1]
  <2>1. Len(t) \in Nat
    BY <1>1
  <2>2. PICK g : Takes(g, t, x, Len(t)) /\ Without(t, x) = g[Len(t)]
    BY <2>1, WithoutDef, Zenon
  <2> QED BY <1>1, <2>2
<1> HIDE DEF k, t
<1> DEFINE S == {i \in 0..k : g[i] = f[i]}
<1>4. 0 \in S
  BY <1>1, <1>2, <1>3 DEF Takes
<1>5. ASSUME NEW i \in 0..(k - 1), i \in S PROVE i + 1 \in S
  <2>1. /\ i + 1 \in 0..k /\ i + 1 \in 0..(k + 1) /\ i + 1 \in 1..k
        /\ i + 1 # 0 /\ (i + 1) - 1 = i
    BY <1>1
  <2>2. f[i + 1] = Taken(f[i], s[i + 1], x)
    BY <1>2, <2>1 DEF Takes
  <2>3. g[i + 1] = Taken(g[i], t[i + 1], x)
    BY <1>3, <2>1 DEF Takes
  <2> QED BY <1>1, <1>5, <2>1, <2>2, <2>3
<1>6. k \in S
  <2>1. k \in 0..k
    BY <1>1
  <2> HIDE DEF S
  <2> QED BY <1>1, <1>4, <1>5, <2>1, LengthsUpto
<1>7. g[k + 1] = Taken(g[k], t[k + 1], x)
  <2>1. k + 1 \in 0..(k + 1) /\ k + 1 # 0 /\ (k + 1) - 1 = k
    BY <1>1
  <2> QED BY <1>3, <2>1 DEF Takes
<1>8. Without(t, x) = Taken(Without(s, x), e, x)
  BY <1>1, <1>2, <1>3, <1>6, <1>7
<1> QED BY <1>8 DEF t, Taken

LEMMA WithoutType ==
  ASSUME NEW A, NEW s \in Seq(A), NEW x
  PROVE  Without(s, x) \in Seq(A)
<1> DEFINE S == {t \in Seq(A) : Without(t, x) \in Seq(A)}
<1>1. <<>> \in S
  BY WithoutEmpty, EmptySeq
<1>2. ASSUME NEW t \in Seq(A), NEW e \in A, t \in S PROVE Append(t, e) \in S
  <2>1. Without(Append(t, e), x) = IF e = x THEN Without(t, x) ELSE Append(Without(t, x), e)
    BY WithoutAppend
  <2>2. /\ Without(t, x) \in Seq(A) /\ Append(t, e) \in Seq(A)
        /\ Append(Without(t, x), e) \in Seq(A)
    BY <1>2, AppendProperties
  <2> QED BY <2>1, <2>2
<1>3. s \in S
  <2> HIDE DEF S
  <2> QED BY <1>1, <1>2, Sequences
<1> QED BY <1>3

\* The marker is one byte, which no other character has.
LEMMA MarkerByte ==
  /\ encode_utf8["mark"] = <<3>> /\ encode_utf8["mark"][1] = 3
  /\ \A ch \in Char \ {"mark"} :
       \/ \E b \in Utf8Byte \ {3} : encode_utf8[ch] = <<b>>
       \/ \E b, c \in Utf8Byte \ {3} : encode_utf8[ch] = <<b, c>>
<1>1. Char = {"letter", "nl", "mark", "dash", "fffd"}
  BY DEF Char, encode_utf8
<1>2. /\ encode_utf8["letter"] = <<1>> /\ encode_utf8["nl"] = <<2>>
      /\ encode_utf8["mark"] = <<3>> /\ encode_utf8["fffd"] = <<6>>
      /\ encode_utf8["dash"] = DASH_UTF8
  BY DEF encode_utf8
<1>3. /\ 1 \in Utf8Byte \ {3} /\ 2 \in Utf8Byte \ {3} /\ 6 \in Utf8Byte \ {3}
      /\ 4 \in Utf8Byte \ {3} /\ 5 \in Utf8Byte \ {3}
  BY DEF Utf8Byte
<1>4. encode_utf8["mark"][1] = 3
  BY <1>2
<1>5. DASH_UTF8 = <<4>> \/ DASH_UTF8 = <<4, 5>>
  BY DashAssumption
<1> QED BY <1>1, <1>2, <1>3, <1>4, <1>5

\* One or two bytes behind others are appended one by one.
LEMMA ConcatOne ==
  ASSUME NEW s \in Seq(Utf8Byte), NEW b \in Utf8Byte
  PROVE  s \o <<b>> = Append(s, b)
BY AppendIsConcat

LEMMA ConcatTwo ==
  ASSUME NEW s \in Seq(Utf8Byte), NEW b \in Utf8Byte, NEW c \in Utf8Byte
  PROVE  s \o <<b, c>> = Append(Append(s, b), c) /\ Append(s, b) \in Seq(Utf8Byte)
<1>1. <<b>> \in Seq(Utf8Byte) /\ <<c>> \in Seq(Utf8Byte)
  <2>1. \A A : \A x \in A : <<x>> \in Seq(A)
    OBVIOUS
  <2> QED BY <2>1, Zenon
<1>2. <<b>> \o <<c>> = <<b, c>>
  <2>1. b \in Nat /\ c \in Nat
    BY DEF Utf8Byte
  <2> QED BY <2>1, PairConcat, Zenon
<1>3. (s \o <<b>>) \o <<c>> = s \o (<<b>> \o <<c>>)
  BY <1>1, AssociativeUtf8
<1>4. Append(s, b) \in Seq(Utf8Byte)
  BY AppendProperties
<1>5. s \o <<b>> = Append(s, b) /\ Append(s, b) \o <<c>> = Append(Append(s, b), c)
  BY <1>4, ConcatOne
<1> QED BY <1>2, <1>3, <1>4, <1>5, Zenon

LEMMA ExtractedAppend ==
  ASSUME NEW s \in Seq(Utf8Byte), NEW ch \in Char
  PROVE  Extracted(s \o encode_utf8[ch])
           = IF ch = "mark" THEN Extracted(s) ELSE Extracted(s) \o encode_utf8[ch]
<1>1. \A t \in Seq(Utf8Byte) :
        /\ Extracted(t) \in Seq(Utf8Byte)
        /\ \A b \in Utf8Byte : Extracted(Append(t, b))
                                 = IF b = 3 THEN Extracted(t) ELSE Append(Extracted(t), b)
  BY MarkerByte, WithoutType, WithoutAppend DEF Extracted
<1>2. CASE ch = "mark"
  <2>1. 3 \in Utf8Byte
    BY DEF Utf8Byte
  <2>2. encode_utf8[ch] = <<3>>
    BY <1>2, MarkerByte
  <2>3. s \o <<3>> = Append(s, 3)
    BY <2>1, ConcatOne
  <2>4. Extracted(Append(s, 3)) = Extracted(s)
    BY <1>1, <2>1
  <2> QED BY <1>2, <2>2, <2>3, <2>4, Zenon
<1>3. ASSUME ch # "mark", NEW b \in Utf8Byte \ {3}, encode_utf8[ch] = <<b>>
      PROVE  Extracted(s \o encode_utf8[ch]) = Extracted(s) \o encode_utf8[ch]
  <2>1. b \in Utf8Byte /\ b # 3
    OBVIOUS
  <2>2. s \o <<b>> = Append(s, b) /\ Extracted(s) \o <<b>> = Append(Extracted(s), b)
    BY <1>1, <2>1, ConcatOne
  <2>3. Extracted(Append(s, b)) = Append(Extracted(s), b)
    BY <1>1, <2>1
  <2> QED BY <1>3, <2>2, <2>3, Zenon
<1>4. ASSUME ch # "mark", NEW b \in Utf8Byte \ {3}, NEW c \in Utf8Byte \ {3},
             encode_utf8[ch] = <<b, c>>
      PROVE  Extracted(s \o encode_utf8[ch]) = Extracted(s) \o encode_utf8[ch]
  <2>1. s \o <<b, c>> = Append(Append(s, b), c) /\ Append(s, b) \in Seq(Utf8Byte)
    BY ConcatTwo
  <2>2. Extracted(Append(Append(s, b), c)) = Append(Append(Extracted(s), b), c)
    BY <1>1, <2>1
  <2>3. Extracted(s) \o <<b, c>> = Append(Append(Extracted(s), b), c)
    BY <1>1, ConcatTwo
  <2> QED BY <1>4, <2>1, <2>2, <2>3
<1> QED BY <1>2, <1>3, <1>4, MarkerByte

\* What F12 prints of a text and what extract.py prints of its bytes.
LEMMA PrintedIsExtracted ==
  ASSUME NEW s \in Seq(Char)
  PROVE  as_bytes(Without(s, "mark")) = Extracted(as_bytes(s))
<1> DEFINE S == {t \in Seq(Char) : as_bytes(Without(t, "mark")) = Extracted(as_bytes(t))}
<1>1. <<>> \in S
  BY WithoutEmpty, BytesEmpty, EmptySeq DEF Extracted
<1>2. ASSUME NEW t \in Seq(Char), NEW ch \in Char, t \in S PROVE Append(t, ch) \in S
  <2>1. /\ as_bytes(t) \in Seq(Utf8Byte) /\ Without(t, "mark") \in Seq(Char)
        /\ as_bytes(Append(t, ch)) = as_bytes(t) \o encode_utf8[ch]
        /\ Append(t, ch) \in Seq(Char)
    BY BytesType, BytesAppend, WithoutType, AppendProperties
  <2>2. Without(Append(t, ch), "mark")
          = IF ch = "mark" THEN Without(t, "mark") ELSE Append(Without(t, "mark"), ch)
    BY WithoutAppend
  <2>3. as_bytes(Append(Without(t, "mark"), ch)) = as_bytes(Without(t, "mark")) \o encode_utf8[ch]
    BY <2>1, BytesAppend
  <2>4. Extracted(as_bytes(t) \o encode_utf8[ch])
          = IF ch = "mark" THEN Extracted(as_bytes(t))
            ELSE Extracted(as_bytes(t)) \o encode_utf8[ch]
    BY <2>1, ExtractedAppend
  <2>5. as_bytes(Without(t, "mark")) = Extracted(as_bytes(t))
    BY <1>2
  <2> QED BY <2>1, <2>2, <2>3, <2>4, <2>5
<1>3. s \in S
  <2> HIDE DEF S
  <2> QED BY <1>1, <1>2, Sequences
<1> QED BY <1>3

\* F12 prints what extract.py writes, at rest and of bytes that are a text.
LEMMA LiveIsDumped == LiveInv => DumpIsExtract
<1> SUFFICES ASSUME LiveInv, Settled, as_bytes(from_utf8_lossy(Loaded)) = Loaded
             PROVE  as_bytes(F12) = Extracted(Loaded)
  BY DEF DumpIsExtract
<1>1. text = from_utf8_lossy(Loaded) /\ text \in Seq(Char)
  BY LiveIsRead DEF RamMatchesUnlessSplit, LiveInv, SceneInv
<1> QED BY <1>1, PrintedIsExtracted DEF F12

(* F12 prints the bytes extract.py writes of the loaded sectors, though    *)
(* the one skips marker characters in RAM and the other marker bytes on    *)
(* the disk, whenever RAM follows the disk and these bytes are a text      *)
(* (main.rs:118-128, extract.py:40).                                       *)
THEOREM DumpMatchesExtract == TextSpec => []DumpIsExtract
BY LiveInvariance, LiveIsDumped, PTL

-----------------------------------------------------------------------------
(***************************************************************************)
(* Separators at the start of a line.  First what StartsLine says of the   *)
(* parts of a text, then of the parts of its bytes.                        *)
(***************************************************************************)
LEMMA ConcatChars ==
  ASSUME NEW x \in Seq(Char), NEW y \in Seq(Char)
  PROVE  /\ x \o y \in Seq(Char)
         /\ Len(x) \in Nat /\ Len(y) \in Nat /\ Len(x \o y) = Len(x) + Len(y)
         /\ \A i \in 1..Len(x) : (x \o y)[i] = x[i]
         /\ \A i \in 1..Len(y) : (x \o y)[Len(x) + i] = y[i]
<1>1. /\ x \o y \in Seq(Char) /\ Len(x \o y) = Len(x) + Len(y)
      /\ Len(x) \in Nat /\ Len(y) \in Nat
      /\ \A i \in 1..(Len(x) + Len(y)) :
           (x \o y)[i] = IF i <= Len(x) THEN x[i] ELSE y[i - Len(x)]
  BY ConcatProperties, LenProperties
<1>2. ASSUME NEW i \in 1..Len(x) PROVE (x \o y)[i] = x[i]
  <2>1. i \in 1..(Len(x) + Len(y)) /\ i <= Len(x)
    BY <1>1
  <2> QED BY <1>1, <2>1
<1>3. ASSUME NEW i \in 1..Len(y) PROVE (x \o y)[Len(x) + i] = y[i]
  <2>1. /\ Len(x) + i \in 1..(Len(x) + Len(y)) /\ ~(Len(x) + i <= Len(x))
        /\ (Len(x) + i) - Len(x) = i
    BY <1>1
  <2> QED BY <1>1, <2>1
<1> QED BY <1>1, <1>2, <1>3

LEMMA StartsParts ==
  ASSUME NEW x \in Seq(Char), NEW y \in Seq(Char), StartsLine(x \o y)
  PROVE  /\ StartsLine(x) /\ StartsLine(y)
         /\ x = <<>> \/ y = <<>> \/ y[1] # "mark" \/ x[Len(x)] = "nl"
<1> DEFINE z == x \o y
<1>1. /\ Len(x) \in Nat /\ Len(y) \in Nat /\ Len(z) = Len(x) + Len(y)
      /\ \A i \in 1..Len(x) : z[i] = x[i]
      /\ \A i \in 1..Len(y) : z[Len(x) + i] = y[i]
  BY ConcatChars
<1> HIDE DEF z
<1>2. \A i \in 2..Len(z) : z[i] = "mark" => z[i - 1] = "nl"
  BY DEF StartsLine, z
<1>3. ASSUME NEW i \in 2..Len(x), x[i] = "mark" PROVE x[i - 1] = "nl"
  <2>1. i \in 2..Len(z) /\ i \in 1..Len(x) /\ i - 1 \in 1..Len(x)
    BY <1>1
  <2> QED BY <1>1, <1>2, <1>3, <2>1
<1>4. ASSUME NEW i \in 2..Len(y), y[i] = "mark" PROVE y[i - 1] = "nl"
  <2>1. /\ Len(x) + i \in 2..Len(z) /\ i \in 1..Len(y) /\ i - 1 \in 1..Len(y)
        /\ (Len(x) + i) - 1 = Len(x) + (i - 1)
    BY <1>1
  <2> QED BY <1>1, <1>2, <1>4, <2>1
<1>5. ASSUME x # <<>>, y # <<>>, y[1] = "mark" PROVE x[Len(x)] = "nl"
  <2>1. Len(x) # 0 /\ Len(y) # 0
    BY <1>5, EmptySeq
  <2>2. /\ Len(x) + 1 \in 2..Len(z) /\ 1 \in 1..Len(y) /\ Len(x) \in 1..Len(x)
        /\ (Len(x) + 1) - 1 = Len(x)
    BY <1>1, <2>1
  <2> QED BY <1>1, <1>2, <1>5, <2>2
<1> QED BY <1>3, <1>4, <1>5 DEF StartsLine

LEMMA StartsJoin ==
  ASSUME NEW x \in Seq(Char), NEW y \in Seq(Char), StartsLine(x), StartsLine(y),
         x = <<>> \/ y = <<>> \/ y[1] # "mark" \/ x[Len(x)] = "nl"
  PROVE  StartsLine(x \o y)
<1> DEFINE z == x \o y
<1>1. /\ Len(x) \in Nat /\ Len(y) \in Nat /\ Len(z) = Len(x) + Len(y)
      /\ \A i \in 1..Len(x) : z[i] = x[i]
      /\ \A i \in 1..Len(y) : z[Len(x) + i] = y[i]
  BY ConcatChars
<1> HIDE DEF z
<1>2. ASSUME NEW i \in 2..Len(z), z[i] = "mark" PROVE z[i - 1] = "nl"
  <2>1. CASE i <= Len(x)
    <3>1. i \in 1..Len(x) /\ i - 1 \in 1..Len(x) /\ i \in 2..Len(x)
      BY <1>1, <2>1
    <3> QED BY <1>1, <1>2, <3>1 DEF StartsLine
  <2>2. CASE i = Len(x) + 1
    <3>1. /\ 1 \in 1..Len(y) /\ Len(x) \in 1..Len(x) /\ i - 1 = Len(x)
          /\ Len(x) # 0 /\ Len(y) # 0
      BY <1>1, <2>2
    <3>2. x # <<>> /\ y # <<>>
      BY <3>1, EmptySeq
    <3>3. z[i] = y[1] /\ z[i - 1] = x[Len(x)]
      BY <1>1, <2>2, <3>1
    <3> QED BY <1>2, <3>2, <3>3
  <2>3. CASE i > Len(x) + 1
    <3> DEFINE j == i - Len(x)
    <3>1. /\ j \in 2..Len(y) /\ j \in 1..Len(y) /\ j - 1 \in 1..Len(y)
          /\ Len(x) + j = i /\ Len(x) + (j - 1) = i - 1
      BY <1>1, <2>3
    <3> HIDE DEF j
    <3>2. z[i] = y[j] /\ z[i - 1] = y[j - 1]
      BY <1>1, <3>1
    <3> QED BY <1>2, <3>1, <3>2 DEF StartsLine
  <2> QED BY <1>1, <2>1, <2>2, <2>3
<1> QED BY <1>2 DEF StartsLine, z

LEMMA StartsOne ==
  ASSUME NEW c \in Char
  PROVE  <<c>> \in Seq(Char) /\ StartsLine(<<c>>) /\ <<c>>[1] = c /\ <<c>> # <<>>
         /\ <<c>>[Len(<<c>>)] = c
<1>1. \A e \in Char : /\ <<e>> \in Seq(Char) /\ Len(<<e>>) = 1 /\ <<e>>[1] = e /\ <<e>> # <<>>
  OBVIOUS
<1>2. <<c>> \in Seq(Char) /\ Len(<<c>>) = 1 /\ <<c>>[1] = c /\ <<c>> # <<>>
  BY <1>1, Zenon
<1>3. \A i \in 2..1 : FALSE
  OBVIOUS
<1> QED BY <1>2, <1>3 DEF StartsLine

\* Half a dash is not a character.
LEMMA LossyHalf ==
  ASSUME DASH_UTF8 = <<4, 5>>, NEW x \in {4, 5}
  PROVE  from_utf8_lossy(<<x>>) = <<"fffd">>
<1> DEFINE u == <<x>>
<1>1. u \in Seq(Nat) /\ Len(u) = 1 /\ u # <<>> /\ u[1] = x
  OBVIOUS
<1> HIDE DEF u
<1>2. CharsAt(u, 1) = {}
  <2> SUFFICES ASSUME NEW c \in CharsAt(u, 1) PROVE FALSE
    OBVIOUS
  <2>1. c \in Char
    BY DEF CharsAt
  <2>2. PICK l \in 1..2 : l = Len(encode_utf8[c])
    BY <2>1, EncodeNat
  <2>3. (1 + l) - 1 <= Len(u) /\ SubSeq(u, 1, (1 + l) - 1) = encode_utf8[c]
    <3>1. 1 \in Int
      OBVIOUS
    <3> QED BY <1>1, <2>1, <2>2, <3>1, CharsAtDef, Zenon
  <2>4. l = 1 /\ SubSeq(u, 1, 1) = encode_utf8[c]
    <3>1. l = 1
      BY <1>1, <2>3
    <3>2. (1 + 1) - 1 = 1
      OBVIOUS
    <3> QED BY <2>3, <3>1, <3>2
  <2>5. encode_utf8[c][1] = x
    BY <1>1, <2>4, SubSeqFull
  <2>6. Char = {"letter", "nl", "mark", "dash", "fffd"}
    BY DEF Char, encode_utf8
  <2>7. /\ encode_utf8["letter"][1] = 1 /\ encode_utf8["nl"][1] = 2
        /\ encode_utf8["mark"][1] = 3 /\ encode_utf8["fffd"][1] = 6
    BY DEF encode_utf8
  <2>8. c = "dash"
    BY <2>1, <2>5, <2>6, <2>7
  <2>9. Len(encode_utf8[c]) = 2
    <3>1. Len(<<4, 5>>) = 2
      OBVIOUS
    <3> QED BY <2>8, <3>1 DEF encode_utf8
  <2> QED BY <2>2, <2>4, <2>9
<1>3. CharFound(u, 1) = "fffd" /\ Onward(u, 1) = 2
  BY <1>2 DEF CharFound, Onward
<1>4. SubSeq(u, 2, Len(u)) = <<>>
  BY <1>1, SubSeqEmpty
<1>5. from_utf8_lossy(u) = <<"fffd">> \o <<>>
  BY <1>1, <1>3, <1>4, LossyStep, LossyEmpty
<1>6. <<"fffd">> \o <<>> = <<"fffd">>
  OBVIOUS
<1> QED BY <1>5, <1>6 DEF u

LEMMA DashHalves ==
  ASSUME NEW p \in Seq(Nat), NEW q \in Seq(Nat)
  PROVE  (p \o <<4>>) \o (<<5>> \o q) = p \o (<<4, 5>> \o q)
<1> DEFINE u == <<4>>
           v == <<5>>
<1>1. u \in Seq(Nat) /\ v \in Seq(Nat)
  OBVIOUS
<1>2. u \o v = <<4, 5>>
  <2>1. 4 \in Nat /\ 5 \in Nat
    OBVIOUS
  <2> QED BY <2>1, PairConcat, Zenon
<1> HIDE DEF u, v
<1>3. v \o q \in Seq(Nat)
  BY <1>1, ConcatProperties
<1>4. (p \o u) \o (v \o q) = p \o (u \o (v \o q))
  BY <1>1, <1>3, AssociativeNat, Zenon
<1>5. (u \o v) \o q = u \o (v \o q)
  BY <1>1, AssociativeNat, Zenon
<1> QED BY <1>2, <1>4, <1>5 DEF u, v

(* Bytes may be decoded in two parts at any place at all as far as the     *)
(* separators go: a dash that is cut leaves two characters that are none.  *)
LEMMA LineSplit ==
  ASSUME NEW a \in Seq(Nat), NEW b \in Seq(Nat), StartsLine(from_utf8_lossy(a \o b))
  PROVE  StartsLine(from_utf8_lossy(a) \o from_utf8_lossy(b))
<1>1. CASE WholeAt(a, b)
  BY <1>1, LossySplice
<1>2. CASE ~WholeAt(a, b)
  <2>1. /\ DASH_UTF8 = <<4, 5>> /\ a # <<>> /\ b # <<>>
        /\ a[Len(a)] = 4 /\ b[1] = 5
    BY <1>2, DashAssumption DEF WholeAt
  <2>2. PICK p \in Seq(Nat) : a = p \o <<4>>
    <3>1. Len(a) \in Nat /\ Len(a) # 0
      BY <2>1, EmptySeq, LenProperties
    <3>2. 1 \in 1..Len(a) /\ Len(a) \in 1..Len(a) /\ 1 \in Int /\ Len(a) - 1 \in Int
      BY <3>1
    <3>3. SubSeq(a, 1, Len(a)) = SubSeq(a, 1, Len(a) - 1) \o <<a[Len(a)]>>
      BY <3>2, SubSeqRecursiveSecond
    <3>4. \A i \in 1..(Len(a) - 1) : a[i] \in Nat
      BY <3>1, ElementOfSeq
    <3>5. SubSeq(a, 1, Len(a) - 1) \in Seq(Nat)
      BY <3>2, <3>4, SubSeqProperties
    <3>6. SubSeq(a, 1, Len(a)) = a
      BY SubSeqFull
    <3> QED BY <2>1, <3>3, <3>5, <3>6
  <2>3. PICK q \in Seq(Nat) : b = <<5>> \o q
    <3>1. PICK e \in Nat, t \in Seq(Nat) : b = <<e>> \o t
      BY <2>1, Uncons
    <3>2. \A x \in Nat : \A s \in Seq(Nat) : (<<x>> \o s)[1] = x
      OBVIOUS
    <3>3. e = 5
      BY <2>1, <3>1, <3>2
    <3> QED BY <3>1, <3>3
  <2> DEFINE u == <<4>>
             v == <<5>>
             w == <<4, 5>>
             x == from_utf8_lossy(p)
             y == from_utf8_lossy(q)
             h == <<"fffd">>
             d == <<"dash">>
  <2>4. /\ u \in Seq(Nat) /\ v \in Seq(Nat) /\ w \in Seq(Nat)
        /\ u[1] = 4 /\ v[Len(v)] = 5
        /\ u # <<>> /\ v # <<>>
    <3>1. \A i \in Nat : /\ <<i>> \in Seq(Nat) /\ <<i>>[1] = i /\ <<i>> # <<>>
                         /\ <<i>>[Len(<<i>>)] = i
      OBVIOUS
    <3>2. w \in Seq(Nat)
      OBVIOUS
    <3>3. 4 \in Nat /\ 5 \in Nat
      OBVIOUS
    <3> QED BY <3>1, <3>2, <3>3, Zenon
  <2>5. x \in Seq(Char) /\ y \in Seq(Char)
    BY LossyType, LenProperties
  <2>6. "fffd" \in Char /\ "dash" \in Char /\ encode_utf8["dash"] = w
    BY <2>1 DEF Char, encode_utf8
  <2>7. from_utf8_lossy(u) = h /\ from_utf8_lossy(v) = h
    BY <2>1, LossyHalf
  <2>8. from_utf8_lossy(w \o q) = d \o y
    BY <2>6, LossyChar
  <2>9. (w \o q)[1] = 4 /\ w \o q \in Seq(Nat)
    <3>1. Len(w) = 2 /\ w[1] = 4
      OBVIOUS
    <3>2. Len(q) \in Nat
      BY LenProperties
    <3> HIDE DEF w
    <3>3. 1 \in 1..(Len(w) + Len(q)) /\ 1 <= Len(w)
      BY <3>1, <3>2
    <3> QED BY <2>4, <3>1, <3>3, ConcatProperties
  <2> HIDE DEF u, v, w, h, d
  <2>10. a \o b = p \o (w \o q)
    <3>1. a = p \o u /\ b = v \o q
      BY <2>2, <2>3 DEF u, v
    <3>2. (p \o u) \o (v \o q) = p \o (w \o q)
      BY DashHalves DEF u, v, w
    <3> QED BY <3>1, <3>2
  <2>11. from_utf8_lossy(a \o b) = x \o (d \o y)
    <3>1. WholeAt(p, w \o q)
      BY <2>9 DEF WholeAt
    <3> QED BY <2>8, <2>9, <2>10, <3>1, LossySplice
  <2>12. from_utf8_lossy(a) = x \o h
    <3>1. WholeAt(p, u)
      BY <2>4 DEF WholeAt
    <3>2. from_utf8_lossy(p \o u) = x \o h
      BY <2>4, <2>7, <3>1, LossySplice
    <3> QED BY <2>2, <3>2 DEF u
  <2>13. from_utf8_lossy(b) = h \o y
    <3>1. WholeAt(v, q)
      BY <2>4 DEF WholeAt
    <3>2. from_utf8_lossy(v \o q) = from_utf8_lossy(v) \o from_utf8_lossy(q)
      BY <2>4, <3>1, LossySplice
    <3> QED BY <2>3, <2>7, <3>2 DEF v
  <2> HIDE DEF x, y
  <2>14. /\ h \in Seq(Char) /\ StartsLine(h) /\ h[1] = "fffd" /\ h # <<>> /\ h[Len(h)] = "fffd"
         /\ d \in Seq(Char) /\ d[Len(d)] = "dash" /\ d # <<>>
    BY <2>6, StartsOne DEF h, d
  <2>15. d \o y \in Seq(Char) /\ h \o y \in Seq(Char) /\ x \o h \in Seq(Char)
    BY <2>5, <2>14, ConcatProperties
  <2>16. StartsLine(x) /\ StartsLine(d \o y)
    BY <2>5, <2>11, <2>15, StartsParts
  <2>17. StartsLine(y) /\ (y = <<>> \/ y[1] # "mark")
    BY <2>5, <2>14, <2>16, StartsParts
  <2>18. StartsLine(x \o h)
    BY <2>5, <2>14, <2>16, StartsJoin
  <2>19. StartsLine(h \o y)
    BY <2>5, <2>14, <2>17, StartsJoin
  <2>20. (h \o y)[1] # "mark"
    <3>1. Len(h) \in Nat /\ Len(h) # 0
      BY <2>14, EmptySeq, LenProperties
    <3>2. 1 \in 1..Len(h)
      BY <3>1
    <3> QED BY <2>5, <2>14, <3>2, ConcatChars
  <2> QED BY <2>12, <2>13, <2>15, <2>18, <2>19, <2>20, StartsJoin
<1> QED BY <1>1, <1>2

LEMMA LinePrefix ==
  ASSUME NEW a \in Seq(Nat), NEW b \in Seq(Nat), StartsLine(from_utf8_lossy(a \o b))
  PROVE  StartsLine(from_utf8_lossy(a))
<1>1. from_utf8_lossy(a) \in Seq(Char) /\ from_utf8_lossy(b) \in Seq(Char)
  BY LossyType, LenProperties
<1> QED BY <1>1, LineSplit, StartsParts

-----------------------------------------------------------------------------
(***************************************************************************)
(* A torn write can bring back any text whose checksum the sector still    *)
(* carries, so what has to start on a line of its own is every text with   *)
(* that checksum, behind the sealed sectors.  On a scroll that is taken    *)
(* for an empty one the separator has no newline of its own: then there    *)
(* must be no text before it.                                              *)
(***************************************************************************)
LineOf(d, i, q) == StartsLine(from_utf8_lossy(HeldOf(d, 0, i, q)))

CrcLine ==
  \A i \in LBA : \A q \in Text :
    /\ \A j \in LBA : j < i => isFull(disk[j], j)
    /\ disk[i].crc = crc32(q)
    => LineOf(disk, i, q)

HeldLine == Live => LineOf(disk, sealed, tail \o todo)

RamLine == StartsLine(from_utf8_lossy(PayloadsOf(disk, 0, pending.end)) \o text)

EmptyInv ==
  Running /\ text = <<>> =>
    pc = "idle" /\ pending.end = 0 /\ HeldOf(disk, 0, sealed, tail) = <<>>

LineInv == SceneInv /\ CrcLine /\ HeldLine /\ RamLine /\ EmptyInv

LEMMA StartsEmpty == StartsLine(<<>>)
<1>1. \A i \in 2..0 : FALSE
  OBVIOUS
<1>2. Len(<<>>) = 0
  OBVIOUS
<1> QED BY <1>1, <1>2 DEF StartsLine

\* Whatever a reader takes off the disk, from the first sector on.
LEMMA ReadLine ==
  ASSUME TextInv, CrcLine, NEW v \in 0..TOTAL_SECTORS, \A i \in 0..(v - 1) : decodes(disk[i], i)
  PROVE  /\ StartsLine(from_utf8_lossy(PayloadsOf(disk, 0, v)))
         /\ \A i \in LBA : i < v - 1 => isFull(disk[i], i)
<1>1. v \in Nat /\ \A i \in 0..(v - 1) : i \in LBA
  BY SectorsAssumption DEF LBA
<1>2. CASE v = 0
  <2>1. PayloadsOf(disk, 0, v) = <<>>
    BY <1>2, PayloadsNone
  <2>2. \A i \in LBA : ~(i < v - 1)
    BY <1>2, SectorsAssumption DEF LBA
  <2> QED BY <2>1, <2>2, LossyEmpty, StartsEmpty
<1>3. CASE v # 0
  <2> DEFINE k == v - 1
             q == payload(disk[k])
  <2>1. k \in Nat /\ k \in 0..(v - 1) /\ k + 1 = v /\ 0 \in Nat /\ 0 <= k
    BY <1>1, <1>3
  <2>2. k \in LBA /\ decodes(disk[k], k)
    BY <1>1, <2>1
  <2>3. q \in Text /\ disk[k].crc = crc32(q)
    BY <2>2, DecodedIsText DEF TextInv, CoreInv, decodes
  <2>4. PICK f \in 0..TOTAL_SECTORS : Frontier(f)
    BY DEF TextInv, IInv, DiskInv
  <2>5. ~(k > f)
    BY <2>2, <2>4, ZeroedFacts DEF Frontier
  <2>6. \A j \in LBA : j < k => j < f
    BY <2>1, <2>5, SectorsAssumption DEF LBA
  <2>7. \A j \in LBA : j < k => isFull(disk[j], j)
    BY <2>4, <2>6 DEF Frontier
  <2>8. PayloadsOf(disk, 0, v) = HeldOf(disk, 0, k, q)
    BY <2>1, PayloadsNext DEF HeldOf
  <2> HIDE DEF q
  <2>9. LineOf(disk, k, q)
    BY <2>2, <2>3, <2>7 DEF CrcLine
  <2> QED BY <2>7, <2>8, <2>9 DEF LineOf
<1> QED BY <1>2, <1>3

\* One sector write, complete or cut short.
LEMMA WriteLine ==
  ASSUME SceneInv, CrcLine, HeldLine, Writing, NEW cut \in Cut,
         disk' = [disk EXCEPT ![sealed] = torn(disk[sealed], NewSector, cut)]
  PROVE  CrcLine'
<1>1. /\ sealed \in LBA /\ sealed \in Nat
      /\ disk \in [LBA -> Sector] /\ disk' \in [LBA -> Sector]
      /\ \A i \in LBA : i # sealed => disk'[i] = disk[i]
      /\ \A i \in LBA : i > sealed => disk'[i] = Zeroed
      /\ InkInv'
  <2>1. IInv /\ CoreInv
    BY DEF SceneInv, TextInv
  <2>2. /\ sealed \in LBA /\ disk' \in [LBA -> Sector] /\ InkInv'
        /\ \A i \in LBA : i > sealed => disk'[i] = Zeroed
    BY <2>1, WriteStep
  <2>3. \A i \in LBA : i # sealed => disk'[i] = disk[i]
    BY <2>1, WrittenCore
  <2>4. disk \in [LBA -> Sector] /\ sealed \in Nat
    BY <2>1, SectorsAssumption DEF IInv, TypeOK
  <2> QED BY <2>2, <2>3, <2>4
<1>2. Live
  <2>1. sealed # TOTAL_SECTORS
    BY <1>1, SectorsAssumption DEF LBA
  <2> QED BY <2>1 DEF Live, Writing, Running, Appending, SceneInv, TextInv, IInv, TailInv
<1>3. /\ tail \in Seq(Byte) /\ todo \in Seq(Byte) /\ Len(tail) <= PAYLOAD_CAPACITY
      /\ PayloadsOf(disk, 0, sealed) \in Seq(Byte)
  <2>1. 0 \in 0..sealed
    BY <1>1
  <2> QED BY <1>2, <2>1, HeldType DEF SceneInv, TextInv, IInv, TypeOK
<1>4. \A k \in LBA : k \in Nat
  BY DEF LBA
<1>5. ASSUME NEW i \in LBA, i <= sealed, NEW q
      PROVE  HeldOf(disk', 0, i, q) = HeldOf(disk, 0, i, q)
  <2>1. i \in Nat /\ 0 \in Nat /\ 0 <= i /\ \A k \in 0..(i - 1) : k \in LBA /\ k # sealed
    BY <1>1, <1>5, SectorsAssumption DEF LBA
  <2>2. PICK d, e : d = disk' /\ e = disk
    OBVIOUS
  <2>3. \A k \in 0..(i - 1) : d[k] = e[k]
    BY <1>1, <2>1, <2>2
  <2>4. PayloadsOf(d, 0, i) = PayloadsOf(e, 0, i)
    BY <2>1, <2>3, PayloadsAgree
  <2> QED BY <2>2, <2>4 DEF HeldOf
<1>6. ASSUME NEW i \in LBA, i <= sealed, NEW q \in Text,
             \A j \in LBA : j < i => isFull(disk'[j], j), disk'[i].crc = crc32(q)
      PROVE  LineOf(disk', i, q)
  <2>1. \A j \in LBA : j < i => isFull(disk[j], j)
    <3>1. \A j \in LBA : j < i => j # sealed
      BY <1>1, <1>4, <1>6
    <3> QED BY <1>1, <1>6, <3>1
  <2>2. CASE disk[i].crc = crc32(q)
    BY <1>5, <1>6, <2>1, <2>2 DEF CrcLine, LineOf
  <2>3. CASE disk[i].crc # crc32(q)
    <3>1. i = sealed /\ disk'[i] = torn(disk[i], NewSector, cut)
      BY <1>1, <1>6, <2>3
    <3>2. q \in Payload /\ tail \in Payload
      BY <1>3, TextIsPayload DEF Text
    <3>3. crc32(q) # GarbledCrc
      <4>1. crc32(q) \in Nat
        BY <3>2, CrcType
      <4> QED BY <4>1 DEF GarbledCrc
    <3>4. crc32(tail) = crc32(q)
      BY <1>6, <2>3, <3>1, <3>3 DEF torn, NewSector, encode
    <3>5. q = tail
      BY <3>2, <3>4, CrcInjective
    <3>6. LineOf(disk, sealed, tail)
      <4> DEFINE p == PayloadsOf(disk, 0, sealed)
      <4>1. StartsLine(from_utf8_lossy(p \o (tail \o todo)))
        BY <1>2 DEF HeldLine, LineOf, HeldOf
      <4>2. p \o (tail \o todo) = (p \o tail) \o todo
        BY <1>3, AssociativeByte
      <4>3. p \o tail \in Seq(Nat) /\ todo \in Seq(Nat)
        BY <1>3, ByteIsNat, ConcatProperties
      <4> HIDE DEF p
      <4>4. StartsLine(from_utf8_lossy(p \o tail))
        BY <4>1, <4>2, <4>3, LinePrefix
      <4> QED BY <4>4 DEF LineOf, HeldOf, p
    <3> QED BY <1>5, <1>6, <3>1, <3>5, <3>6 DEF LineOf
  <2> QED BY <2>2, <2>3
<1>7. ASSUME NEW i \in LBA, i > sealed, NEW q \in Text,
             \A j \in LBA : j < i => isFull(disk'[j], j), disk'[i].crc = crc32(q)
      PROVE  LineOf(disk', i, q)
  <2> DEFINE t == payload(disk'[sealed])
  <2>1. i = sealed + 1
    <3>1. CASE i > sealed + 1
      <4>1. sealed + 1 \in LBA /\ sealed + 1 > sealed /\ sealed + 1 < i
        BY <1>1, <1>4, <3>1, SectorsAssumption DEF LBA
      <4> QED BY <1>1, <1>7, <4>1, ZeroedFacts DEF isFull
    <3> QED BY <1>1, <1>4, <1>7, <3>1
  <2>2. q = <<>>
    <3>1. disk'[i].crc = 0
      BY <1>1, <1>7 DEF Zeroed
    <3>2. q \in Payload /\ <<>> \in Payload
      <4>1. <<>> \in Seq(Byte) /\ Len(<<>>) <= PAYLOAD_CAPACITY
        BY CapacityAssumption, EmptySeq
      <4> QED BY <4>1, TextIsPayload DEF Text
    <3> QED BY <1>7, <3>1, <3>2, CrcAssumption
  <2>3. decodes(disk'[sealed], sealed) /\ sealed < i
    BY <1>1, <1>7 DEF isFull
  <2>4. t \in Text /\ disk'[sealed].crc = crc32(t)
    <3>1. PICK d : d = disk'
      OBVIOUS
    <3>2. d[sealed] \in Sector /\ d[sealed].length <= PAYLOAD_CAPACITY
      BY <1>1, <2>3, <3>1 DEF decodes
    <3>3. payload(d[sealed]) \in Payload
      BY <3>2, DecodedIsPayload
    <3>4. crc32(t) \in Nat /\ disk'[sealed].crc = crc32(t) /\ t \in Payload
      BY <2>3, <3>1, <3>3, CrcType DEF decodes
    <3>5. disk'[sealed].crc # GarbledCrc
      BY <3>4 DEF GarbledCrc
    <3>6. PICK u \in Text : disk'[sealed].crc = crc32(u)
      BY <1>1, <3>5 DEF InkInv
    <3>7. u \in Payload
      BY TextIsPayload DEF Text
    <3>8. t = u
      BY <3>4, <3>6, <3>7, CrcInjective
    <3> QED BY <3>4, <3>8
  <2>5. \A j \in LBA : j < sealed => isFull(disk'[j], j)
    <3>1. \A j \in LBA : j < sealed => j < i
      BY <1>1, <1>4, <1>7
    <3> QED BY <1>7, <3>1
  <2>6. sealed <= sealed
    BY <1>1
  <2> HIDE DEF t
  <2>7. LineOf(disk', sealed, t)
    BY <1>1, <1>6, <2>4, <2>5, <2>6
  <2>8. HeldOf(disk', 0, i, q) = HeldOf(disk', 0, sealed, t)
    <3>1. PayloadsOf(disk', 0, sealed + 1) = PayloadsOf(disk', 0, sealed) \o t
      <4>1. 0 \in Nat /\ 0 <= sealed
        BY <1>1
      <4> QED BY <1>1, <4>1, PayloadsNext DEF t
    <3>2. PayloadsOf(disk', 0, sealed) = PayloadsOf(disk, 0, sealed)
      <4>1. 0 \in Nat /\ 0 <= sealed /\ \A k \in 0..(sealed - 1) : k \in LBA /\ k # sealed
        BY <1>1, SectorsAssumption DEF LBA
      <4>2. \A k \in 0..(sealed - 1) : disk'[k] = disk[k]
        BY <1>1, <4>1
      <4>3. sealed \in Nat
        BY <1>1
      <4> DEFINE e == disk'
                 d == disk
      <4>4. \A k \in 0..(sealed - 1) : e[k] = d[k]
        BY <4>2
      <4> HIDE DEF d, e
      <4>5. PayloadsOf(e, 0, sealed) = PayloadsOf(d, 0, sealed)
        BY <4>1, <4>3, <4>4, PayloadsAgree
      <4> QED BY <4>5 DEF d, e
    <3>3. PayloadsOf(disk', 0, sealed) \o t \in Seq(Byte)
      BY <1>3, <2>4, <3>2, ConcatProperties DEF Text
    <3> QED BY <2>1, <2>2, <3>1, <3>3, ConcatEmptySeq DEF HeldOf
  <2> QED BY <2>7, <2>8 DEF LineOf
<1>8. \A i \in LBA : i <= sealed \/ i > sealed
  BY <1>1, <1>4
<1> QED BY <1>6, <1>7, <1>8 DEF CrcLine

\* Text that is appended, in RAM and on its way to the disk.
LEMMA AppendLine ==
  ASSUME LineInv, NEW s \in Seq(Char), s # <<>>, StartsLine(s), s[1] = "mark" => text = <<>>,
         append_str(s), UNCHANGED pending
  PROVE  HeldLine' /\ RamLine' /\ EmptyInv'
<1>1. /\ pc = "idle" /\ ~full /\ pc' = "ink" /\ todo' = as_bytes(s)
      /\ text' = text \o s
      /\ UNCHANGED <<disk, sealed, tail, full, trouble, pending>>
  BY DEF append_str, AppendRaw
<1>2. SceneInv /\ text \in Seq(Char)
  BY DEF LineInv, SceneInv
<1>3. text = <<>> => pending.end = 0 /\ HeldOf(disk, 0, sealed, tail) = <<>>
  BY <1>1 DEF LineInv, EmptyInv, Running
<1>4. RamLine'
  <2> DEFINE p == PayloadsOf(disk, 0, pending.end)
             x == from_utf8_lossy(p)
  <2>1. StartsLine(x \o text)
    BY DEF LineInv, RamLine
  <2>2. p \in Seq(Byte)
    <3>1. /\ pending.end \in Nat /\ 0 \in Nat /\ 0 <= pending.end
          /\ \A i \in 0..(pending.end - 1) : i \in LBA /\ i < pending.end
      BY <1>2, SectorsAssumption DEF SceneInv, TextInv, LoaderInv, LBA
    <3>2. \A i \in 0..(pending.end - 1) : payload(disk[i]) \in Seq(Byte)
      BY <1>2, <3>1, FullIsText DEF SceneInv, TextInv, LoaderInv
    <3> QED BY <3>1, <3>2, PayloadsType
  <2>3. x \in Seq(Char)
    BY <2>2, LossyType, LenProperties
  <2>4. text = <<>> => x = <<>>
    <3>1. text = <<>> => p = <<>>
      BY <1>3, PayloadsNone
    <3> QED BY <3>1, LossyEmpty
  <2> HIDE DEF x
  <2>5. x \o text \in Seq(Char)
    BY <1>2, <2>3, ConcatProperties
  <2>6. text = <<>> => x \o text = <<>>
    BY <2>3, <2>4, ConcatEmptySeq
  <2>7. StartsLine((x \o text) \o s)
    BY <2>1, <2>5, <2>6, StartsJoin
  <2>8. (x \o text) \o s = x \o (text \o s)
    <3>1. x \in Seq(Char) /\ text \in Seq(Char)
      BY <1>2, <2>3
    <3>2. \A c \in Seq(Char) : (x \o text) \o c = x \o (text \o c)
      BY ONLY <3>1, Associative
    <3> QED BY ONLY <3>2, s \in Seq(Char), Zenon
  <2>9. StartsLine(x \o (text \o s))
    BY <2>7, <2>8
  <2> QED BY <1>1, <2>9 DEF RamLine, x
<1>5. HeldLine'
  <2> SUFFICES ASSUME Live' PROVE LineOf(disk', sealed', tail' \o todo')
    BY DEF HeldLine
  <2> DEFINE p == PayloadsOf(disk, 0, sealed)
             b == as_bytes(s)
             x == from_utf8_lossy(p \o tail)
  <2>1. Live
    BY <1>1 DEF Live, Running, Appending
  <2>2. p \in Seq(Byte) /\ tail \in Seq(Byte) /\ todo \in Seq(Byte)
    <3>1. 0 \in 0..sealed
      BY <1>2, <2>1, HeldType
    <3> QED BY <1>2, <2>1, <3>1, HeldType
  <2>3. b \in Seq(Byte)
    BY Utf8IsByte
  <2>4. todo = <<>>
    BY <1>1, <1>2 DEF SceneInv, SettledInv
  <2>5. StartsLine(from_utf8_lossy(p \o (tail \o todo)))
    BY <2>1 DEF LineInv, HeldLine, LineOf, HeldOf
  <2>6. text = <<>> => p \o tail = <<>>
    BY <1>3 DEF HeldOf
  <2> HIDE DEF p
  <2>7. StartsLine(x)
    BY <2>2, <2>4, <2>5, ConcatEmptySeq
  <2>8. p \o tail \in Seq(Nat)
    BY <2>2, ByteIsNat, ConcatProperties
  <2>9. x \in Seq(Char)
    BY <2>8, LossyType, LenProperties
  <2>10. text = <<>> => x = <<>>
    BY <2>6, LossyEmpty
  <2>11. from_utf8_lossy((p \o tail) \o b) = x \o s
    BY <2>8, LossyAppend
  <2>12. (p \o tail) \o b = p \o (tail \o b)
    <3>1. \A c \in Seq(Byte) : (p \o tail) \o c = p \o (tail \o c)
      BY ONLY <2>2, AssociativeByte
    <3> QED BY ONLY <3>1, <2>3, Zenon
  <2> HIDE DEF x
  <2>13. StartsLine(x \o s)
    BY <2>7, <2>9, <2>10, StartsJoin
  <2> QED BY <1>1, <2>11, <2>12, <2>13 DEF LineOf, HeldOf, p
<1>6. EmptyInv'
  <2>1. text \o s # <<>>
    BY <1>2, ConcatSimplifications
  <2> QED BY <1>1, <2>1 DEF EmptyInv
<1> QED BY <1>4, <1>5, <1>6

LEMMA SeparatorLine ==
  ASSUME NEW s
  PROVE  /\ separator(s) # <<>> /\ StartsLine(separator(s))
         /\ separator(s)[1] = "mark" => s = <<>>
<1> DEFINE m == <<"mark", "dash", "nl">>
           n == <<"nl">>
           d == <<"nl", "nl">>
<1>1. "mark" \in Char /\ "dash" \in Char /\ "nl" \in Char
  BY DEF Char, encode_utf8
<1>2. m \in Seq(Char) /\ d \in Seq(Char)
  BY <1>1
<1>3. n \in Seq(Char) /\ StartsLine(n) /\ n[1] = "nl" /\ n # <<>> /\ n[Len(n)] = "nl"
  BY <1>1, StartsOne
<1>4. StartsLine(m) /\ m # <<>>
  <2>1. Len(m) = 3 /\ m[2] = "dash" /\ m[3] = "nl" /\ m # <<>>
    OBVIOUS
  <2>2. \A i \in 2..3 : i = 2 \/ i = 3
    OBVIOUS
  <2> HIDE DEF m
  <2> QED BY <2>1, <2>2 DEF StartsLine
<1>5. StartsLine(d) /\ d # <<>> /\ d[1] = "nl" /\ d[Len(d)] = "nl"
  <2>1. Len(d) = 2 /\ d[1] = "nl" /\ d[2] = "nl" /\ d # <<>>
    OBVIOUS
  <2>2. \A i \in 2..2 : i = 2
    OBVIOUS
  <2> HIDE DEF d
  <2> QED BY <2>1, <2>2 DEF StartsLine
<1>6. separator(s) = (IF s = <<>> THEN <<>> ELSE IF s[Len(s)] = "nl" THEN n ELSE d) \o m
  BY DEF separator
<1> HIDE DEF m, n, d
<1>7. ASSUME NEW x \in Seq(Char), x # <<>>, StartsLine(x), x[1] = "nl", x[Len(x)] = "nl"
      PROVE  x \o m # <<>> /\ StartsLine(x \o m) /\ (x \o m)[1] # "mark"
  <2>1. StartsLine(x \o m)
    BY <1>2, <1>4, <1>7, StartsJoin
  <2>2. Len(x) \in Nat /\ Len(x) # 0
    BY <1>7, EmptySeq, LenProperties
  <2>3. 1 \in 1..Len(x)
    BY <2>2
  <2>4. (x \o m)[1] = x[1]
    BY <1>2, <2>3, ConcatChars
  <2>5. x \o m # <<>>
    BY <1>2, <1>7, ConcatEqualIffEmpty
  <2> QED BY <1>7, <2>1, <2>4, <2>5
<1>8. CASE s = <<>>
  <2>1. separator(s) = m
    BY <1>2, <1>6, <1>8, ConcatEmptySeq
  <2> QED BY <1>4, <1>8, <2>1
<1>9. CASE s # <<>>
  <2>1. separator(s) = n \o m \/ separator(s) = d \o m
    BY <1>6, <1>9
  <2> QED BY <1>2, <1>3, <1>5, <1>7, <2>1
<1> QED BY <1>8, <1>9

LEMMA LossyNonempty ==
  ASSUME NEW b \in Seq(Nat), b # <<>>
  PROVE  from_utf8_lossy(b) # <<>>
<1> DEFINE c == CharFound(b, 1)
           r == SubSeq(b, Onward(b, 1), Len(b))
<1>1. from_utf8_lossy(b) = <<c>> \o from_utf8_lossy(r) /\ Onward(b, 1) \in 2..(Len(b) + 1)
  BY LossyStep
<1>2. Len(b) \in Nat /\ Len(b) # 0
  BY EmptySeq, LenProperties
<1>3. c \in Char
  <2>1. 1 \in 1..Len(b)
    BY <1>2
  <2> QED BY <1>2, <2>1, FoundFacts
<1>4. Onward(b, 1) \in 1..(Len(b) + 1)
  BY <1>1, <1>2
<1>5. r \in Seq(Nat)
  BY <1>4, SuffixFacts
<1> HIDE DEF c, r
<1>6. from_utf8_lossy(r) \in Seq(Char)
  BY <1>5, LossyType, LenProperties
<1>7. <<c>> \in Seq(Char) /\ <<c>> # <<>>
  BY <1>3, StartsOne
<1> QED BY <1>1, <1>6, <1>7, ConcatEqualIffEmpty

\* Steps that leave the text alone: the history before it stays as it is too.
LEMMA KeptLine ==
  ASSUME LineInv, LogStep, UNCHANGED <<text, pending>>
  PROVE  RamLine'
<1> DEFINE end == pending.end
<1>1. /\ end \in Nat /\ 0 \in Nat /\ 0 <= end
      /\ \A i \in 0..(end - 1) : i \in LBA /\ i < end
  BY SectorsAssumption DEF LineInv, SceneInv, TextInv, LoaderInv, LBA
<1>2. \A i \in 0..(end - 1) : disk'[i] = disk[i]
  BY <1>1, FullStays DEF LineInv, SceneInv, TextInv, LoaderInv
<1> HIDE DEF end
<1>3. PICK d, e : d = disk' /\ e = disk
  OBVIOUS
<1>4. \A i \in 0..(end - 1) : d[i] = e[i]
  BY <1>2, <1>3
<1>5. PayloadsOf(d, 0, end) = PayloadsOf(e, 0, end)
  BY <1>1, <1>4, PayloadsAgree
<1>6. StartsLine(from_utf8_lossy(PayloadsOf(disk, 0, end)) \o text)
  BY DEF LineInv, RamLine, end
<1>7. end = pending'.end
  BY DEF end
<1> QED BY <1>3, <1>5, <1>6, <1>7 DEF RamLine

LEMMA DiskLine ==
  ASSUME LineInv, LogStep
  PROVE  CrcLine'
<1>1. CASE UNCHANGED disk
  BY <1>1 DEF LineInv, CrcLine, LineOf
<1>2. ASSUME NEW cut \in Cut, Writing,
             disk' = [disk EXCEPT ![sealed] = torn(disk[sealed], NewSector, cut)]
      PROVE  CrcLine'
  BY <1>2, WriteLine DEF LineInv
<1> QED BY <1>1, <1>2, CoreDiskWrites DEF LineInv, SceneInv, TextInv

LEMMA RestoreLine ==
  ASSUME LineInv, Restore, pc' = "idle", TAIL_SECTORS > 1
  PROVE  HeldLine' /\ RamLine' /\ EmptyInv'
<1> DEFINE e == FirstLoaded(lo)
           a == PayloadsOf(disk, 0, e)
           b == PayloadsOf(disk, e, lo)
<1>0. SceneInv /\ TextInv /\ CrcLine
  BY DEF LineInv, SceneInv
<1>1. /\ lo \in 0..TOTAL_SECTORS /\ lo \in Nat /\ e \in 0..lo
      /\ \A i \in 0..(lo - 1) : i \in LBA /\ decodes(disk[i], i)
      /\ disk' = disk /\ todo' = <<>>
      /\ pending'.end = e /\ text' = from_utf8_lossy(b)
      /\ \A k \in 0..lo : PayloadsOf(disk, k, lo) \in Seq(Byte)
      /\ \A k \in 0..e : /\ HeldOf(disk, k, sealed', tail') = PayloadsOf(disk, k, lo)
                         /\ HeldOf(disk, k, sealed', tail' \o todo') = PayloadsOf(disk, k, lo)
  BY <1>0, RestoreHeld
<1>2. lo > 1 => e <= lo - 2
  BY <1>1, SectorsAssumption DEF FirstLoaded
<1>3. lo <= 1 => e = 0
  BY <1>1, SectorsAssumption DEF FirstLoaded
<1> HIDE DEF e
<1>4. /\ StartsLine(from_utf8_lossy(PayloadsOf(disk, 0, lo)))
      /\ \A i \in LBA : i < lo - 1 => isFull(disk[i], i)
  BY <1>0, <1>1, ReadLine
<1>5. 0 \in 0..e /\ 0 \in 0..lo /\ e \in Nat /\ e <= lo /\ 0 \in Nat /\ 0 <= e
  BY <1>1
<1>6. \A i \in 0..(lo - 1) : payload(disk[i]) \in Seq(Byte)
  BY <1>0, <1>1, DecodedIsText DEF TextInv, CoreInv, Text
<1>7. a \in Seq(Byte) /\ b \in Seq(Byte)
  <2>1. \A i \in 0..(e - 1) : i \in 0..(lo - 1)
    BY <1>1, <1>5
  <2>2. a \in Seq(Byte)
    BY <1>5, <1>6, <2>1, PayloadsType
  <2> QED BY <1>1, <2>2
<1>8. a \o b = PayloadsOf(disk, 0, lo)
  BY <1>1, <1>5, <1>6, PayloadsSplit
<1>9. HeldLine'
  BY <1>1, <1>4, <1>5 DEF HeldLine, LineOf
<1> HIDE DEF a, b
<1>10. RamLine'
  <2>1. a \in Seq(Nat) /\ b \in Seq(Nat)
    BY <1>7, ByteIsNat
  <2>2. StartsLine(from_utf8_lossy(a) \o from_utf8_lossy(b))
    BY <1>4, <1>8, <2>1, LineSplit
  <2> QED BY <1>1, <2>2 DEF RamLine, a
<1>11. ASSUME text' = <<>> PROVE pending'.end = 0 /\ HeldOf(disk', 0, sealed', tail') = <<>>
  <2>1. b = <<>>
    BY <1>1, <1>7, <1>11, ByteIsNat, LossyNonempty
  <2>2. lo <= 1
    <3> SUFFICES ASSUME lo > 1 PROVE FALSE
      BY <1>1
    <3> DEFINE k == lo - 2
               p == payload(disk[k])
               x == PayloadsOf(disk, e, k)
               y == PayloadsOf(disk, k + 1, lo)
    <3>1. /\ k \in Nat /\ k \in 0..(lo - 1) /\ k < lo - 1 /\ e <= k
          /\ k + 1 \in Nat /\ e <= k + 1 /\ k + 1 <= lo /\ k + 1 \in 0..lo
          /\ \A i \in e..(lo - 1) : i \in 0..(lo - 1)
          /\ \A i \in e..(k - 1) : i \in 0..(lo - 1)
      BY <1>1, <1>2, <1>5
    <3>2. isFull(disk[k], k) /\ k \in LBA
      BY <1>1, <1>4, <3>1
    <3>3. p \in Seq(Byte) /\ y \in Seq(Byte)
      BY <1>1, <1>6, <3>1
    <3>4. x \in Seq(Byte)
      BY <1>5, <1>6, <3>1, PayloadsType
    <3>5. p # <<>>
      <4>1. disk[k].length = PAYLOAD_CAPACITY
        BY <3>2 DEF isFull
      <4>2. Len(p) = PAYLOAD_CAPACITY
        BY <4>1, CapacityAssumption DEF payload
      <4> QED BY <4>2, CapacityAssumption, EmptySeq
    <3>6. PayloadsOf(disk, e, k + 1) = x \o p
      BY <1>5, <3>1, PayloadsNext
    <3>7. PayloadsOf(disk, e, k + 1) \o y = b
      <4>1. e \in Nat /\ lo \in Nat
        BY <1>1, <1>5
      <4>2. \A i \in e..(lo - 1) : payload(disk[i]) \in Seq(Byte)
        BY <1>6, <3>1
      <4> HIDE DEF e, k
      <4> QED BY <3>1, <4>1, <4>2, PayloadsSplit DEF b, y
    <3> HIDE DEF p, x, y
    <3>8. x \o p \in Seq(Byte)
      BY <3>3, <3>4, ConcatProperties
    <3>9. x \o p = <<>>
      BY <2>1, <3>3, <3>6, <3>7, <3>8, ConcatEqualIffEmpty
    <3> QED BY <3>3, <3>4, <3>5, <3>9, ConcatEqualIffEmpty
  <2>3. e = 0
    BY <1>3, <2>2
  <2> QED BY <1>1, <1>5, <2>1, <2>3 DEF b
<1>12. EmptyInv'
  BY <1>11 DEF EmptyInv
<1> QED BY <1>9, <1>10, <1>12

LEMMA PumpLine ==
  ASSUME LineInv, pump, TakeChunk
  PROVE  CrcLine' /\ HeldLine' /\ RamLine' /\ EmptyInv'
<1> DEFINE next == pending.cursor + ChunkSize
<1>1. /\ pc = "idle" /\ ~fully_loaded
      /\ UNCHANGED <<disk, pc, sealed, tail, full, trouble, todo>>
  BY DEF pump, vars, ram
<1>2. /\ next \in Nat
      /\ PayloadsOf(disk, 0, next) \in Seq(Byte)
      /\ \/ /\ pending' = [pending EXCEPT !.prefix = PayloadsOf(disk, 0, next), !.cursor = next]
            /\ UNCHANGED text
         \/ /\ next = pending.end
            /\ text' = from_utf8_lossy(PayloadsOf(disk, 0, next) \o as_bytes(text))
            /\ pending' = None
  BY PumpStep DEF LineInv, SceneInv
<1> HIDE DEF next
<1>3. CrcLine' /\ HeldLine'
  BY <1>1 DEF LineInv, CrcLine, HeldLine, LineOf, Live, Running, Appending
<1>4. CASE /\ pending' = [pending EXCEPT !.prefix = PayloadsOf(disk, 0, next), !.cursor = next]
           /\ UNCHANGED text
  <2>1. pending'.end = pending.end
    BY <1>4 DEF LineInv, SceneInv, TextInv, LoaderInv
  <2> QED BY <1>1, <1>3, <1>4, <2>1 DEF LineInv, RamLine, EmptyInv, Running, Appending
<1>5. CASE /\ next = pending.end
           /\ text' = from_utf8_lossy(PayloadsOf(disk, 0, next) \o as_bytes(text))
           /\ pending' = None
  <2> DEFINE p == PayloadsOf(disk, 0, pending.end)
             x == from_utf8_lossy(p)
  <2>1. p \in Seq(Byte) /\ p \in Seq(Nat) /\ text \in Seq(Char)
    BY <1>2, <1>5, ByteIsNat DEF LineInv, SceneInv
  <2>2. text' = x \o text
    BY <1>5, <2>1, LossyAppend
  <2>3. x \in Seq(Char)
    BY <2>1, LossyType, LenProperties
  <2>4. StartsLine(x \o text)
    BY DEF LineInv, RamLine
  <2>5. pending'.end = 0
    BY <1>5 DEF None
  <2> HIDE DEF x
  <2>6. RamLine'
    <3>1. from_utf8_lossy(PayloadsOf(disk', 0, pending'.end)) = <<>>
      BY <1>1, <2>5, PayloadsNone, LossyEmpty
    <3>2. x \o text \in Seq(Char)
      BY <2>1, <2>3, ConcatProperties
    <3>3. <<>> \o (x \o text) = x \o text
      BY <3>2, ConcatEmptySeq
    <3> QED BY <2>2, <2>4, <3>1, <3>3 DEF RamLine
  <2>7. EmptyInv'
    <3>1. x \o text = <<>> => text = <<>>
      BY <2>1, <2>3, ConcatSimplifications
    <3>2. text' = <<>> => text = <<>>
      BY <2>2, <3>1
    <3> QED BY <1>1, <2>5, <3>2 DEF LineInv, EmptyInv, Running, Appending
  <2> QED BY <1>3, <2>6, <2>7
<1> QED BY <1>2, <1>4, <1>5

LEMMA LineInitInv == TextInit => LineInv
<1> SUFFICES ASSUME TextInit PROVE LineInv
  OBVIOUS
<1>1. SceneInv
  BY LiveInitInv DEF LiveInv
<1>2. /\ disk = [i \in LBA |-> Zeroed] /\ pc = "off" /\ text = <<>> /\ pending.end = 0
  BY DEF TextInit, Init, None
<1>3. HeldLine /\ EmptyInv
  BY <1>2 DEF HeldLine, EmptyInv, Live, Running, Appending
<1>4. RamLine
  <2>1. from_utf8_lossy(PayloadsOf(disk, 0, pending.end)) = <<>>
    BY <1>2, PayloadsNone, LossyEmpty
  <2>2. <<>> \o <<>> = <<>>
    OBVIOUS
  <2> QED BY <1>2, <2>1, <2>2, StartsEmpty DEF RamLine
<1>5. CrcLine
  <2> SUFFICES ASSUME NEW i \in LBA, NEW q \in Text,
                      \A j \in LBA : j < i => isFull(disk[j], j), disk[i].crc = crc32(q)
               PROVE  LineOf(disk, i, q)
    BY DEF CrcLine
  <2>1. i = 0
    <3>1. i # 0 => 0 \in LBA /\ 0 < i
      BY SectorsAssumption DEF LBA
    <3> QED BY <1>2, <3>1, ZeroedFacts DEF isFull
  <2>2. q = <<>>
    <3>1. disk[i].crc = 0
      BY <1>2 DEF Zeroed
    <3>2. q \in Payload /\ <<>> \in Payload
      <4>1. <<>> \in Seq(Byte) /\ Len(<<>>) <= PAYLOAD_CAPACITY
        BY CapacityAssumption, EmptySeq
      <4> QED BY <4>1, TextIsPayload DEF Text
    <3> QED BY <3>1, <3>2, CrcAssumption
  <2>3. HeldOf(disk, 0, i, q) = <<>>
    <3>1. <<>> \o <<>> = <<>>
      OBVIOUS
    <3> QED BY <2>1, <2>2, <3>1, PayloadsNone DEF HeldOf
  <2> QED BY <2>3, LossyEmpty, StartsEmpty DEF LineOf
<1> QED BY <1>1, <1>3, <1>4, <1>5 DEF LineInv

LEMMA LineNextInv == TAIL_SECTORS > 1 /\ LineInv /\ [TextNext]_textVars => LineInv'
<1> DEFINE Goal == HeldLine' /\ RamLine' /\ EmptyInv'
<1> SUFFICES ASSUME TAIL_SECTORS > 1, LineInv, [TextNext]_textVars PROVE CrcLine' /\ Goal
  BY SceneNextInv DEF LineInv
<1>1. LogStep /\ CrcLine'
  BY TextIsLogStep, DiskLine
<1> SUFFICES Goal
  BY <1>1
<1>2. ASSUME NEW s \in Seq(Char), s # <<>>, StartsLine(s), s[1] = "mark" => text = <<>>,
             append_str(s), UNCHANGED pending
      PROVE  Goal
  BY <1>2, AppendLine
<1>3. CASE UNCHANGED <<vars, text, pending>>
  <2>1. UNCHANGED <<disk, pc, sealed, tail, full, trouble, todo, text, pending>>
    BY <1>3 DEF vars, ram
  <2>2. HeldLine'
    BY <2>1 DEF LineInv, HeldLine, LineOf, Live, Running, Appending
  <2>3. EmptyInv'
    BY <2>1 DEF LineInv, EmptyInv, Running, Appending
  <2> QED BY <1>1, <2>1, <2>2, <2>3, KeptLine
<1>4. CASE DiskStep
  <2>1. text' = text /\ pending' = pending
    BY <1>4 DEF DiskStep
  <2>2. RamLine'
    BY <1>1, <2>1, KeptLine
  <2>3. CASE PowerOn \/ Probe \/ LoadError
    <3>1. pc' \in {"search", "panic"}
      BY <2>3 DEF PowerOn, Probe, LoadError, ram
    <3> QED BY <2>2, <3>1 DEF HeldLine, EmptyInv, Live, Running, Appending
  <2>4. CASE Ink \/ WriteSkipped \/ WriteOk \/ WriteErr
    <3>1. ASSUME Live' PROVE LineOf(disk', sealed', tail' \o todo')
      <4>1. /\ Live
            /\ \A a \in 0..sealed : HeldOf(disk', a, sealed', tail' \o todo')
                                      = HeldOf(disk, a, sealed, tail \o todo)
        BY <2>4, <3>1, HeldKept DEF LineInv
      <4>2. 0 \in 0..sealed
        BY <4>1, HeldType DEF LineInv
      <4>3. LineOf(disk, sealed, tail \o todo)
        BY <4>1 DEF LineInv, HeldLine
      <4> QED BY <4>1, <4>2, <4>3 DEF LineOf
    <3>2. Appending
      BY <2>4 DEF Ink, WriteSkipped, WriteOk, WriteErr, Writing, WriteReturns,
                  Sealed, Rewritten, Appending
    <3>3. text # <<>>
      BY <3>2 DEF LineInv, EmptyInv, Running, Appending
    <3> QED BY <2>1, <2>2, <3>1, <3>3 DEF HeldLine, EmptyInv
  <2> QED BY <1>4, <2>3, <2>4 DEF DiskStep
<1>5. CASE Restore
  <2>1. CASE pc' = "idle"
    BY <1>5, <2>1, RestoreLine
  <2>2. CASE pc' = "panic" /\ UNCHANGED <<text, pending>>
    <3>1. RamLine'
      BY <1>1, <2>2, KeptLine
    <3> QED BY <2>2, <3>1 DEF HeldLine, EmptyInv, Live, Running, Appending
  <2> QED BY <1>5, <2>1, <2>2 DEF Restore
<1>6. CASE Stamp
  <2>1. separator(text) \in Seq(Char)
    BY SeparatorType
  <2>2. /\ separator(text) # <<>> /\ StartsLine(separator(text))
        /\ separator(text)[1] = "mark" => text = <<>>
    BY SeparatorLine
  <2> QED BY <1>2, <1>3, <1>6, <2>1, <2>2 DEF Stamp
<1>7. ASSUME NEW ch \in Typed, Keystroke(ch) PROVE Goal
  <2>1. ch \in Char /\ ch # "mark"
    BY TypedChar, TypedAssumption
  <2>2. /\ <<ch>> \in Seq(Char) /\ StartsLine(<<ch>>) /\ <<ch>>[1] # "mark" /\ <<ch>> # <<>>
    BY <2>1, StartsOne
  <2> QED BY <1>2, <1>7, <2>2 DEF Keystroke
<1>8. CASE pump
  <2>1. CASE TakeChunk
    BY <1>8, <2>1, PumpLine
  <2>2. CASE ~TakeChunk
    BY <1>3, <1>8, <2>2 DEF pump
  <2> QED BY <2>1, <2>2
<1>9. CASE Blackout
  <2>1. pc' = "off" /\ text' = <<>> /\ pending'.end = 0
    BY <1>9 DEF Blackout, PowerLoss, None
  <2>2. HeldLine' /\ EmptyInv'
    BY <2>1 DEF HeldLine, EmptyInv, Live, Running, Appending
  <2>3. RamLine'
    <3>1. from_utf8_lossy(PayloadsOf(disk', 0, pending'.end)) = <<>>
      BY <2>1, PayloadsNone, LossyEmpty
    <3>2. <<>> \o <<>> = <<>>
      OBVIOUS
    <3> QED BY <2>1, <3>1, <3>2, StartsEmpty DEF RamLine
  <2> QED BY <2>2, <2>3
<1>10. CASE UNCHANGED textVars
  BY <1>3, <1>10 DEF textVars, session
<1> QED BY <1>1, <1>4, <1>5, <1>6, <1>7, <1>8, <1>9, <1>10 DEF TextNext

LEMMA LineIsRead == LineInv => MarkerStartsLine
<1> SUFFICES ASSUME LineInv PROVE MarkerStartsLine
  OBVIOUS
<1>1. StartsLine(text)
  <2> DEFINE p == PayloadsOf(disk, 0, pending.end)
             x == from_utf8_lossy(p)
  <2>1. /\ pending.end \in Nat /\ 0 \in Nat /\ 0 <= pending.end
        /\ \A i \in 0..(pending.end - 1) : i \in LBA /\ i < pending.end
    BY SectorsAssumption DEF LineInv, SceneInv, TextInv, LoaderInv, LBA
  <2>2. \A i \in 0..(pending.end - 1) : payload(disk[i]) \in Seq(Byte)
    BY <2>1, FullIsText DEF LineInv, SceneInv, TextInv, LoaderInv
  <2>3. p \in Seq(Byte)
    BY <2>1, <2>2, PayloadsType
  <2>4. x \in Seq(Char) /\ text \in Seq(Char)
    BY <2>3, LossyType, LenProperties DEF LineInv, SceneInv
  <2>5. StartsLine(x \o text)
    BY DEF LineInv, RamLine
  <2> HIDE DEF x
  <2> QED BY <2>4, <2>5, StartsParts
<1>2. StartsLine(from_utf8_lossy(payloads))
  <2>1. PICK v \in 0..TOTAL_SECTORS :
          /\ \A i \in 0..(v - 1) : decodes(disk[i], i)
          /\ payloads = PayloadsOf(disk, 0, v)
    BY ExtractReads DEF LineInv, SceneInv, TextInv
  <2> QED BY <2>1, ReadLine DEF LineInv, SceneInv
<1> QED BY <1>1, <1>2 DEF MarkerStartsLine

(* Every separator starts a line of its own, in RAM and in what extract.py *)
(* reads off the disk, whatever writes fail or are torn, wherever the      *)
(* sectors loaded at boot begin and however long the dash is.  The code    *)
(* loads 64 sectors at boot; with a single one a torn write could leave an *)
(* empty record behind a sealed sector and the scroll would look fresh.    *)
THEOREM SeparatorsStartLines == TAIL_SECTORS > 1 => (TextSpec => []MarkerStartsLine)
<1> SUFFICES ASSUME TAIL_SECTORS > 1 PROVE TextSpec => []MarkerStartsLine
  OBVIOUS
<1>1. TextInit => LineInv
  BY LineInitInv
<1>2. LineInv /\ [TextNext]_textVars => LineInv'
  BY LineNextInv
<1>3. LineInv => MarkerStartsLine
  BY LineIsRead
<1> QED BY <1>1, <1>2, <1>3, PTL DEF TextSpec
=============================================================================

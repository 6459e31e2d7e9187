-------------------------- MODULE ScrollLogProofs ---------------------------
(***************************************************************************)
(* The disk invariants of ScrollLog for every disk size, sector capacity,  *)
(* alphabet and set of appended strings.                                   *)
(***************************************************************************)
EXTENDS ScrollLog, SequenceTheorems, TLAPS

(***************************************************************************)
(* Facts about encode, decode and torn sectors, for every capacity, every  *)
(* set of bytes and every collision-free checksum.                         *)
(***************************************************************************)

\* A text that fits a sector is one of the things its payload can be read as.
LEMMA TextIsPayload ==
  ASSUME NEW p \in Seq(Byte), Len(p) <= PAYLOAD_CAPACITY
  PROVE  p \in Payload
<1>1. /\ Len(p) \in 0..PAYLOAD_CAPACITY
      /\ p \in [1..Len(p) -> Padded]
  BY CapacityAssumption DEF Padded
<1> QED BY <1>1 DEF Payload

LEMMA AreaIsPayload ==
  ASSUME NEW s \in Sector
  PROVE  s.payload \in Payload
<1>1. s.payload \in [1..PAYLOAD_CAPACITY -> Padded]
  BY DEF Sector
<1>2. PAYLOAD_CAPACITY \in 0..PAYLOAD_CAPACITY
  BY CapacityAssumption
<1> QED BY <1>1, <1>2 DEF Payload

LEMMA DecodedIsPayload ==
  ASSUME NEW s \in Sector, s.length <= PAYLOAD_CAPACITY
  PROVE  payload(s) \in Payload
<1>1. /\ s.length \in 0..PAYLOAD_CAPACITY
      /\ s.payload \in [1..PAYLOAD_CAPACITY -> Padded]
  BY CapacityAssumption DEF Sector
<1>2. payload(s) \in [1..s.length -> Padded]
  BY <1>1, CapacityAssumption DEF payload
<1> QED BY <1>1, <1>2 DEF Payload

\* Two payloads with one checksum are one payload, by CrcAssumption.
LEMMA CrcInjective ==
  ASSUME NEW p \in Payload, NEW q \in Payload, crc32(p) = crc32(q)
  PROVE  p = q
BY CrcAssumption

LEMMA CrcType ==
  ASSUME NEW p \in Payload
  PROVE  crc32(p) \in Nat
BY CrcAssumption

LEMMA EncodeType ==
  ASSUME NEW lba \in Nat, NEW p \in Seq(Byte), Len(p) <= PAYLOAD_CAPACITY
  PROVE  encode(lba, p) \in Sector
<1>1. crc32(p) \in Int
  BY TextIsPayload, CrcType
<1>2. [i \in 1..PAYLOAD_CAPACITY |-> IF i <= Len(p) THEN p[i] ELSE 0]
        \in [1..PAYLOAD_CAPACITY -> Padded]
  BY CapacityAssumption DEF Padded
<1>3. Len(p) \in Nat
  OBVIOUS
<1> QED BY <1>1, <1>2, <1>3 DEF encode, Sector

\* decode gives back what encode was given, at the LBA it was given.
THEOREM DecodeEncode ==
  ASSUME NEW lba \in Nat, NEW p \in Seq(Byte), Len(p) <= PAYLOAD_CAPACITY
  PROVE  /\ decodes(encode(lba, p), lba)
         /\ payload(encode(lba, p)) = p
<1> DEFINE s == encode(lba, p)
<1>1. /\ s.magic = TRUE
      /\ s.seq = lba
      /\ s.length = Len(p)
      /\ s.crc = crc32(p)
      /\ s.payload = [i \in 1..PAYLOAD_CAPACITY |-> IF i <= Len(p) THEN p[i] ELSE 0]
  BY DEF encode
<1>2. payload(s) = [i \in 1..Len(p) |-> p[i]]
  <2>1. \A i \in 1..Len(p) : s.payload[i] = p[i]
    BY <1>1, CapacityAssumption
  <2> HIDE DEF s
  <2> QED BY <2>1, <1>1 DEF payload
<1>3. [i \in 1..Len(p) |-> p[i]] = p
  OBVIOUS
<1> HIDE DEF s
<1>4. payload(s) = p
  BY <1>2, <1>3
<1>5. decodes(s, lba)
  BY <1>1, <1>4 DEF decodes
<1> QED BY <1>4, <1>5 DEF s

LEMMA TornType ==
  ASSUME NEW old \in Sector, NEW new \in Sector, NEW cut \in Cut
  PROVE  torn(old, new, cut) \in Sector
<1>1. [i \in 1..PAYLOAD_CAPACITY |->
          IF cut >= 5 + i THEN new.payload[i] ELSE old.payload[i]]
        \in [1..PAYLOAD_CAPACITY -> Padded]
  BY CapacityAssumption DEF Sector, Cut
<1> QED BY <1>1, CapacityAssumption DEF torn, Sector, GarbledCrc, Cut

\* A fresh sector holds no record, and its area is no checksummed full page.
LEMMA ZeroedFacts ==
  /\ Zeroed \in Sector
  /\ \A lba : ~decodes(Zeroed, lba)
  /\ Zeroed.crc # crc32(Zeroed.payload)
<1>1. Zeroed \in Sector
  BY CapacityAssumption DEF Zeroed, Sector, Padded
<1>2. \A lba : ~decodes(Zeroed, lba)
  BY DEF Zeroed, decodes
<1>3. /\ Zeroed.crc = 0
      /\ Zeroed.payload = [i \in 1..PAYLOAD_CAPACITY |-> 0]
  BY DEF Zeroed
<1>4. /\ <<>> \in Payload
      /\ crc32(<<>>) = 0
  <2>1. <<>> \in Seq(Byte) /\ Len(<<>>) <= PAYLOAD_CAPACITY
    BY CapacityAssumption
  <2>2. <<>> \in Payload
    BY <2>1, TextIsPayload
  <2> QED BY <2>2, CrcAssumption
<1>5. Zeroed.payload # <<>>
  BY <1>3, CapacityAssumption
<1>6. Zeroed.crc # crc32(Zeroed.payload)
  BY <1>1, <1>3, <1>4, <1>5, AreaIsPayload, CrcInjective
<1> QED BY <1>1, <1>2, <1>6

\* Reading a full sector is reading its whole payload area.
LEMMA FullPayload ==
  ASSUME NEW s \in Sector, s.length = PAYLOAD_CAPACITY
  PROVE  payload(s) = s.payload
BY DEF payload, Sector

\* A write of what the sector already holds changes nothing, however it ends.
LEMMA TornSame ==
  ASSUME NEW s \in Sector, NEW cut \in Cut
  PROVE  torn(s, s, cut) = s
<1>1. s.payload = [i \in 1..PAYLOAD_CAPACITY |-> s.payload[i]]
  BY DEF Sector
<1>2. torn(s, s, cut) = [magic |-> s.magic, seq |-> s.seq, length |-> s.length,
                         crc |-> s.crc, payload |-> s.payload]
  BY <1>1 DEF torn
<1> QED BY <1>2 DEF Sector

(***************************************************************************)
(* The heart of the crash argument.  Let s be a sector in which only a     *)
(* record that decodes can carry the checksum of its whole payload area,   *)
(* and suppose that, if s holds a full record, it is the very record about *)
(* to be written.  Then the same is true of what a write of encode(lba, p) *)
(* leaves behind, cut short or not, and a full record survives it.         *)
(***************************************************************************)
LEMMA TornWrite ==
  ASSUME NEW s \in Sector, NEW lba \in Nat, NEW cut \in Cut,
         NEW p \in Seq(Byte), Len(p) <= PAYLOAD_CAPACITY,
         s.crc = crc32(s.payload) => isFull(s, lba),
         isFull(s, lba) => s = encode(lba, p)
  PROVE  LET t == torn(s, encode(lba, p), cut)
         IN  /\ t \in Sector
             /\ t.crc = crc32(t.payload) => isFull(t, lba)
             /\ isFull(t, lba) => t = encode(lba, p)
             /\ isFull(s, lba) => t = s
<1> DEFINE new == encode(lba, p)
           t   == torn(s, new, cut)
<1>1. new \in Sector
  BY EncodeType
<1>2. /\ decodes(new, lba)
      /\ new.magic /\ new.seq = lba /\ new.length = Len(p) /\ new.crc = crc32(p)
      /\ new.payload = [i \in 1..PAYLOAD_CAPACITY |-> IF i <= Len(p) THEN p[i] ELSE 0]
  BY DecodeEncode DEF encode
<1>3. t \in Sector
  BY <1>1, TornType
<1>4. CASE isFull(s, lba)
  <2>1. s = new
    BY <1>4
  <2>2. t = s
    BY <2>1, TornSame
  <2> QED BY <1>3, <1>4, <2>1, <2>2
<1>5. CASE ~isFull(s, lba)
  <2>1. s.crc # crc32(s.payload)
    BY <1>5
  <2>2. isFull(t, lba) => t.crc = crc32(t.payload)
    BY <1>3, FullPayload DEF isFull, decodes
  <2>3. CASE cut < 5
    <3>1. t.payload = s.payload
      <4>1. t.payload = [i \in 1..PAYLOAD_CAPACITY |->
                           IF cut >= 5 + i THEN new.payload[i] ELSE s.payload[i]]
        BY DEF torn
      <4>2. \A i \in 1..PAYLOAD_CAPACITY : ~(cut >= 5 + i)
        BY <2>3, CapacityAssumption DEF Cut
      <4>3. s.payload = [i \in 1..PAYLOAD_CAPACITY |-> s.payload[i]]
        BY DEF Sector
      <4> HIDE DEF t, new
      <4> QED BY <4>1, <4>2, <4>3
    <3>2. t.crc \in {s.crc, GarbledCrc}
      BY <2>3 DEF torn, Cut
    <3>3. crc32(s.payload) # GarbledCrc
      BY AreaIsPayload, CrcType DEF GarbledCrc
    <3>4. t.crc # crc32(t.payload)
      BY <2>1, <3>1, <3>2, <3>3
    <3> QED BY <1>3, <1>5, <2>2, <3>4
  <2>4. CASE cut >= 5
    <3>1. t.magic /\ t.seq = lba /\ t.length = Len(p) /\ t.crc = crc32(p)
      BY <1>2, <2>4 DEF torn, Cut
    <3>2. ASSUME t.crc = crc32(t.payload)
          PROVE  isFull(t, lba) /\ t = new
      <4>1. p = t.payload
        BY <1>3, <3>1, <3>2, TextIsPayload, AreaIsPayload, CrcInjective
      <4>2. Len(p) = PAYLOAD_CAPACITY
        BY <1>3, <4>1, CapacityAssumption DEF Sector
      <4>3. new.payload = p
        BY <1>2, <4>2
      <4>4. payload(t) = t.payload
        BY <1>3, <3>1, <4>2, FullPayload
      <4>5. isFull(t, lba)
        BY <3>1, <4>1, <4>2, <4>4 DEF isFull, decodes
      <4>6. t = new
        BY <1>1, <1>2, <1>3, <3>1, <4>1, <4>3 DEF Sector
      <4> QED BY <4>5, <4>6
    <3> QED BY <1>3, <1>5, <2>2, <3>2
  <2> QED BY <2>3, <2>4 DEF Cut
<1> QED BY <1>4, <1>5

\* The last cut is the complete write.
LEMMA TornLast ==
  ASSUME NEW old \in Sector, NEW new \in Sector
  PROVE  torn(old, new, PAYLOAD_CAPACITY + 5) = new
<1>1. new.payload = [i \in 1..PAYLOAD_CAPACITY |-> new.payload[i]]
  BY DEF Sector
<1>2. torn(old, new, PAYLOAD_CAPACITY + 5) =
        [magic |-> new.magic, seq |-> new.seq, length |-> new.length,
         crc |-> new.crc, payload |-> new.payload]
  <2>1. /\ PAYLOAD_CAPACITY + 5 >= 5 /\ PAYLOAD_CAPACITY + 5 # 4
        /\ PAYLOAD_CAPACITY + 5 >= 1 /\ PAYLOAD_CAPACITY + 5 >= 2 /\ PAYLOAD_CAPACITY + 5 >= 3
        /\ \A i \in 1..PAYLOAD_CAPACITY : PAYLOAD_CAPACITY + 5 >= 5 + i
    BY CapacityAssumption
  <2> QED BY ONLY <1>1, <2>1 DEF torn
<1> QED BY <1>2 DEF Sector

-----------------------------------------------------------------------------
(***************************************************************************)
(* The inductive invariant.  ContiguousPrefix is not inductive: a torn     *)
(* sector says nothing about the next write.  What is inductive is the     *)
(* frontier f, the one sector that may hold anything.  Everything below it *)
(* is sealed, everything above it was never written.                       *)
(***************************************************************************)
Frontier(f) ==
  \A i \in LBA : /\ i < f => isFull(disk[i], i)
                 /\ i > f => disk[i] = Zeroed

\* Only a full record carries the checksum of the whole payload area.
AreaInv ==
  \A i \in LBA : disk[i].crc = crc32(disk[i].payload) => isFull(disk[i], i)

\* Every checksum on the disk is that of a text, or of nothing at all.
Text == {q \in Seq(Byte) : Len(q) <= PAYLOAD_CAPACITY}
InkInv == \A i \in LBA : disk[i].crc \in {GarbledCrc} \cup {crc32(q) : q \in Text}

DiskInv == AreaInv /\ InkInv /\ \E f \in 0..TOTAL_SECTORS : Frontier(f)

\* What the binary search has learnt.
SearchInv ==
  pc = "search" => /\ lo <= hi
                   /\ \A i \in LBA : /\ i < lo => decodes(disk[i], i)
                                     /\ i >= hi => ~decodes(disk[i], i)

\* How the RAM state fits the program counter.
TailInv ==
  /\ pc \in {"idle", "ink", "rewrite"} => Len(tail) < PAYLOAD_CAPACITY
  /\ pc = "seal" => Len(tail) = PAYLOAD_CAPACITY
  /\ Appending => sealed < TOTAL_SECTORS
  /\ Running => (full <=> sealed = TOTAL_SECTORS)

\* Until a write has failed for good, the frontier is the sector written to,
\* and it holds a full record only if the write under way put it there.
SessionInv ==
  Running /\ ~trouble =>
    /\ Frontier(sealed)
    /\ sealed \in LBA /\ isFull(disk[sealed], sealed) =>
         pc = "seal" /\ disk[sealed] = NewSector

IInv == TypeOK /\ DiskInv /\ SearchInv /\ TailInv /\ SessionInv

-----------------------------------------------------------------------------
(***************************************************************************)
(* One sector write, complete or cut short.                                *)
(***************************************************************************)
LEMMA WriteStep ==
  ASSUME IInv, Writing, NEW cut \in Cut,
         disk' = [disk EXCEPT ![sealed] = torn(disk[sealed], NewSector, cut)]
  PROVE  /\ sealed \in LBA
         /\ disk' \in [LBA -> Sector]
         /\ \A i \in LBA : disk'[i].crc = crc32(disk'[i].payload) => isFull(disk'[i], i)
         /\ InkInv'
         /\ \A i \in LBA : /\ i < sealed => isFull(disk'[i], i)
                           /\ i > sealed => disk'[i] = Zeroed
         /\ isFull(disk'[sealed], sealed) => disk'[sealed] = NewSector
         /\ \A i \in LBA : isFull(disk[i], i) => disk'[i] = disk[i]
<1> DEFINE t == torn(disk[sealed], NewSector, cut)
<1>1. /\ disk \in [LBA -> Sector]
      /\ tail \in Seq(Byte) /\ Len(tail) <= PAYLOAD_CAPACITY
      /\ Running /\ ~trouble
      /\ sealed \in LBA /\ sealed \in Nat
  BY SectorsAssumption
     DEF IInv, TypeOK, TailInv, Writing, Running, Appending, LBA
<1>2. /\ \A i \in LBA : disk[i].crc = crc32(disk[i].payload) => isFull(disk[i], i)
      /\ \A i \in LBA : /\ i < sealed => isFull(disk[i], i)
                        /\ i > sealed => disk[i] = Zeroed
      /\ isFull(disk[sealed], sealed) => disk[sealed] = NewSector
  BY <1>1 DEF IInv, DiskInv, AreaInv, SessionInv, Frontier
<1>3. /\ t \in Sector
      /\ t.crc = crc32(t.payload) => isFull(t, sealed)
      /\ isFull(t, sealed) => t = NewSector
      /\ isFull(disk[sealed], sealed) => t = disk[sealed]
  BY <1>1, <1>2, TornWrite DEF NewSector
<1> HIDE DEF t
<1>4. /\ disk' \in [LBA -> Sector]
      /\ disk'[sealed] = t
      /\ \A i \in LBA : i # sealed => disk'[i] = disk[i]
  BY <1>1, <1>3 DEF t
<1>5. \A i \in LBA : disk'[i].crc = crc32(disk'[i].payload) => isFull(disk'[i], i)
  BY <1>2, <1>3, <1>4
<1>6. \A i \in LBA : /\ i < sealed => isFull(disk'[i], i)
                     /\ i > sealed => disk'[i] = Zeroed
  BY <1>1, <1>2, <1>4 DEF LBA
<1>7. \A i \in LBA : isFull(disk[i], i) => disk'[i] = disk[i]
  BY <1>3, <1>4
<1>8. InkInv'
  <2>1. NewSector.crc = crc32(tail) /\ tail \in Text
    BY <1>1 DEF NewSector, encode, Text
  <2>2. t.crc \in {disk[sealed].crc, NewSector.crc, GarbledCrc}
    BY DEF t, torn
  <2>3. t.crc \in {GarbledCrc} \cup {crc32(q) : q \in Text}
    BY <1>1, <2>1, <2>2 DEF IInv, DiskInv, InkInv
  <2> QED BY <1>4, <2>3 DEF IInv, DiskInv, InkInv
<1> QED BY <1>1, <1>3, <1>4, <1>5, <1>6, <1>7, <1>8

LEMMA WriteOkIsLastCut ==
  ASSUME IInv, Writing, disk' = [disk EXCEPT ![sealed] = NewSector]
  PROVE  /\ PAYLOAD_CAPACITY + 5 \in Cut
         /\ disk' = [disk EXCEPT ![sealed] =
                       torn(disk[sealed], NewSector, PAYLOAD_CAPACITY + 5)]
<1>1. disk[sealed] \in Sector
  BY SectorsAssumption
     DEF IInv, TypeOK, TailInv, Writing, Appending, LBA
<1>2. NewSector \in Sector
  BY EncodeType, SectorsAssumption DEF IInv, TypeOK, NewSector
<1>3. PAYLOAD_CAPACITY + 5 \in Cut
  BY CapacityAssumption DEF Cut
<1> QED BY <1>1, <1>2, <1>3, TornLast

\* A step that leaves the disk alone leaves what is said of it alone.
LEMMA DiskUnchanged ==
  ASSUME DiskInv, disk' = disk
  PROVE  DiskInv'
BY DEF DiskInv, AreaInv, InkInv, Frontier

LEMMA InitInv == Init => IInv
<1> SUFFICES ASSUME Init PROVE IInv
  OBVIOUS
<1> USE DEF Init
<1>1. TypeOK
  <2>1. disk \in [LBA -> Sector]
    BY ZeroedFacts
  <2>2. 0 \in 0..TOTAL_SECTORS /\ 0 \in 0..(ATTEMPTS - 1)
    BY SectorsAssumption DEF ATTEMPTS
  <2>3. tail \in Seq(Byte) /\ Len(tail) <= PAYLOAD_CAPACITY /\ todo \in Seq(Byte)
    BY CapacityAssumption
  <2> QED BY <2>1, <2>2, <2>3 DEF TypeOK
<1>2. \A i \in LBA : disk[i] = Zeroed
  OBVIOUS
<1>3. AreaInv
  BY <1>2, ZeroedFacts DEF AreaInv
<1>7. InkInv
  <2>1. <<>> \in Text
    BY CapacityAssumption DEF Text
  <2>2. Zeroed.crc = crc32(<<>>)
    BY CrcAssumption DEF Zeroed
  <2> QED BY <1>2, <2>1, <2>2 DEF InkInv
<1>4. Frontier(0)
  BY <1>2 DEF Frontier, LBA
<1>5. 0 \in 0..TOTAL_SECTORS
  BY SectorsAssumption
<1>6. SearchInv /\ TailInv /\ SessionInv
  BY DEF SearchInv, TailInv, SessionInv, Running, Appending
<1> QED BY <1>1, <1>3, <1>4, <1>5, <1>6, <1>7 DEF IInv, DiskInv

LEMMA PowerOnInv == IInv /\ PowerOn => IInv'
<1> SUFFICES ASSUME IInv, PowerOn PROVE IInv'
  OBVIOUS
<1> USE DEF PowerOn, ram
<1>1. TypeOK'
  BY SectorsAssumption DEF IInv, TypeOK
<1>2. DiskInv'
  BY DiskUnchanged DEF IInv
<1>3. SearchInv'
  BY SectorsAssumption DEF SearchInv, LBA
<1>4. TailInv' /\ SessionInv'
  BY DEF TailInv, SessionInv, Running, Appending
<1> QED BY <1>1, <1>2, <1>3, <1>4 DEF IInv

LEMMA ProbeInv == IInv /\ Probe => IInv'
<1> SUFFICES ASSUME IInv, Probe PROVE IInv'
  OBVIOUS
<1> DEFINE mid == lo + (hi - lo) \div 2
<1>1. /\ pc = "search" /\ lo < hi
      /\ UNCHANGED <<disk, pc, sealed, tail, full, trouble, todo, attempt>>
      /\ \/ decodes(disk[mid], mid) /\ lo' = mid + 1 /\ hi' = hi
         \/ ~decodes(disk[mid], mid) /\ hi' = mid /\ lo' = lo
  BY DEF Probe, ram
<1>2. /\ mid \in LBA /\ lo <= mid /\ mid < hi
      /\ lo \in Nat /\ hi \in Nat /\ hi <= TOTAL_SECTORS
  BY <1>1, SectorsAssumption DEF IInv, TypeOK, LBA
<1> HIDE DEF mid
<1>3. TypeOK'
  BY <1>1, <1>2, SectorsAssumption DEF IInv, TypeOK, LBA
<1>4. DiskInv'
  BY <1>1, DiskUnchanged DEF IInv
<1>5. \E f \in 0..TOTAL_SECTORS : Frontier(f)
  BY DEF IInv, DiskInv
<1>6. SearchInv'
  <2>1. PICK f \in 0..TOTAL_SECTORS : Frontier(f)
    BY <1>5
  <2>2. \A i \in LBA : /\ decodes(disk[i], i) => i <= f
                       /\ i < f => decodes(disk[i], i)
    BY <2>1, ZeroedFacts, SectorsAssumption DEF Frontier, isFull, LBA
  <2>3. \A i \in LBA : decodes(disk[mid], mid) /\ i < mid + 1 => decodes(disk[i], i)
    BY <1>2, <2>2, SectorsAssumption DEF LBA
  <2>4. \A i \in LBA : ~decodes(disk[mid], mid) /\ i >= mid => ~decodes(disk[i], i)
    BY <1>2, <2>2, SectorsAssumption DEF LBA
  <2> QED BY <1>1, <1>2, <2>3, <2>4, SectorsAssumption DEF IInv, SearchInv, LBA
<1>7. TailInv' /\ SessionInv'
  BY <1>1 DEF TailInv, SessionInv, Running, Appending
<1> QED BY <1>3, <1>4, <1>6, <1>7 DEF IInv

LEMMA LoadErrorInv == IInv /\ LoadError => IInv'
<1> SUFFICES ASSUME IInv, LoadError PROVE IInv'
  OBVIOUS
<1> USE DEF LoadError, ram
<1>1. TypeOK'
  BY SectorsAssumption DEF IInv, TypeOK
<1>2. DiskInv'
  BY DiskUnchanged DEF IInv
<1>3. SearchInv' /\ TailInv' /\ SessionInv'
  BY DEF SearchInv, TailInv, SessionInv, Running, Appending
<1> QED BY <1>1, <1>2, <1>3 DEF IInv

\* What decode accepts is a text, never padding or a mix of two writes.
LEMMA DecodedIsText ==
  ASSUME TypeOK, InkInv, NEW i \in LBA, decodes(disk[i], i)
  PROVE  payload(disk[i]) \in Text
<1>1. disk[i] \in Sector /\ disk[i].length <= PAYLOAD_CAPACITY
  BY DEF TypeOK, decodes
<1>2. payload(disk[i]) \in Payload
  BY <1>1, DecodedIsPayload
<1>3. crc32(payload(disk[i])) = disk[i].crc /\ disk[i].crc # GarbledCrc
  BY <1>2, CrcType DEF decodes, GarbledCrc
<1>4. PICK q \in Text : disk[i].crc = crc32(q)
  BY <1>3 DEF InkInv
<1>5. q \in Payload
  BY TextIsPayload DEF Text
<1> QED BY <1>2, <1>3, <1>4, <1>5, CrcInjective

LEMMA LoadInv == IInv /\ Load => IInv'
<1> SUFFICES ASSUME IInv, Load PROVE IInv'
  OBVIOUS
<1>1. /\ pc = "search" /\ lo = hi /\ lo' = 0 /\ hi' = 0
      /\ UNCHANGED <<disk, trouble, todo, attempt>>
  BY DEF Load
<1>2. DiskInv'
  BY <1>1, DiskUnchanged DEF IInv
<1>3. CASE Unreadable(lo) /\ pc' = "panic" /\ UNCHANGED <<sealed, tail, full>>
  <2>1. TypeOK'
    BY <1>1, <1>3, SectorsAssumption DEF IInv, TypeOK
  <2>2. SearchInv' /\ TailInv' /\ SessionInv'
    BY <1>3 DEF SearchInv, TailInv, SessionInv, Running, Appending
  <2> QED BY <1>2, <2>1, <2>2 DEF IInv
<1>4. CASE /\ pc' = "idle"
           /\ sealed' = IF lo = 0 \/ LastIsSealed(lo) THEN lo ELSE lo - 1
           /\ tail' = IF lo = 0 \/ LastIsSealed(lo) THEN <<>> ELSE payload(disk[lo - 1])
           /\ full' = (sealed' = TOTAL_SECTORS)
  <2>1. /\ lo \in 0..TOTAL_SECTORS /\ lo \in Nat
        /\ \A i \in LBA : decodes(disk[i], i) <=> i < lo
    BY <1>1, SectorsAssumption DEF IInv, TypeOK, SearchInv, LBA
  <2>2. PICK f \in 0..TOTAL_SECTORS : Frontier(f)
    BY DEF IInv, DiskInv
  <2>3. \A i \in LBA : /\ decodes(disk[i], i) => i <= f
                       /\ i < f => isFull(disk[i], i)
                       /\ i > f => disk[i] = Zeroed
    BY <2>2, ZeroedFacts, SectorsAssumption DEF Frontier, LBA
  <2>4. /\ sealed' \in 0..TOTAL_SECTORS
        /\ \A i \in LBA : /\ i < sealed' => isFull(disk[i], i)
                          /\ i > sealed' => disk[i] = Zeroed
        /\ sealed' \in LBA => ~isFull(disk[sealed'], sealed')
        /\ tail' \in Seq(Byte) /\ Len(tail') < PAYLOAD_CAPACITY
    <3>1. CASE lo = 0
      <4>1. sealed' = 0 /\ tail' = <<>>
        BY <1>4, <3>1
      <4>2. \A i \in LBA : i > 0 => disk[i] = Zeroed
        BY <2>1, <2>3, <3>1, SectorsAssumption DEF isFull, LBA
      <4>3. \A i \in LBA : ~isFull(disk[i], i)
        BY <2>1, <3>1, SectorsAssumption DEF isFull, LBA
      <4>4. /\ sealed' \in 0..TOTAL_SECTORS
            /\ \A i \in LBA : /\ i < sealed' => isFull(disk[i], i)
                              /\ i > sealed' => disk[i] = Zeroed
            /\ sealed' \in LBA => ~isFull(disk[sealed'], sealed')
            /\ tail' \in Seq(Byte) /\ Len(tail') < PAYLOAD_CAPACITY
        BY <4>1, <4>2, <4>3, SectorsAssumption, CapacityAssumption DEF LBA
      <4> QED BY <4>4
    <3>2. CASE lo # 0 /\ LastIsSealed(lo)
      <4>1. sealed' = lo /\ tail' = <<>>
        BY <1>4, <3>2
      <4>2. lo - 1 \in LBA /\ decodes(disk[lo - 1], lo - 1) /\ lo - 1 <= f
        BY <2>1, <2>3, <3>2, SectorsAssumption DEF LBA
      <4>3. \A i \in LBA : i < lo => isFull(disk[i], i)
        BY <2>1, <2>3, <3>2, <4>2, SectorsAssumption DEF isFull, LastIsSealed, LBA
      <4>4. \A i \in LBA : i > lo => disk[i] = Zeroed
        <5> SUFFICES ASSUME NEW i \in LBA, i > lo PROVE disk[i] = Zeroed
          OBVIOUS
        <5>1. lo \in LBA
          BY <2>1, SectorsAssumption DEF LBA
        <5>2. ~(lo < f)
          BY <2>1, <2>3, <5>1 DEF isFull
        <5> QED BY <2>1, <2>3, <5>2, SectorsAssumption DEF LBA
      <4>5. lo \in LBA => ~isFull(disk[lo], lo)
        BY <2>1 DEF isFull
      <4>6. tail' \in Seq(Byte) /\ Len(tail') < PAYLOAD_CAPACITY
        BY <4>1, CapacityAssumption
      <4> QED BY <2>1, <4>1, <4>3, <4>4, <4>5, <4>6
    <3>3. CASE lo # 0 /\ ~LastIsSealed(lo)
      <4>1. sealed' = lo - 1 /\ tail' = payload(disk[lo - 1])
        BY <1>4, <3>3
      <4>2. lo - 1 \in LBA /\ decodes(disk[lo - 1], lo - 1) /\ lo - 1 <= f
        BY <2>1, <2>3, <3>3, SectorsAssumption DEF LBA
      <4>3. ~isFull(disk[lo - 1], lo - 1)
        BY <3>3 DEF isFull, LastIsSealed
      <4>4. f = lo - 1
        BY <2>1, <2>3, <4>2, <4>3, SectorsAssumption DEF LBA
      <4>5. tail' \in Seq(Byte)
        BY <4>1, <4>2, DecodedIsText DEF IInv, DiskInv, Text
      <4>6. Len(tail') < PAYLOAD_CAPACITY
        <5>1. disk[lo - 1] \in Sector
          BY <4>2 DEF IInv, TypeOK
        <5>2. /\ disk[lo - 1].length \in Nat
              /\ disk[lo - 1].length < PAYLOAD_CAPACITY
          BY <3>3, <4>2, <5>1, CapacityAssumption DEF Sector, decodes, LastIsSealed
        <5>3. Len(payload(disk[lo - 1])) = disk[lo - 1].length
          BY <5>2 DEF payload
        <5> QED BY <4>1, <5>2, <5>3
      <4> QED BY <2>1, <2>3, <4>1, <4>2, <4>3, <4>4, <4>5, <4>6, SectorsAssumption DEF LBA
    <3> QED BY <3>1, <3>2, <3>3
  <2>5. TypeOK'
    <3>1. /\ 0 \in 0..TOTAL_SECTORS
          /\ Len(tail') <= PAYLOAD_CAPACITY
      BY <2>4, SectorsAssumption, CapacityAssumption
    <3>2. full' \in BOOLEAN
      BY <1>4
    <3> QED BY <1>1, <1>4, <2>4, <3>1, <3>2 DEF IInv, TypeOK
  <2>6. SearchInv' /\ TailInv'
    BY <1>4, <2>4 DEF SearchInv, TailInv, Running, Appending
  <2>7. SessionInv'
    BY <1>1, <2>4 DEF SessionInv, Frontier
  <2> QED BY <1>2, <2>5, <2>6, <2>7 DEF IInv
<1> QED BY <1>3, <1>4 DEF Load

LEMMA AppendRawInv ==
  ASSUME IInv, NEW bytes \in Seq(Byte), AppendRaw(bytes)
  PROVE  IInv'
<1> USE DEF AppendRaw
<1>1. TypeOK'
  BY DEF IInv, TypeOK
<1>2. DiskInv'
  BY DiskUnchanged DEF IInv
<1>3. sealed < TOTAL_SECTORS
  BY SectorsAssumption DEF IInv, TypeOK, TailInv, Running
<1>4. SearchInv' /\ TailInv'
  BY <1>3 DEF IInv, SearchInv, TailInv, Running, Appending
<1>5. SessionInv'
  BY DEF IInv, SessionInv, Running, Appending, Frontier
<1> QED BY <1>1, <1>2, <1>4, <1>5 DEF IInv

LEMMA InkTypes ==
  ASSUME TypeOK, TailInv, Ink
  PROVE  TypeOK' /\ TailInv'
<1> DEFINE room == PAYLOAD_CAPACITY - Len(tail)
           n == IF Len(todo) < room THEN Len(todo) ELSE room
<1>1. /\ pc = "ink"
      /\ tail' = tail \o SubSeq(todo, 1, n)
      /\ todo' = SubSeq(todo, n + 1, Len(todo))
      /\ pc' = IF Len(tail') = PAYLOAD_CAPACITY THEN "seal"
               ELSE IF tail' # <<>> THEN "rewrite" ELSE "idle"
      /\ UNCHANGED <<disk, lo, hi, sealed, full, trouble, attempt>>
  BY DEF Ink
<1>2. /\ tail \in Seq(Byte) /\ todo \in Seq(Byte)
      /\ Len(tail) \in Nat /\ Len(todo) \in Nat
      /\ Len(tail) < PAYLOAD_CAPACITY
  BY <1>1 DEF TypeOK, TailInv
<1>3. n \in 0..Len(todo) /\ n <= room
  BY <1>2, CapacityAssumption
<1> HIDE DEF n
<1>4. SubSeq(todo, 1, n) \in Seq(Byte) /\ Len(SubSeq(todo, 1, n)) = n
  BY <1>2, <1>3, SubSeqProperties
<1>5. todo' \in Seq(Byte)
  BY <1>1, <1>2, <1>3, SubSeqProperties
<1>6. tail' \in Seq(Byte) /\ Len(tail') = Len(tail) + n
  BY <1>1, <1>2, <1>4, ConcatProperties
<1>7. Len(tail') <= PAYLOAD_CAPACITY
  BY <1>2, <1>3, <1>6, CapacityAssumption
<1>8. pc' \in {"seal", "rewrite", "idle"}
  BY <1>1
<1>9. TypeOK'
  BY <1>1, <1>5, <1>6, <1>7, <1>8 DEF TypeOK
<1>10. TailInv'
  <2>1. /\ pc' = "seal" => Len(tail') = PAYLOAD_CAPACITY
        /\ pc' # "seal" => Len(tail') < PAYLOAD_CAPACITY
    <3>1. Len(tail') \in Nat /\ (pc' = "seal" <=> Len(tail') = PAYLOAD_CAPACITY)
      BY <1>1, <1>2, <1>3, <1>6
    <3> QED BY <1>7, <3>1, CapacityAssumption
  <2> QED BY <1>1, <1>8, <2>1 DEF TailInv, Running, Appending
<1> QED BY <1>9, <1>10

LEMMA InkStepInv == IInv /\ Ink => IInv'
<1> SUFFICES ASSUME IInv, Ink PROVE IInv'
  OBVIOUS
<1>1. /\ pc = "ink" /\ pc' \in {"seal", "rewrite", "idle"}
      /\ UNCHANGED <<disk, lo, hi, sealed, full, trouble, attempt>>
  BY DEF Ink
<1>2. TypeOK' /\ TailInv'
  BY InkTypes DEF IInv
<1>3. DiskInv'
  BY <1>1, DiskUnchanged DEF IInv
<1>4. SearchInv' /\ SessionInv'
  BY <1>1 DEF IInv, SearchInv, SessionInv, Running, Appending, Frontier
<1> QED BY <1>2, <1>3, <1>4 DEF IInv

\* The RAM state after write returned, whatever became of the sector.
LEMMA WriteReturnsTypes ==
  ASSUME TypeOK, TailInv, WriteReturns, UNCHANGED <<lo, hi>>, trouble' \in BOOLEAN,
         disk' \in [LBA -> Sector]
  PROVE  TypeOK' /\ TailInv'
<1>1. /\ sealed \in LBA /\ sealed \in Nat
      /\ pc = "rewrite" => Len(tail) < PAYLOAD_CAPACITY
  BY SectorsAssumption
     DEF TypeOK, TailInv, WriteReturns, Sealed, Rewritten, Appending, LBA
<1>2. attempt' = 0 /\ 0 \in 0..(ATTEMPTS - 1)
  BY DEF WriteReturns, ATTEMPTS
<1>3. CASE Sealed
  <2>1. /\ pc = "seal" /\ sealed' = sealed + 1 /\ tail' = <<>>
        /\ full' = (sealed' = TOTAL_SECTORS)
        /\ todo' \in Seq(Byte)
        /\ pc' \in {"idle", "ink"}
        /\ full' => pc' = "idle"
    BY <1>3 DEF Sealed, TypeOK
  <2>2. sealed' \in 0..TOTAL_SECTORS /\ (sealed' # TOTAL_SECTORS => sealed' < TOTAL_SECTORS)
    BY <1>1, <2>1, SectorsAssumption DEF LBA
  <2>3. tail' \in Seq(Byte) /\ Len(tail') < PAYLOAD_CAPACITY /\ Len(tail') <= PAYLOAD_CAPACITY
    BY <2>1, CapacityAssumption
  <2>4. full' \in BOOLEAN
    BY <2>1
  <2>5. TypeOK'
    BY <1>2, <2>1, <2>2, <2>3, <2>4 DEF TypeOK
  <2>6. TailInv'
    BY <2>1, <2>2, <2>3, <1>3 DEF TailInv, Running, Appending, Sealed
  <2> QED BY <2>5, <2>6
<1>4. CASE Rewritten
  <2>1. pc = "rewrite" /\ pc' = "idle" /\ UNCHANGED <<sealed, tail, full, todo>>
    BY <1>4 DEF Rewritten
  <2>2. TypeOK'
    BY <1>2, <2>1 DEF TypeOK
  <2>3. TailInv'
    BY <2>1 DEF TailInv, Running, Appending
  <2> QED BY <2>2, <2>3
<1> QED BY <1>3, <1>4 DEF WriteReturns

(***************************************************************************)
(* write returns, after the sector it was called for changed or not.  What *)
(* is known of the disk is enough to go on to the next sector or to wait   *)
(* for the next keystroke, unless trouble was recorded.                    *)
(***************************************************************************)
LEMMA WriteReturnsInv ==
  ASSUME IInv, WriteReturns, UNCHANGED <<lo, hi>>, trouble' \in BOOLEAN,
         disk' \in [LBA -> Sector], DiskInv',
         ~trouble' => /\ \A i \in LBA : /\ i < sealed => isFull(disk'[i], i)
                                        /\ i > sealed => disk'[i] = Zeroed
                      /\ disk'[sealed] = NewSector
  PROVE  IInv'
<1>1. /\ sealed \in LBA /\ sealed \in Nat
      /\ tail \in Seq(Byte) /\ Len(tail) <= PAYLOAD_CAPACITY
      /\ pc = "seal" => Len(tail) = PAYLOAD_CAPACITY
      /\ pc = "rewrite" => Len(tail) < PAYLOAD_CAPACITY
      /\ full = FALSE
  BY SectorsAssumption
     DEF IInv, TypeOK, TailInv, WriteReturns, Sealed, Rewritten, Appending, Running, LBA
<1>2. TypeOK' /\ TailInv' /\ SearchInv'
  <2>1. TypeOK' /\ TailInv'
    BY WriteReturnsTypes DEF IInv
  <2> QED BY <2>1 DEF WriteReturns, Sealed, Rewritten, SearchInv
<1>3. decodes(NewSector, sealed) /\ NewSector.length = Len(tail)
  BY <1>1, DecodeEncode DEF NewSector, encode
<1>4. SessionInv'
  <2> SUFFICES ASSUME ~trouble' PROVE SessionInv'
    BY DEF SessionInv
  <2>1. CASE Sealed
    <3>1. pc = "seal" /\ sealed' = sealed + 1
      BY <2>1 DEF Sealed
    <3>2. isFull(disk'[sealed], sealed)
      BY <1>1, <1>3, <3>1 DEF isFull
    <3>3. \A i \in LBA : /\ i < sealed' => isFull(disk'[i], i)
                         /\ i > sealed' => disk'[i] = Zeroed
      BY <1>1, <3>1, <3>2 DEF LBA
    <3>4. sealed' \in LBA => disk'[sealed'] = Zeroed
      BY <1>1, <3>1 DEF LBA
    <3> QED BY <3>3, <3>4, ZeroedFacts DEF SessionInv, Frontier, isFull
  <2>2. CASE Rewritten
    <3>1. pc = "rewrite" /\ pc' = "idle" /\ UNCHANGED <<sealed, tail, full, todo>>
      BY <2>2 DEF Rewritten
    <3>2. ~isFull(disk'[sealed], sealed)
      BY <1>1, <1>3, <3>1, CapacityAssumption DEF isFull
    <3> QED BY <3>1, <3>2 DEF SessionInv, Frontier
  <2> QED BY <2>1, <2>2 DEF WriteReturns
<1> QED BY <1>2, <1>4 DEF IInv

LEMMA WriteSkippedInv == IInv /\ WriteSkipped => IInv'
<1> SUFFICES ASSUME IInv, WriteSkipped PROVE IInv'
  OBVIOUS
<1> USE DEF WriteSkipped
<1>1. DiskInv' /\ disk' \in [LBA -> Sector] /\ trouble' = TRUE
  BY DiskUnchanged DEF IInv, TypeOK
<1> QED BY <1>1, WriteReturnsInv

\* A sector write leaves the disk in order, whether it was completed or not.
LEMMA WrittenDisk ==
  ASSUME IInv, Writing, NEW cut \in Cut,
         disk' = [disk EXCEPT ![sealed] = torn(disk[sealed], NewSector, cut)]
  PROVE  DiskInv'
<1>1. sealed \in 0..TOTAL_SECTORS
  BY DEF IInv, TypeOK
<1> QED BY <1>1, WriteStep DEF DiskInv, AreaInv, Frontier

LEMMA WriteOkInv == IInv /\ WriteOk => IInv'
<1> SUFFICES ASSUME IInv, WriteOk PROVE IInv'
  OBVIOUS
<1>1. /\ Writing /\ disk' = [disk EXCEPT ![sealed] = NewSector]
      /\ WriteReturns /\ UNCHANGED <<lo, hi, trouble>>
  BY DEF WriteOk
<1>2. /\ PAYLOAD_CAPACITY + 5 \in Cut
      /\ disk' = [disk EXCEPT ![sealed] =
                    torn(disk[sealed], NewSector, PAYLOAD_CAPACITY + 5)]
  BY <1>1, WriteOkIsLastCut
<1>3. /\ sealed \in LBA
      /\ disk' \in [LBA -> Sector]
      /\ \A i \in LBA : /\ i < sealed => isFull(disk'[i], i)
                        /\ i > sealed => disk'[i] = Zeroed
  BY <1>1, <1>2, WriteStep
<1>4. disk'[sealed] = NewSector
  BY <1>1, <1>3 DEF IInv, TypeOK
<1>5. DiskInv'
  BY <1>1, <1>2, WrittenDisk
<1>6. trouble' \in BOOLEAN
  BY <1>1 DEF IInv, TypeOK
<1> QED BY <1>1, <1>3, <1>4, <1>5, <1>6, WriteReturnsInv

LEMMA WriteErrInv == IInv /\ WriteErr => IInv'
<1> SUFFICES ASSUME IInv, WriteErr PROVE IInv'
  OBVIOUS
<1>1. Writing /\ UNCHANGED <<lo, hi>>
  BY DEF WriteErr
<1>2. PICK cut \in Cut :
        disk' = [disk EXCEPT ![sealed] = torn(disk[sealed], NewSector, cut)]
  BY DEF WriteErr
<1>3. /\ sealed \in LBA
      /\ disk' \in [LBA -> Sector]
      /\ \A i \in LBA : /\ i < sealed => isFull(disk'[i], i)
                        /\ i > sealed => disk'[i] = Zeroed
      /\ isFull(disk'[sealed], sealed) => disk'[sealed] = NewSector
  BY <1>1, <1>2, WriteStep
<1>4. DiskInv'
  BY <1>1, <1>2, WrittenDisk
<1>5. CASE /\ attempt + 1 < ATTEMPTS
           /\ attempt' = attempt + 1
           /\ UNCHANGED <<pc, sealed, tail, full, trouble, todo>>
  <2>1. TypeOK'
    BY <1>1, <1>3, <1>5 DEF IInv, TypeOK, ATTEMPTS
  <2>2. SearchInv' /\ TailInv'
    BY <1>1, <1>5 DEF IInv, SearchInv, TailInv, Writing, Running, Appending
  <2>3. SessionInv'
    <3>1. isFull(disk'[sealed], sealed) => pc = "seal"
      <4>1. isFull(disk'[sealed], sealed) => Len(tail) = PAYLOAD_CAPACITY
        BY <1>3 DEF isFull, NewSector, encode
      <4>2. pc = "rewrite" => Len(tail) # PAYLOAD_CAPACITY
        BY CapacityAssumption DEF IInv, TailInv, TypeOK
      <4> QED BY <1>1, <4>1, <4>2 DEF Writing
    <3>2. NewSector' = NewSector
      BY <1>5 DEF NewSector
    <3> QED BY <1>3, <1>5, <3>1, <3>2 DEF SessionInv, Frontier
  <2> QED BY <1>4, <2>1, <2>2, <2>3 DEF IInv
<1>6. CASE attempt + 1 = ATTEMPTS /\ trouble' = TRUE /\ WriteReturns
  BY <1>1, <1>3, <1>4, <1>6, WriteReturnsInv
<1> QED BY <1>5, <1>6 DEF WriteErr

LEMMA PowerLossInv == IInv /\ PowerLoss => IInv'
<1> SUFFICES ASSUME IInv, PowerLoss PROVE IInv'
  OBVIOUS
<1>1. pc' = "off" /\ Amnesia
  BY DEF PowerLoss
<1>2. disk' \in [LBA -> Sector] /\ DiskInv'
  <2>1. CASE UNCHANGED disk
    BY <2>1, DiskUnchanged DEF IInv, TypeOK
  <2>2. CASE Writing /\ \E cut \in Cut :
               disk' = [disk EXCEPT ![sealed] = torn(@, NewSector, cut)]
    BY <2>2, WriteStep, WrittenDisk
  <2> QED BY <2>1, <2>2 DEF PowerLoss
<1>3. TypeOK'
  <2>1. 0 \in 0..TOTAL_SECTORS /\ 0 \in 0..(ATTEMPTS - 1)
    BY SectorsAssumption DEF ATTEMPTS
  <2>2. tail' \in Seq(Byte) /\ Len(tail') <= PAYLOAD_CAPACITY /\ todo' \in Seq(Byte)
    BY <1>1, CapacityAssumption DEF Amnesia
  <2> QED BY <1>1, <1>2, <2>1, <2>2 DEF TypeOK, Amnesia
<1>4. SearchInv' /\ TailInv' /\ SessionInv'
  BY <1>1 DEF SearchInv, TailInv, SessionInv, Running, Appending
<1> QED BY <1>2, <1>3, <1>4 DEF IInv

LEMMA StutterInv == IInv /\ UNCHANGED vars => IInv'
<1> SUFFICES ASSUME IInv, UNCHANGED vars PROVE IInv'
  OBVIOUS
<1> USE DEF vars, ram
<1>1. TypeOK' /\ DiskInv'
  BY DiskUnchanged DEF IInv, TypeOK
<1>2. SearchInv'
  BY DEF IInv, SearchInv
<1>3. TailInv' /\ SessionInv'
  BY DEF IInv, TailInv, SessionInv, Running, Appending, Frontier, NewSector
<1> QED BY <1>1, <1>2, <1>3 DEF IInv

LEMMA NextInv == IInv /\ [Next]_vars => IInv'
<1> SUFFICES ASSUME IInv, [Next]_vars PROVE IInv'
  OBVIOUS
<1>1. CASE PowerOn
  BY <1>1, PowerOnInv
<1>2. CASE Probe
  BY <1>2, ProbeInv
<1>3. CASE Load
  BY <1>3, LoadInv
<1>4. CASE LoadError
  BY <1>4, LoadErrorInv
<1>5. CASE \E bytes \in Inputs : AppendRaw(bytes)
  BY <1>5, AppendRawInv, InputsAssumption
<1>6. CASE Ink
  BY <1>6, InkStepInv
<1>7. CASE WriteSkipped
  BY <1>7, WriteSkippedInv
<1>8. CASE WriteOk
  BY <1>8, WriteOkInv
<1>9. CASE WriteErr
  BY <1>9, WriteErrInv
<1>10. CASE PowerLoss
  BY <1>10, PowerLossInv
<1>11. CASE UNCHANGED vars
  BY <1>11, StutterInv
<1> QED BY <1>1, <1>2, <1>3, <1>4, <1>5, <1>6, <1>7, <1>8, <1>9, <1>10, <1>11
        DEF Next, Kernel

-----------------------------------------------------------------------------
(* The frontier invariant holds of every behaviour of the scroll disk, for *)
(* any number of sectors, power cuts and failed writes.                    *)
THEOREM Invariance == Spec => []IInv
<1>1. Init => IInv
  BY InitInv
<1>2. IInv /\ [Next]_vars => IInv'
  BY NextInv
<1> QED BY <1>1, <1>2, PTL DEF Spec

(* Every variable keeps its type: the tail never outgrows a sector, so the *)
(* assert in encode holds, and sealed never runs past the disk.            *)
THEOREM TypeCorrect == Spec => []TypeOK
<1>1. IInv => TypeOK
  BY DEF IInv
<1> QED BY <1>1, Invariance, PTL

(* Valid records form a contiguous prefix, whatever failed before: what    *)
(* load's binary search takes for granted.                                 *)
THEOREM PrefixHolds == Spec => []ContiguousPrefix
<1>1. IInv => ContiguousPrefix
  <2> SUFFICES ASSUME IInv, NEW i \in LBA, decodes(disk[i], i), NEW j \in 0..i
               PROVE  decodes(disk[j], j)
    BY DEF ContiguousPrefix
  <2>1. PICK f \in 0..TOTAL_SECTORS : Frontier(f)
    BY DEF IInv, DiskInv
  <2>2. i <= f
    BY <2>1, ZeroedFacts, SectorsAssumption DEF Frontier, LBA
  <2>3. j \in LBA /\ (j = i \/ j < f)
    BY <2>2, SectorsAssumption DEF LBA
  <2> QED BY <2>1, <2>3 DEF Frontier, isFull
<1> QED BY <1>1, Invariance, PTL

(* load's binary search stops at the first sector without a record.        *)
THEOREM SearchIsSound == Spec => []SearchSound
<1>1. IInv => SearchSound
  BY SectorsAssumption DEF IInv, TypeOK, SearchInv, SearchSound, LBA
<1> QED BY <1>1, Invariance, PTL

-----------------------------------------------------------------------------
\* All that a step can do to the disk: write, in part or in full, the sector
\* behind the sealed ones.
LEMMA DiskWrites ==
  ASSUME IInv, [Next]_vars
  PROVE  \/ UNCHANGED disk
         \/ Writing /\ \E cut \in Cut :
              disk' = [disk EXCEPT ![sealed] = torn(disk[sealed], NewSector, cut)]
<1>1. CASE WriteOk
  BY <1>1, WriteOkIsLastCut DEF WriteOk
<1>2. CASE WriteErr
  BY <1>2 DEF WriteErr
<1>3. CASE PowerLoss
  BY <1>3 DEF PowerLoss
<1>4. CASE PowerOn \/ Probe \/ LoadError \/ Ink \/ WriteSkipped \/ UNCHANGED vars
  BY <1>4 DEF PowerOn, Probe, LoadError, Ink, WriteSkipped, vars
<1>5. CASE Load
  BY <1>5 DEF Load
<1>6. CASE \E bytes \in Inputs : AppendRaw(bytes)
  BY <1>6 DEF AppendRaw
<1> QED BY <1>1, <1>2, <1>3, <1>4, <1>5, <1>6 DEF Next, Kernel

(* A sealed sector is never touched again: neither the retries of write    *)
(* nor a power cut in the middle of one changes a byte of it.              *)
THEOREM SealedIsForever == Spec => SealedForever
<1>1. IInv /\ [Next]_vars =>
        [\A i \in LBA : isFull(disk[i], i) => disk'[i] = disk[i]]_vars
  BY DiskWrites, WriteStep
<1> QED BY <1>1, Invariance, PTL DEF Spec, SealedForever

-----------------------------------------------------------------------------
(***************************************************************************)
(* The refinement of EternalInk.                                           *)
(***************************************************************************)
LEMMA PageIsPage ==
  ASSUME NEW d \in [LBA -> Sector], NEW i \in LBA
  PROVE  (IF decodes(d[i], i) THEN payload(d[i]) ELSE <<>>) \in Payload
<1>1. <<>> \in Payload
  <2>1. <<>> \in Seq(Byte) /\ Len(<<>>) <= PAYLOAD_CAPACITY
    BY CapacityAssumption
  <2> QED BY <2>1, TextIsPayload
<1>2. decodes(d[i], i) => payload(d[i]) \in Payload
  BY DecodedIsPayload DEF decodes
<1> QED BY <1>1, <1>2

LEMMA RefinedInit == Init => Eternal!Init
BY ZeroedFacts DEF Init, Eternal!Init, Page, LBA

LEMMA RefinedStep ==
  ASSUME IInv, [Next]_vars
  PROVE  [Eternal!Next]_([i \in LBA |-> Page(i)])
<1> DEFINE page == [i \in LBA |-> Page(i)]
<1>1. CASE UNCHANGED disk
  BY <1>1 DEF Page
<1>2. ASSUME Writing, NEW cut \in Cut,
             disk' = [disk EXCEPT ![sealed] = torn(disk[sealed], NewSector, cut)]
      PROVE  [Eternal!Next]_page
  <2>1. /\ sealed \in LBA
        /\ disk \in [LBA -> Sector] /\ disk' \in [LBA -> Sector]
        /\ \A i \in LBA : i # sealed => disk'[i] = disk[i]
        /\ \A i \in LBA : isFull(disk[i], i) => disk'[i] = disk[i]
    BY <1>2, WriteStep DEF IInv, TypeOK
  <2>2. \A i \in LBA : /\ i < sealed => isFull(disk[i], i)
                       /\ i > sealed => disk[i] = Zeroed
    BY <1>2 DEF IInv, SessionInv, Frontier, Writing, Running, Appending
  <2>3. CASE isFull(disk[sealed], sealed)
    <3>1. \A i \in LBA : disk'[i] = disk[i]
      BY <2>1, <2>3
    <3>2. disk' = disk
      BY <2>1, <3>1
    <3> QED BY <1>1, <3>2
  <2>4. CASE ~isFull(disk[sealed], sealed)
    <3>1. \A i \in LBA : page[i] = Page(i) /\ page'[i] = Page(i)'
      OBVIOUS
    <3>2. Len(page[sealed]) < PAYLOAD_CAPACITY
      <4>1. CASE decodes(disk[sealed], sealed)
        <5>1. /\ disk[sealed].length \in Nat
              /\ disk[sealed].length < PAYLOAD_CAPACITY
          BY <2>1, <2>4, <4>1, CapacityAssumption DEF decodes, isFull, Sector
        <5>2. Len(payload(disk[sealed])) = disk[sealed].length
          BY <5>1 DEF payload
        <5> QED BY <2>1, <3>1, <4>1, <5>1, <5>2 DEF Page
      <4>2. CASE ~decodes(disk[sealed], sealed)
        BY <2>1, <3>1, <4>2, CapacityAssumption DEF Page
      <4> QED BY <4>1, <4>2
    <3>3. \A j \in 0..(sealed - 1) : Len(page[j]) = PAYLOAD_CAPACITY
      <4> SUFFICES ASSUME NEW j \in 0..(sealed - 1)
                   PROVE  Len(page[j]) = PAYLOAD_CAPACITY
        OBVIOUS
      <4>1. j \in LBA /\ isFull(disk[j], j)
        BY <2>1, <2>2, SectorsAssumption DEF LBA
      <4>2. page[j] = payload(disk[j]) /\ disk[j].length = PAYLOAD_CAPACITY
        BY <3>1, <4>1 DEF Page, isFull
      <4> QED BY <4>2, CapacityAssumption DEF payload
    <3>4. \A j \in (sealed + 1)..(TOTAL_SECTORS - 1) : page[j] = <<>>
      <4> SUFFICES ASSUME NEW j \in (sealed + 1)..(TOTAL_SECTORS - 1)
                   PROVE  page[j] = <<>>
        OBVIOUS
      <4>1. j \in LBA /\ disk[j] = Zeroed
        BY <2>1, <2>2, SectorsAssumption DEF LBA
      <4> QED BY <3>1, <4>1, ZeroedFacts DEF Page
    <3>5. page' \in [LBA -> Payload]
      <4>1. \A i \in LBA : Page(i)' \in Payload
        BY <2>1, PageIsPage DEF Page
      <4> QED BY <4>1
    <3>6. \A j \in LBA : j # sealed => page'[j] = page[j]
      BY <2>1, <3>1 DEF Page
    <3> HIDE DEF page
    <3>7. Eternal!Rewrite(sealed)
      BY <3>2, <3>3, <3>4, <3>5, <3>6
         DEF Eternal!Rewrite, Eternal!IsOpen, Eternal!Page, Payload, LBA, page
    <3> QED BY <2>1, <3>7 DEF Eternal!Next, LBA
  <2> QED BY <2>3, <2>4
<1> QED BY <1>1, <1>2, DiskWrites

(* The scroll disk keeps the promise of EternalInk: pages fill in order,   *)
(* a sealed page is immutable and a failure costs the open page at most.   *)
THEOREM Refinement == Spec => RefinesEternalInk
<1>1. Init => Eternal!Init
  BY RefinedInit
<1>2. IInv /\ [Next]_vars => [Eternal!Next]_([i \in LBA |-> Page(i)])
  BY RefinedStep
<1> QED BY <1>1, <1>2, Invariance, PTL DEF Spec, RefinesEternalInk, Eternal!Spec
=============================================================================

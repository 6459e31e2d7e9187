----------------------------- MODULE BootProofs -----------------------------
(***************************************************************************)
(* What the kernel does once, before the main loop: the heap's frames, the *)
(* bring-up of the keyboard and the reading of the clock.  Each of the     *)
(* three is proved about on its own; they share no state.                  *)
(***************************************************************************)
EXTENDS Memory, I8042, Rtc, SequenceTheorems, TLAPS

(***************************************************************************)
(* The frame allocator: the inductive invariant.                           *)
(***************************************************************************)

\* Nothing at or behind the cursor has been handed out.
Behind(frame) ==
  \E i \in 1..Len(memory_regions) :
    /\ i <= region_idx
    /\ Inside(frame, i)
    /\ i = region_idx => frame + FRAME <= next_addr

PlaceInv == \A k \in 1..Len(frames) : frames[k] % FRAME = 0 /\ Behind(frames[k])

\* Everything in front of the cursor has been handed out.
Passed(addr, i) == i < region_idx \/ (i = region_idx /\ addr < next_addr)

FullInv ==
  \A i \in 1..Len(memory_regions) :
    \A addr \in memory_regions[i].start..memory_regions[i].end :
      addr % FRAME = 0 /\ Inside(addr, i) /\ Passed(addr, i) =>
        \E k \in 1..Len(frames) : frames[k] = addr

StageInv ==
  /\ heapAt = "map_to" => mapped < HEAP_PAGES
  /\ heapAt = "failed" => region_idx = Len(memory_regions) + 1

HeapInv == HeapTypeOK /\ PlaceInv /\ FramesDisjoint /\ FullInv /\ StageInv

-----------------------------------------------------------------------------
(***************************************************************************)
(* Frame boundaries.                                                       *)
(***************************************************************************)
LEMMA Multiple ==
  ASSUME NEW m \in Nat, NEW n \in Nat \ {0}, m % n = 0
  PROVE  \E q \in Nat : m = n * q
<1>1. m = n * (m \div n) + (m % n) /\ m \div n \in Nat
  OBVIOUS
<1> QED BY <1>1

LEMMA MultipleMod ==
  ASSUME NEW n \in Nat \ {0}, NEW q \in Nat
  PROVE  (n * q) % n = 0
OBVIOUS

LEMMA MultiplesApart ==
  ASSUME NEW n \in Nat \ {0}, NEW p \in Int, NEW q \in Int, n * p < n * q + n
  PROVE  n * p <= n * q
<1>1. n * (p - q) < n
  OBVIOUS
<1>2. p - q <= 0
  BY <1>1
<1>3. n * (q - p) >= 0
  BY <1>2
<1> QED BY <1>3

\* AlignUp gives the first frame boundary at or behind an address.
LEMMA AlignUpIsNext ==
  ASSUME NEW addr \in Nat
  PROVE  /\ AlignUp(addr) \in Nat /\ AlignUp(addr) >= addr
         /\ AlignUp(addr) % FRAME = 0
         /\ \A m \in Nat : m % FRAME = 0 /\ m >= addr => m >= AlignUp(addr)
<1> DEFINE top == addr + FRAME - 1
           q == top \div FRAME
<1>1. FRAME \in Nat \ {0} /\ top \in Nat
  BY FrameAssumption
<1>2. top = FRAME * q + (top % FRAME) /\ q \in Nat /\ top % FRAME \in 0..(FRAME - 1)
  BY <1>1
<1>3. AlignUp(addr) = FRAME * q
  BY <1>1, <1>2 DEF AlignUp
<1>4. FRAME * q \in Nat
  BY <1>1, <1>2
<1>5. FRAME * q >= addr
  <2>1. FRAME * q = top - (top % FRAME)
    BY <1>1, <1>2, <1>4
  <2> QED BY <1>1, <1>2, <2>1
<1>6. (FRAME * q) % FRAME = 0
  BY <1>1, <1>2, MultipleMod
<1>7. \A m \in Nat : m % FRAME = 0 /\ m >= addr => m >= FRAME * q
  <2> SUFFICES ASSUME NEW m \in Nat, m % FRAME = 0, m >= addr PROVE m >= FRAME * q
    OBVIOUS
  <2>1. PICK r \in Nat : m = FRAME * r
    BY <1>1, Multiple
  <2>2. FRAME * q < FRAME * r + FRAME
    <3>1. FRAME * q <= top
      BY <1>1, <1>2, <1>4
    <3> QED BY <1>1, <1>4, <2>1, <3>1
  <2> QED BY <1>1, <1>2, <2>1, <2>2, MultiplesApart
<1> QED BY <1>3, <1>4, <1>5, <1>6, <1>7

LEMMA BoundariesApart ==
  ASSUME NEW m \in Nat, NEW c \in Nat, m % FRAME = 0, c % FRAME = 0, m < c + FRAME
  PROVE  m <= c
<1>1. PICK p \in Nat : m = FRAME * p
  BY Multiple, FrameAssumption
<1>2. PICK q \in Nat : c = FRAME * q
  BY Multiple, FrameAssumption
<1> QED BY <1>1, <1>2, MultiplesApart, FrameAssumption

-----------------------------------------------------------------------------
(***************************************************************************)
(* allocate_frame.                                                         *)
(***************************************************************************)
LEMMA MapType ==
  ASSUME HeapTypeOK
  PROVE  /\ Len(memory_regions) \in Nat
         /\ \A i \in 1..Len(memory_regions) :
              memory_regions[i].start \in Nat /\ memory_regions[i].end \in Nat
         /\ \A i, j \in 1..Len(memory_regions) :
              i # j => \/ memory_regions[i].end <= memory_regions[j].start
                       \/ memory_regions[j].end <= memory_regions[i].start
         /\ region_idx \in Nat \ {0} /\ next_addr \in Nat
         /\ Len(frames) \in Nat
         /\ \A k \in 1..Len(frames) : frames[k] \in Nat
         /\ \A i \in Ahead : i \in 1..Len(memory_regions) /\ i >= region_idx
<1>1. memory_regions \in Seq(Region) /\ frames \in Seq(Nat)
  BY MapAssumption DEF HeapTypeOK
<1>2. Len(memory_regions) \in Nat /\ Len(frames) \in Nat
  BY <1>1, LenProperties
<1>3. \A i \in 1..Len(memory_regions) : memory_regions[i] \in Region
  BY <1>1, ElementOfSeq
<1>4. \A k \in 1..Len(frames) : frames[k] \in Nat
  BY <1>1, ElementOfSeq
<1>5. region_idx \in Nat \ {0} /\ next_addr \in Nat
  BY <1>2 DEF HeapTypeOK
<1>6. \A i \in Ahead : i \in 1..Len(memory_regions) /\ i >= region_idx
  BY <1>2, <1>5 DEF Ahead
<1> QED BY <1>2, <1>3, <1>4, <1>5, <1>6, MapAssumption DEF HeapTypeOK, Region

\* Where the search in region i starts.
From(i) == IF i = region_idx /\ next_addr > memory_regions[i].start
           THEN next_addr ELSE memory_regions[i].start

LEMMA CandidateIsNext ==
  ASSUME HeapTypeOK, NEW i \in Ahead
  PROVE  /\ Candidate(i) \in Nat /\ Candidate(i) % FRAME = 0
         /\ Candidate(i) >= memory_regions[i].start
         /\ i = region_idx => Candidate(i) >= next_addr
         /\ \A m \in Nat : /\ m % FRAME = 0
                           /\ m >= memory_regions[i].start
                           /\ i = region_idx => m >= next_addr
                          => m >= Candidate(i)
<1>1. From(i) \in Nat /\ memory_regions[i].start \in Nat /\ next_addr \in Nat
  BY MapType DEF From
<1>2. /\ AlignUp(From(i)) \in Nat /\ AlignUp(From(i)) >= From(i)
      /\ AlignUp(From(i)) % FRAME = 0
      /\ \A m \in Nat : m % FRAME = 0 /\ m >= From(i) => m >= AlignUp(From(i))
  BY <1>1, AlignUpIsNext
<1>3. Candidate(i) = AlignUp(From(i))
  BY DEF Candidate, From
<1>4. From(i) >= memory_regions[i].start /\ (i = region_idx => From(i) >= next_addr)
  BY <1>1 DEF From
<1>5. \A m \in Nat : m >= memory_regions[i].start /\ (i = region_idx => m >= next_addr)
                        => m >= From(i)
  BY <1>1 DEF From
<1> HIDE DEF From
<1>6. \A a, b, c \in Nat : a >= b /\ b >= c => a >= c
  OBVIOUS
<1> QED BY <1>1, <1>2, <1>3, <1>4, <1>5, <1>6

\* A region without a frame for the cursor has none left to hand out.
LEMMA NotFits ==
  ASSUME HeapTypeOK, NEW i \in Ahead, ~Fits(i),
         NEW addr \in Nat, addr % FRAME = 0, Inside(addr, i)
  PROVE  Passed(addr, i)
<1>1. i \in 1..Len(memory_regions) /\ i >= region_idx /\ next_addr \in Nat
  BY MapType
<1>2. memory_regions[i].start <= addr /\ addr + FRAME <= memory_regions[i].end
      /\ memory_regions[i].usable
  BY DEF Inside
<1>3. Candidate(i) + FRAME > memory_regions[i].end /\ Candidate(i) \in Nat
  BY <1>1, <1>2, MapType, CandidateIsNext, FrameAssumption DEF Fits
<1>4. ~(addr >= Candidate(i))
  BY <1>1, <1>2, <1>3, MapType, FrameAssumption
<1>5. i = region_idx /\ ~(addr >= next_addr)
  BY <1>1, <1>2, <1>4, MapType, CandidateIsNext
<1> QED BY <1>1, <1>5 DEF Passed

LEMMA AllocateInv ==
  ASSUME HeapTypeOK, PlaceInv, FramesDisjoint, FullInv, allocate_frame,
         UNCHANGED memory_regions
  PROVE  /\ region_idx' \in 1..Len(memory_regions) /\ next_addr' \in Nat
         /\ frames' \in Seq(Nat)
         /\ PlaceInv' /\ FramesDisjoint' /\ FullInv'
<1>0. PICK i \in Ahead :
        /\ Fits(i)
        /\ \A j \in region_idx..(i - 1) : ~Fits(j)
        /\ region_idx' = i
        /\ next_addr' = Candidate(i) + FRAME
        /\ frames' = Append(frames, Candidate(i))
  BY DEF allocate_frame
<1>1. PICK frame \in Nat : frame = Candidate(i)
  BY CandidateIsNext
<1>2. /\ frame % FRAME = 0 /\ frame >= memory_regions[i].start
      /\ i = region_idx => frame >= next_addr
      /\ \A m \in Nat : /\ m % FRAME = 0
                        /\ m >= memory_regions[i].start
                        /\ i = region_idx => m >= next_addr
                       => m >= frame
  BY <1>1, CandidateIsNext
<1>3. frame + FRAME <= memory_regions[i].end /\ memory_regions[i].usable
  BY <1>0, <1>1 DEF Fits
<1>4. /\ FRAME \in Nat \ {0} /\ i \in 1..Len(memory_regions) /\ i >= region_idx
      /\ Len(memory_regions) \in Nat /\ region_idx \in Nat \ {0} /\ next_addr \in Nat
      /\ memory_regions[i].start \in Nat /\ memory_regions[i].end \in Nat
  BY MapType, FrameAssumption
<1>5. /\ region_idx' = i /\ next_addr' = frame + FRAME /\ memory_regions' = memory_regions
      /\ frames' = Append(frames, frame)
  BY <1>0, <1>1
<1>6. /\ frames' \in Seq(Nat) /\ Len(frames') = Len(frames) + 1 /\ Len(frames) \in Nat
      /\ \A k \in 1..Len(frames) : frames'[k] = frames[k] /\ frames[k] \in Nat
      /\ frames'[Len(frames) + 1] = frame
      /\ \A k \in 1..Len(frames') : k \in 1..Len(frames) \/ k = Len(frames) + 1
  <2>1. frames \in Seq(Nat)
    BY DEF HeapTypeOK
  <2>2. /\ frames' \in Seq(Nat) /\ Len(frames') = Len(frames) + 1 /\ Len(frames) \in Nat
        /\ \A k \in 1..Len(frames) : frames'[k] = frames[k] /\ frames[k] \in Nat
        /\ frames'[Len(frames) + 1] = frame
    BY <1>2, <1>5, <2>1, AppendProperties, MapType
  <2> QED BY <2>2
<1>7. \A m \in Nat : Behind(m) =>
        m + FRAME <= frame \/ frame + FRAME <= m
  <2> SUFFICES ASSUME NEW m \in Nat, Behind(m)
               PROVE  m + FRAME <= frame \/ frame + FRAME <= m
    OBVIOUS
  <2>1. PICK j \in 1..Len(memory_regions) :
          j <= region_idx /\ Inside(m, j) /\ (j = region_idx => m + FRAME <= next_addr)
    BY DEF Behind
  <2>2. CASE j = i
    BY <1>2, <1>4, <2>1, <2>2
  <2>3. CASE j # i
    <3>1. /\ memory_regions[i].end <= memory_regions[j].start
             \/ memory_regions[j].end <= memory_regions[i].start
          /\ memory_regions[j].start \in Nat /\ memory_regions[j].end \in Nat
      BY <1>4, <2>3, MapType
    <3>2. memory_regions[j].start <= m /\ m + FRAME <= memory_regions[j].end
      BY <2>1 DEF Inside
    <3> QED BY <1>2, <1>3, <1>4, <3>1, <3>2
  <2> QED BY <2>2, <2>3
<1>8. \A m \in Nat : Behind(m) => Behind(m)'
  <2> SUFFICES ASSUME NEW m \in Nat, Behind(m)
               PROVE  \E j \in 1..Len(memory_regions) :
                        /\ j <= i /\ Inside(m, j)
                        /\ j = i => m + FRAME <= frame + FRAME
    BY <1>5 DEF Behind, Inside
  <2>1. PICK j \in 1..Len(memory_regions) :
          j <= region_idx /\ Inside(m, j) /\ (j = region_idx => m + FRAME <= next_addr)
    BY DEF Behind
  <2>2. j <= i /\ (j = i => m + FRAME <= frame + FRAME)
    BY <1>2, <1>4, <2>1
  <2> QED BY <2>1, <2>2
<1>9. PlaceInv'
  <2>1. Behind(frame)'
    <3> SUFFICES \E j \in 1..Len(memory_regions) :
                   /\ j <= i /\ Inside(frame, j)
                   /\ j = i => frame + FRAME <= frame + FRAME
      BY <1>5 DEF Behind, Inside
    <3>1. i <= i /\ Inside(frame, i) /\ frame + FRAME <= frame + FRAME
      BY <1>2, <1>3, <1>4 DEF Inside
    <3> QED BY <1>4, <3>1
  <2> QED BY <1>2, <1>6, <1>8, <2>1 DEF PlaceInv
<1>10. FramesDisjoint'
  BY <1>4, <1>6, <1>7 DEF FramesDisjoint, PlaceInv
<1>11. FullInv'
  <2> SUFFICES ASSUME NEW j \in 1..Len(memory_regions),
                      NEW addr \in memory_regions[j].start..memory_regions[j].end,
                      addr % FRAME = 0, Inside(addr, j),
                      j < i \/ (j = i /\ addr < frame + FRAME)
               PROVE  \E k \in 1..Len(frames') : frames'[k] = addr
    BY <1>5 DEF FullInv, Inside, Passed
  <2>1. addr \in Nat /\ memory_regions[j].start \in Nat /\ memory_regions[j].start <= addr
    BY MapType
  <2>2. CASE Passed(addr, j)
    <3>1. PICK k \in 1..Len(frames) : frames[k] = addr
      BY <2>2 DEF FullInv
    <3> QED BY <1>6, <3>1
  <2>3. CASE ~Passed(addr, j) /\ j = i
    <3>1. addr <= frame
      BY <1>2, <1>4, <2>1, <2>3, BoundariesApart
    <3>2. i = region_idx => addr >= next_addr
      BY <1>4, <2>1, <2>3 DEF Passed
    <3>3. addr >= frame
      BY <1>2, <2>1, <2>3, <3>2
    <3> QED BY <1>2, <1>6, <2>1, <3>1, <3>3
  <2>4. CASE ~Passed(addr, j) /\ j < i
    <3>1. j \in region_idx..(i - 1) /\ j \in Ahead
      BY <1>4, <2>4 DEF Passed, Ahead
    <3> QED BY <1>0, <2>1, <2>4, <3>1, NotFits
  <2> QED BY <2>2, <2>3, <2>4
<1> QED BY <1>2, <1>4, <1>5, <1>6, <1>9, <1>10, <1>11

LEMMA NoFrameInv ==
  ASSUME HeapTypeOK, PlaceInv, FramesDisjoint, FullInv, NoFrame,
         UNCHANGED memory_regions
  PROVE  /\ region_idx' = Len(memory_regions) + 1 /\ next_addr' \in Nat
         /\ frames' \in Seq(Nat)
         /\ PlaceInv' /\ FramesDisjoint' /\ FullInv'
<1>1. /\ region_idx' = Len(memory_regions) + 1 /\ next_addr' = 0 /\ frames' = frames
      /\ memory_regions' = memory_regions
      /\ \A i \in Ahead : ~Fits(i)
  BY DEF NoFrame
<1>2. frames' \in Seq(Nat)
  BY <1>1 DEF HeapTypeOK
<1>3. PlaceInv'
  <2>1. \A m \in Nat : Behind(m) => Behind(m)'
    <3> SUFFICES ASSUME NEW m \in Nat, NEW j \in 1..Len(memory_regions), Inside(m, j)
                 PROVE  Behind(m)'
      BY DEF Behind
    <3>1. j <= Len(memory_regions) + 1 /\ j # Len(memory_regions) + 1
      BY MapType
    <3> QED BY <1>1, <3>1 DEF Behind, Inside
  <2> QED BY <1>1, <2>1, MapType DEF PlaceInv
<1>4. FramesDisjoint'
  BY <1>1 DEF FramesDisjoint
<1>5. FullInv'
  <2> SUFFICES ASSUME NEW j \in 1..Len(memory_regions),
                      NEW addr \in memory_regions[j].start..memory_regions[j].end,
                      addr % FRAME = 0, Inside(addr, j)
               PROVE  \E k \in 1..Len(frames) : frames[k] = addr
    BY <1>1 DEF FullInv, Inside
  <2>1. addr \in Nat
    BY MapType
  <2>2. Passed(addr, j)
    <3>1. CASE j < region_idx
      BY <3>1 DEF Passed
    <3>2. CASE j \in Ahead
      BY <1>1, <2>1, <3>2, NotFits
    <3> QED BY <3>1, <3>2, MapType DEF Ahead
  <2> QED BY <2>2 DEF FullInv
<1> QED BY <1>1, <1>2, <1>3, <1>4, <1>5

-----------------------------------------------------------------------------
LEMMA HeapInitInv == HeapInit => HeapInv
<1> SUFFICES ASSUME HeapInit PROVE HeapInv
  OBVIOUS
<1>1. HeapTypeOK
  <2>1. Len(memory_regions) \in Nat
    BY MapAssumption, LenProperties DEF HeapInit
  <2>2. 0 \in 0..HEAP_PAGES /\ 0 \in 0..(LEVELS * HEAP_PAGES)
    BY HeapAssumption
  <2>3. 1 \in 1..(Len(memory_regions) + 1)
    BY <2>1
  <2> QED BY <2>2, <2>3, EmptySeq DEF HeapInit, HeapTypeOK
<1>2. Len(frames) = 0
  BY EmptySeq DEF HeapInit
<1>3. PlaceInv /\ FramesDisjoint
  BY <1>2 DEF PlaceInv, FramesDisjoint
<1>4. FullInv
  <2>1. \A i \in 1..Len(memory_regions) :
          \A addr \in memory_regions[i].start..memory_regions[i].end : ~Passed(addr, i)
    BY <1>1, MapType DEF Passed, HeapInit
  <2> QED BY <2>1 DEF FullInv
<1>5. StageInv
  BY DEF HeapInit, StageInv
<1> QED BY <1>1, <1>3, <1>4, <1>5 DEF HeapInv

LEMMA TablesBound ==
  ASSUME NEW m \in Nat, m < HEAP_PAGES
  PROVE  LEVELS * (m + 1) \in Nat /\ LEVELS * (m + 1) <= LEVELS * HEAP_PAGES
<1>1. \A l, a, b \in Nat : a <= b => l * a <= l * b /\ l * a \in Nat
  OBVIOUS
<1>2. m + 1 \in Nat /\ m + 1 <= HEAP_PAGES /\ HEAP_PAGES \in Nat /\ LEVELS \in Nat
  BY HeapAssumption
<1> QED BY <1>1, <1>2

LEMMA HeapNextInv == HeapInv /\ [init_heap]_memoryVars => HeapInv'
<1> SUFFICES ASSUME HeapInv, [init_heap]_memoryVars PROVE HeapInv'
  OBVIOUS
<1>1. /\ HeapTypeOK /\ PlaceInv /\ FramesDisjoint /\ FullInv /\ StageInv
      /\ Len(memory_regions) \in Nat
  BY MapType DEF HeapInv
<1>2. ASSUME UNCHANGED <<memory_regions, region_idx, next_addr, frames>>
      PROVE  PlaceInv' /\ FramesDisjoint' /\ FullInv'
  BY <1>1, <1>2 DEF PlaceInv, Behind, FramesDisjoint, FullInv, Passed, Inside
<1>3. CASE MapPage
  <2>1. CASE allocate_frame /\ heapAt' = "map_to"
    <3>1. /\ region_idx' \in 1..Len(memory_regions) /\ next_addr' \in Nat
          /\ frames' \in Seq(Nat) /\ PlaceInv' /\ FramesDisjoint' /\ FullInv'
      BY <1>1, <1>3, <2>1, AllocateInv DEF MapPage
    <3>2. HeapTypeOK'
      BY <1>1, <1>3, <2>1, <3>1 DEF MapPage, HeapTypeOK
    <3>3. StageInv'
      BY <1>3, <2>1 DEF MapPage, StageInv
    <3> QED BY <3>1, <3>2, <3>3 DEF HeapInv
  <2>2. CASE NoFrame /\ heapAt' = "failed"
    <3>1. /\ region_idx' = Len(memory_regions) + 1 /\ next_addr' \in Nat
          /\ frames' \in Seq(Nat) /\ PlaceInv' /\ FramesDisjoint' /\ FullInv'
      BY <1>1, <1>3, <2>2, NoFrameInv DEF MapPage
    <3>2. HeapTypeOK'
      BY <1>1, <1>3, <2>2, <3>1 DEF MapPage, HeapTypeOK
    <3>3. StageInv'
      BY <1>3, <2>2, <3>1 DEF MapPage, StageInv
    <3> QED BY <3>1, <3>2, <3>3 DEF HeapInv
  <2> QED BY <1>3, <2>1, <2>2 DEF MapPage
<1>4. CASE NewTable
  <2>1. mapped \in Nat /\ mapped < HEAP_PAGES /\ tables \in Nat
    BY <1>1, <1>4, HeapAssumption DEF NewTable, StageInv, HeapTypeOK
  <2>2. CASE allocate_frame /\ tables' = tables + 1 /\ heapAt' = heapAt
    <3>1. /\ region_idx' \in 1..Len(memory_regions) /\ next_addr' \in Nat
          /\ frames' \in Seq(Nat) /\ PlaceInv' /\ FramesDisjoint' /\ FullInv'
      BY <1>1, <1>4, <2>2, AllocateInv DEF NewTable
    <3>2. tables' \in 0..(LEVELS * HEAP_PAGES)
      <4> DEFINE some == LEVELS * (mapped + 1)
                 all == LEVELS * HEAP_PAGES
      <4>1. some \in Nat /\ some <= all /\ tables < some /\ all \in Nat
        BY <1>4, <2>1, TablesBound, HeapAssumption DEF NewTable
      <4> HIDE DEF some, all
      <4>2. tables' \in 0..all
        BY <2>1, <2>2, <4>1
      <4> QED BY <4>2 DEF all
    <3>3. HeapTypeOK'
      BY <1>1, <1>4, <2>2, <3>1, <3>2 DEF NewTable, HeapTypeOK
    <3>4. StageInv'
      BY <1>1, <1>4, <2>2 DEF NewTable, StageInv
    <3> QED BY <3>1, <3>3, <3>4 DEF HeapInv
  <2>3. CASE NoFrame /\ heapAt' = "failed" /\ tables' = tables
    <3>1. /\ region_idx' = Len(memory_regions) + 1 /\ next_addr' \in Nat
          /\ frames' \in Seq(Nat) /\ PlaceInv' /\ FramesDisjoint' /\ FullInv'
      BY <1>1, <1>4, <2>3, NoFrameInv DEF NewTable
    <3>2. HeapTypeOK'
      BY <1>1, <1>4, <2>3, <3>1 DEF NewTable, HeapTypeOK
    <3>3. StageInv'
      BY <1>4, <2>3, <3>1 DEF NewTable, StageInv
    <3> QED BY <3>1, <3>2, <3>3 DEF HeapInv
  <2> QED BY <1>4, <2>2, <2>3 DEF NewTable
<1>5. CASE Mapped
  <2>1. mapped' \in 0..HEAP_PAGES
    BY <1>1, <1>5, HeapAssumption DEF Mapped, StageInv, HeapTypeOK
  <2>2. HeapTypeOK' /\ StageInv'
    BY <1>1, <1>5, <2>1 DEF Mapped, HeapTypeOK, StageInv
  <2> QED BY <1>2, <1>5, <2>2 DEF Mapped, HeapInv
<1>6. CASE HeapReady \/ UNCHANGED memoryVars
  <2>1. HeapTypeOK' /\ StageInv'
    BY <1>1, <1>6 DEF HeapReady, memoryVars, HeapTypeOK, StageInv
  <2> QED BY <1>2, <1>6, <2>1 DEF HeapReady, memoryVars, HeapInv
<1> QED BY <1>3, <1>4, <1>5, <1>6 DEF init_heap

(* The cursor tells what has been handed out and what has not, in every    *)
(* state of init_heap, for every memory map.                               *)
THEOREM HeapInvariance == HeapSpec => []HeapInv
BY HeapInitInv, HeapNextInv, PTL DEF HeapSpec

(* The cursor stays in the map, or just behind it, and init_heap asks for  *)
(* no more page tables than its pages can need.                            *)
THEOREM HeapTypeCorrect == HeapSpec => []HeapTypeOK
<1>1. HeapInv => HeapTypeOK
  BY DEF HeapInv
<1> QED BY <1>1, HeapInvariance, PTL

(* allocate_frame hands out aligned frames of usable regions only          *)
(* (memory.rs:42), whatever the borders of the regions and their order.    *)
THEOREM HandsOutUsable == HeapSpec => []FramesUsable
<1>1. HeapInv => FramesUsable
  BY DEF HeapInv, PlaceInv, Behind, FramesUsable
<1> QED BY <1>1, HeapInvariance, PTL

(* No two frames it hands out overlap: the heap's pages and the page       *)
(* tables each own their memory.                                           *)
THEOREM HandsOutOnce == HeapSpec => []FramesDisjoint
<1>1. HeapInv => FramesDisjoint
  BY DEF HeapInv
<1> QED BY <1>1, HeapInvariance, PTL

(* init_heap fails only when every frame of every usable region is taken.  *)
THEOREM FailsWhenFull == HeapSpec => []FailsOnlyWhenFull
<1>1. HeapInv => FailsOnlyWhenFull
  <2> SUFFICES ASSUME HeapInv, heapAt = "failed",
                      NEW i \in 1..Len(memory_regions),
                      NEW addr \in memory_regions[i].start..memory_regions[i].end
               PROVE  Passed(addr, i)
    BY DEF HeapInv, FullInv, FailsOnlyWhenFull
  <2> QED BY MapType DEF HeapInv, StageInv, Passed
<1> QED BY <1>1, HeapInvariance, PTL

-----------------------------------------------------------------------------
(***************************************************************************)
(* Keyboard bring-up: the inductive invariant.                             *)
(***************************************************************************)
BeforeSet   == {"pics", "drain", "ask", "answer", "set", "config"}
AfterAnswer == {"set", "config", "port", "scan", "ack", "sti", "on"}

\* As long as no wait runs out, the controller has been given one byte at most,
\* and the one that the step before was for.
HandshakeInv ==
  ~gaveUp =>
    /\ kbAt \in {"pics", "drain", "ask"} => input = "none"
    /\ kbAt \in {"answer", "set"} => input \in {"none", "read_config"}
    /\ kbAt = "config" => input \in {"none", "write_config"}
    /\ kbAt = "port" => input \in {"none", "config"}
    /\ kbAt = "scan" => input \in {"none", "enable"}
    /\ kbAt \in {"ack", "sti", "on"} => input \in {"none", "scan"}

\* The configuration is firmware's until the new one has been processed.
ConfigInv ==
  ~gaveUp =>
    /\ kbAt \in AfterAnswer => written.irq1 /\ ~written.clock_off
    /\ kbAt \in BeforeSet \/ input = "config" => config = firmware.config
    /\ \/ kbAt = "port" /\ input = "none"
       \/ kbAt \in {"scan", "ack", "sti", "on"}
       => config = written
    /\ kbAt \in {"ack", "sti", "on"} /\ input = "none" => scanning

\* With everything drained and no key struck, the answer is the answer.
AnswerInv ==
  ~gaveUp /\ struck = 0 /\ firmware.left <= DRAIN =>
    /\ kbAt = "pics" => Len(output) <= firmware.left
    /\ kbAt = "drain" => Len(output) + tries <= firmware.left
    /\ kbAt = "ask" => output = <<>>
    /\ kbAt = "answer" /\ input = "read_config" => output = <<>>
    /\ kbAt = "answer" /\ input = "none" => output # <<>> /\ Head(output) = "config"
    /\ kbAt \in AfterAnswer => written.translate = firmware.config.translate

\* Reading the answer brings back an interrupt that InitPics forgot.
LatchInv == kbAt \in AfterAnswer /\ output # <<>> /\ config.irq1 => latched

KbInv == KbTypeOK /\ HandshakeInv /\ ConfigInv /\ AnswerInv /\ LatchInv

-----------------------------------------------------------------------------
(***************************************************************************)
(* The types, flags and values apart.                                      *)
(***************************************************************************)
KbFlagsOK ==
  /\ config \in Config /\ written \in Config
  /\ firmware \in [config : Config, left : 0..STALE]
  /\ scanning \in BOOLEAN /\ latched \in BOOLEAN /\ gaveUp \in BOOLEAN

Bytes == {"stale", "key", "config", "ack"}

KbValuesOK ==
  /\ output \in Seq(Bytes)
  /\ input \in {"none", "read_config", "write_config", "config", "enable", "scan"}
  /\ struck \in 0..STROKES
  /\ kbAt \in Steps
  /\ tries \in 0..(IF kbAt = "drain" THEN DRAIN ELSE WAITS)

LEMMA KbTypeParts ==
  /\ KbTypeOK <=> KbFlagsOK /\ KbValuesOK
  /\ KbTypeOK' <=> KbFlagsOK' /\ KbValuesOK'
BY DEF KbTypeOK, KbFlagsOK, KbValuesOK, Bytes

\* The five bytes that are sent.
Sends ==
  \/ Send("ask", "read_config", "answer")
  \/ Send("set", "write_config", "config")
  \/ Send("config", "config", "port")
  \/ Send("port", "enable", "scan")
  \/ Send("scan", "scan", "ack")

LEMMA KbCases ==
  ASSUME [KbNext]_kbVars
  PROVE  \/ UNCHANGED kbVars \/ InitPics \/ Drain \/ Sends \/ ReadConfig \/ TakeAck
         \/ EnableInterrupts \/ HandleIrq1 \/ KeyStruck \/ Process
BY DEF KbNext, interrupts_init, Sends

LEMMA EditedConfig ==
  ASSUME NEW byte \in Config
  PROVE  /\ [byte EXCEPT !.clock_off = FALSE] \in Config
         /\ WithKeyboardOn(byte) \in Config
         /\ WithKeyboardOn(byte).irq1 /\ ~WithKeyboardOn(byte).clock_off
         /\ WithKeyboardOn(byte).translate = byte.translate
         /\ ~byte.clock_off => [byte EXCEPT !.clock_off = FALSE] = byte
BY DEF Config, WithKeyboardOn

LEMMA KbFlagsStep ==
  ASSUME KbFlagsOK, [KbNext]_kbVars
  PROVE  KbFlagsOK'
<1> USE DEF KbFlagsOK
<1>1. CASE UNCHANGED kbVars
  BY <1>1, Zenon DEF kbVars, controller, bringUp
<1>2. CASE InitPics \/ EnableInterrupts
  BY <1>2, Zenon DEF InitPics, EnableInterrupts, Done, controller
<1>3. CASE Drain
  BY <1>3, Zenon DEF Drain, Done, TakeByte, Edge
<1>4. CASE Sends
  BY <1>4, Zenon DEF Sends, Send, Done, KeepWaiting, GoOn
<1>5. CASE ReadConfig
  <2>1. gaveUp' \in BOOLEAN /\ latched' \in BOOLEAN
    BY <1>5, Zenon DEF ReadConfig, Done, KeepWaiting, GoOn, TakeByte, Edge
  <2>2. written' \in Config
    BY <1>5, EditedConfig DEF ReadConfig
  <2> QED BY <1>5, <2>1, <2>2, Zenon DEF ReadConfig
<1>6. CASE TakeAck
  BY <1>6, Zenon DEF TakeAck, Done, KeepWaiting, GoOn, TakeByte, Edge
<1>7. CASE HandleIrq1
  <2>1. latched' \in BOOLEAN
    BY <1>7 DEF HandleIrq1, Edge
  <2> QED BY <1>7, <2>1, Zenon DEF HandleIrq1, bringUp
<1>8. CASE KeyStruck
  BY <1>8, Zenon DEF KeyStruck, Deliver, bringUp
<1>9. CASE Process
  <2>1. latched' \in BOOLEAN /\ scanning' \in BOOLEAN
    BY <1>9, Zenon DEF Process, Deliver, Configure, Edge
  <2>2. config' \in Config
    BY <1>9, EditedConfig DEF Process, Configure
  <2> QED BY <1>9, <2>1, <2>2, Zenon DEF Process, bringUp
<1> QED BY <1>1, <1>2, <1>3, <1>4, <1>5, <1>6, <1>7, <1>8, <1>9, KbCases

LEMMA QueueTypes ==
  ASSUME NEW out \in Seq(Bytes), NEW byte \in Bytes
  PROVE  /\ Append(out, byte) \in Seq(Bytes)
         /\ (IF out = <<>> THEN <<>> ELSE Tail(out)) \in Seq(Bytes)
         /\ Append(out, byte) # <<>>
         /\ out # <<>> => Head(Append(out, byte)) = Head(out)
         /\ out = <<>> => Head(Append(out, byte)) = byte
         /\ Len(out) \in Nat /\ (Len(out) = 0 <=> out = <<>>)
         /\ out # <<>> => Len(Tail(out)) = Len(out) - 1
<1>1. /\ Append(out, byte) \in Seq(Bytes) /\ Len(Append(out, byte)) = Len(out) + 1
      /\ Len(out) \in Nat
      /\ Append(out, byte)[Len(out) + 1] = byte
      /\ \A i \in 1..Len(out) : Append(out, byte)[i] = out[i]
  BY AppendProperties, LenProperties
<1>2. /\ Append(out, byte) # <<>> /\ Head(Append(out, byte)) = Append(out, byte)[1]
      /\ (Len(out) = 0 <=> out = <<>>)
  <2>1. Len(Append(out, byte)) # 0
    BY <1>1
  <2>2. \A s \in Seq(Bytes) : Len(s) = 0 <=> s = <<>>
    BY EmptySeq
  <2> QED BY <1>1, <2>1, <2>2, HeadTailProperties
<1>3. out # <<>> => Head(out) = out[1] /\ Tail(out) \in Seq(Bytes)
                     /\ Len(Tail(out)) = Len(out) - 1
  BY HeadTailProperties
<1>4. (IF out = <<>> THEN <<>> ELSE Tail(out)) \in Seq(Bytes)
  BY <1>3, EmptySeq
<1> QED BY <1>1, <1>2, <1>3, <1>4

LEMMA KbValuesStep ==
  ASSUME KbValuesOK, [KbNext]_kbVars
  PROVE  KbValuesOK'
<1> USE I8042Assumption DEF KbValuesOK, Steps
<1>1. CASE UNCHANGED kbVars
  BY <1>1 DEF kbVars, controller, bringUp
<1>2. CASE InitPics \/ EnableInterrupts
  BY <1>2 DEF InitPics, EnableInterrupts, Done, controller
<1>3. CASE Drain
  <2>1. output' \in Seq(Bytes)
    BY <1>3, QueueTypes DEF Drain, TakeByte, Bytes
  <2> QED BY <1>3, <2>1 DEF Drain, Done
<1>4. CASE Sends
  BY <1>4 DEF Sends, Send, Done, KeepWaiting, GoOn
<1>5. CASE ReadConfig \/ TakeAck
  <2>1. output' \in Seq(Bytes)
    BY <1>5, QueueTypes DEF ReadConfig, TakeAck, TakeByte, Bytes
  <2> QED BY <1>5, <2>1 DEF ReadConfig, TakeAck, Done, KeepWaiting, GoOn
<1>6. CASE HandleIrq1
  <2>1. output' \in Seq(Bytes)
    BY <1>6, QueueTypes DEF HandleIrq1, Bytes
  <2> QED BY <1>6, <2>1 DEF HandleIrq1, bringUp
<1>7. CASE KeyStruck
  <2>1. output' \in Seq(Bytes)
    BY <1>7, QueueTypes DEF KeyStruck, Deliver, Bytes
  <2> QED BY <1>7, <2>1 DEF KeyStruck, bringUp
<1>8. CASE Process
  <2>1. output' \in Seq(Bytes)
    BY <1>8, QueueTypes DEF Process, Deliver, Configure, Bytes
  <2> QED BY <1>8, <2>1 DEF Process, bringUp
<1> QED BY <1>1, <1>2, <1>3, <1>4, <1>5, <1>6, <1>7, <1>8, KbCases

-----------------------------------------------------------------------------
LEMMA HandshakeStep ==
  ASSUME HandshakeInv, [KbNext]_kbVars
  PROVE  HandshakeInv'
<1> USE DEF HandshakeInv
<1>1. CASE UNCHANGED kbVars
  BY <1>1 DEF kbVars, controller, bringUp
<1>2. CASE InitPics \/ EnableInterrupts
  BY <1>2 DEF InitPics, EnableInterrupts, Done, controller
<1>3. CASE Drain
  BY <1>3 DEF Drain, Done
<1>4. CASE Sends
  BY <1>4 DEF Sends, Send, Done, KeepWaiting, GoOn
<1>5. CASE ReadConfig \/ TakeAck
  BY <1>5 DEF ReadConfig, TakeAck, Done, KeepWaiting, GoOn
<1>6. CASE HandleIrq1 \/ KeyStruck
  BY <1>6 DEF HandleIrq1, KeyStruck, bringUp
<1>7. CASE Process
  BY <1>7 DEF Process, bringUp
<1> QED BY <1>1, <1>2, <1>3, <1>4, <1>5, <1>6, <1>7, KbCases

LEMMA ConfigStep ==
  ASSUME KbFlagsOK, KbValuesOK, HandshakeInv, ConfigInv, [KbNext]_kbVars
  PROVE  ConfigInv'
<1> USE DEF ConfigInv, BeforeSet, AfterAnswer
<1>1. CASE UNCHANGED kbVars
  BY <1>1 DEF kbVars, controller, bringUp
<1>2. CASE InitPics \/ EnableInterrupts
  BY <1>2 DEF InitPics, EnableInterrupts, Done, controller
<1>3. CASE Drain
  BY <1>3 DEF Drain, Done
<1>4. CASE Sends
  BY <1>4 DEF Sends, Send, Done, KeepWaiting, GoOn
<1>5. CASE ReadConfig
  <2>1. /\ kbAt = "answer" /\ UNCHANGED <<input, config, scanning, firmware>>
        /\ \/ kbAt' = "answer" /\ gaveUp' = gaveUp
           \/ kbAt' = "set" /\ gaveUp' = gaveUp /\ written'.irq1 /\ ~written'.clock_off
           \/ gaveUp'
    <3>1. \/ KeepWaiting
          \/ GoOn("set")
          \/ Done("set") /\ \E byte \in Config : written' = WithKeyboardOn(byte)
      BY <1>5 DEF ReadConfig
    <3>2. \A byte \in Config : WithKeyboardOn(byte).irq1 /\ ~WithKeyboardOn(byte).clock_off
      BY EditedConfig
    <3>3. \/ kbAt' = kbAt /\ gaveUp' = gaveUp
          \/ kbAt' = "set" /\ gaveUp' = gaveUp /\ written'.irq1 /\ ~written'.clock_off
          \/ gaveUp'
      BY <3>1, <3>2, Zenon DEF KeepWaiting, GoOn, Done
    <3> QED BY <1>5, <3>3 DEF ReadConfig
  <2> QED BY <2>1
<1>6. CASE TakeAck
  BY <1>6 DEF TakeAck, Done, KeepWaiting, GoOn
<1>7. CASE HandleIrq1 \/ KeyStruck
  BY <1>7 DEF HandleIrq1, KeyStruck, bringUp
<1>8. CASE Process
  <2>1. \/ config' = config /\ scanning' = scanning /\ input # "scan" /\ input # "config"
        \/ input = "config" /\ config' = written /\ scanning' = scanning
        \/ input = "enable" /\ config' = [config EXCEPT !.clock_off = FALSE]
           /\ scanning' = scanning
        \/ input = "scan" /\ config' = config /\ scanning'
        \/ gaveUp
    BY <1>8 DEF Process, Deliver, Configure
  <2>2. /\ config \in Config
        /\ ~config.clock_off => [config EXCEPT !.clock_off = FALSE] = config
    BY EditedConfig DEF KbFlagsOK
  <2>3. input' = "none" /\ input # "none" /\ UNCHANGED bringUp
    BY <1>8 DEF Process
  <2>4. CASE config' = config /\ scanning' = scanning /\ input # "scan" /\ input # "config"
    BY <2>3, <2>4 DEF HandshakeInv, bringUp
  <2>5. CASE input = "config" /\ config' = written /\ scanning' = scanning
    BY <2>3, <2>5 DEF HandshakeInv, bringUp
  <2>6. CASE input = "enable" /\ config' = [config EXCEPT !.clock_off = FALSE]
             /\ scanning' = scanning
    <3>1. ~gaveUp => kbAt = "scan" /\ config = written /\ ~written.clock_off
      BY <2>6 DEF HandshakeInv, KbValuesOK, Steps
    <3>2. ~gaveUp => config' = config
      BY <2>2, <2>6, <3>1
    <3> QED BY <2>3, <2>6, <3>1, <3>2 DEF bringUp
  <2>7. CASE input = "scan" /\ config' = config /\ scanning'
    BY <2>3, <2>7 DEF HandshakeInv, bringUp
  <2>8. CASE gaveUp
    BY <2>3, <2>8 DEF bringUp
  <2> QED BY <2>1, <2>4, <2>5, <2>6, <2>7, <2>8
<1> QED BY <1>1, <1>2, <1>3, <1>4, <1>5, <1>6, <1>7, <1>8, KbCases

LEMMA AnswerStep ==
  ASSUME KbFlagsOK, KbValuesOK, HandshakeInv, ConfigInv, AnswerInv, [KbNext]_kbVars
  PROVE  AnswerInv'
<1> USE DEF AnswerInv, AfterAnswer
<1>0. /\ output \in Seq(Bytes) /\ Len(output) \in Nat /\ (Len(output) = 0 <=> output = <<>>)
      /\ output # <<>> => Len(Tail(output)) = Len(output) - 1
      /\ firmware.left \in Nat /\ tries \in Nat /\ DRAIN \in Nat
  BY QueueTypes, I8042Assumption DEF KbValuesOK, KbFlagsOK, Bytes
<1>1. CASE UNCHANGED kbVars
  BY <1>1 DEF kbVars, controller, bringUp
<1>2. CASE InitPics
  BY <1>0, <1>2 DEF InitPics, Done
<1>3. CASE EnableInterrupts
  BY <1>3 DEF EnableInterrupts, Done, controller
<1>4. CASE Drain
  <2>1. CASE output # <<>> /\ tries < DRAIN /\ TakeByte /\ tries' = tries + 1
             /\ UNCHANGED <<kbAt, gaveUp>>
    <3>1. Len(output') = Len(output) - 1
      BY <1>0, <2>1 DEF TakeByte
    <3> QED BY <1>0, <1>4, <2>1, <3>1 DEF Drain
  <2>2. CASE (output = <<>> \/ tries = DRAIN) /\ Done("ask") /\ UNCHANGED <<output, latched>>
    BY <1>0, <1>4, <2>2 DEF Drain, Done
  <2> QED BY <1>4, <2>1, <2>2 DEF Drain
<1>5. CASE Sends
  BY <1>5 DEF Sends, Send, Done, KeepWaiting, GoOn
<1>6. CASE ReadConfig
  <2>1. CASE KeepWaiting /\ UNCHANGED <<output, latched, written>>
    BY <1>6, <2>1 DEF ReadConfig, KeepWaiting
  <2>2. CASE GoOn("set")
    BY <2>2 DEF GoOn
  <2>3. CASE output # <<>> /\ Done("set") /\ \E byte \in Config :
               /\ output # <<>> /\ Head(output) = "config" => byte = config
               /\ written' = WithKeyboardOn(byte)
    <3> SUFFICES ASSUME ~gaveUp, struck = 0, firmware.left <= DRAIN
                 PROVE  written'.translate = firmware.config.translate
      BY <1>6, <2>3 DEF ReadConfig, Done
    <3>1. Head(output) = "config" /\ config = firmware.config
      BY <1>6, <2>3 DEF ReadConfig, HandshakeInv, ConfigInv, BeforeSet
    <3> QED BY <2>3, <3>1, EditedConfig
  <2> QED BY <1>6, <2>1, <2>2, <2>3 DEF ReadConfig
<1>7. CASE TakeAck
  BY <1>7 DEF TakeAck, Done, KeepWaiting, GoOn
<1>8. CASE HandleIrq1
  BY <1>8 DEF HandleIrq1, bringUp
<1>9. CASE KeyStruck
  <2>1. struck' # 0
    BY <1>9 DEF KeyStruck, KbValuesOK
  <2> QED BY <2>1
<1>10. CASE Process
  <2>1. input' = "none" /\ input # "none" /\ UNCHANGED <<struck, bringUp>>
    BY <1>10 DEF Process
  <2>2. CASE input = "read_config" /\ Deliver("config")
    <3>1. output' # <<>> /\ (output = <<>> => Head(output') = "config")
      BY <1>0, <2>2, QueueTypes DEF Deliver, Bytes
    <3> QED BY <2>1, <2>2, <3>1 DEF bringUp, HandshakeInv
  <2>3. CASE input # "read_config"
    BY <2>1, <2>3 DEF bringUp, HandshakeInv
  <2>4. CASE gaveUp
    BY <2>1, <2>4 DEF bringUp
  <2> QED BY <1>10, <2>2, <2>3, <2>4 DEF Process
<1> QED BY <1>1, <1>2, <1>3, <1>4, <1>5, <1>6, <1>7, <1>8, <1>9, <1>10, KbCases

LEMMA LatchStep ==
  ASSUME LatchInv, [KbNext]_kbVars
  PROVE  LatchInv'
<1> USE DEF LatchInv, AfterAnswer
<1>1. CASE UNCHANGED kbVars
  BY <1>1 DEF kbVars, controller, bringUp
<1>2. CASE InitPics \/ EnableInterrupts
  BY <1>2 DEF InitPics, EnableInterrupts, Done, controller
<1>3. CASE Drain
  BY <1>3 DEF Drain, Done
<1>4. CASE Sends
  BY <1>4 DEF Sends, Send, Done, KeepWaiting, GoOn
<1>5. CASE ReadConfig \/ TakeAck
  BY <1>5 DEF ReadConfig, TakeAck, Done, KeepWaiting, GoOn, TakeByte, Edge
<1>6. CASE HandleIrq1
  BY <1>6 DEF HandleIrq1, Edge, bringUp
<1>7. CASE KeyStruck
  BY <1>7 DEF KeyStruck, Deliver, bringUp
<1>8. CASE Process
  <2>1. \/ latched' = (latched \/ (output = <<>> /\ config.irq1)) /\ config' = config
        \/ UNCHANGED <<output, config, latched>>
        \/ /\ latched' = (latched \/ (~config.irq1 /\ config'.irq1 /\ output # <<>>))
           /\ output' = output
    BY <1>8, Zenon DEF Process, Deliver, Configure, Edge
  <2>2. kbAt' = kbAt
    BY <1>8 DEF Process, bringUp
  <2> QED BY <2>1, <2>2, Zenon
<1> QED BY <1>1, <1>2, <1>3, <1>4, <1>5, <1>6, <1>7, <1>8, KbCases

LEMMA KbInitInv == KbInit => KbInv
<1> SUFFICES ASSUME KbInit PROVE KbInv
  OBVIOUS
<1>1. PICK n \in 0..STALE : output = [i \in 1..n |-> "stale"]
  BY DEF KbInit
<1>2. output \in Seq(Bytes) /\ Len(output) = n
  <2>1. n \in Nat /\ output \in [1..n -> Bytes]
    BY <1>1, I8042Assumption DEF Bytes
  <2>2. output \in Seq(Bytes)
    BY <2>1, SeqDef
  <2> QED BY <2>1, <2>2, LenProperties
<1>3. KbFlagsOK
  <2>1. firmware \in [config : Config, left : 0..STALE]
    BY <1>2 DEF KbInit
  <2> QED BY <2>1, Zenon DEF KbInit, KbFlagsOK
<1>4. KbValuesOK
  BY <1>2, I8042Assumption DEF KbInit, KbValuesOK, Steps
<1>5. HandshakeInv
  BY DEF KbInit, HandshakeInv
<1>6. ConfigInv
  BY DEF KbInit, ConfigInv, AfterAnswer
<1>7. AnswerInv
  <2>1. kbAt = "pics" /\ Len(output) <= firmware.left
    BY <1>2 DEF KbInit
  <2> QED BY <2>1 DEF AnswerInv, AfterAnswer
<1>8. LatchInv
  BY DEF KbInit, LatchInv, AfterAnswer
<1> QED BY <1>3, <1>4, <1>5, <1>6, <1>7, <1>8, KbTypeParts DEF KbInv

LEMMA KbNextInv == KbInv /\ [KbNext]_kbVars => KbInv'
<1> SUFFICES ASSUME KbInv, [KbNext]_kbVars PROVE KbInv'
  OBVIOUS
<1>1. KbFlagsOK /\ KbValuesOK /\ HandshakeInv /\ ConfigInv /\ AnswerInv /\ LatchInv
  BY KbTypeParts DEF KbInv
<1>2. KbTypeOK'
  BY <1>1, KbFlagsStep, KbValuesStep, KbTypeParts
<1>3. HandshakeInv' /\ ConfigInv'
  BY <1>1, HandshakeStep, ConfigStep
<1>4. AnswerInv' /\ LatchInv'
  BY <1>1, AnswerStep, LatchStep
<1> QED BY <1>2, <1>3, <1>4 DEF KbInv

(* The conversation with the controller is in step, or some wait ran out.  *)
THEOREM KbInvariance == KbSpec => []KbInv
BY KbInitInv, KbNextInv, PTL DEF KbSpec

(* Every variable of the bring-up keeps its type: a wait looks no more     *)
(* often than its bound.                                                   *)
THEOREM KbTypeCorrect == KbSpec => []KbTypeOK
<1>1. KbInv => KbTypeOK
  BY DEF KbInv
<1> QED BY <1>1, KbInvariance, PTL

(* Whatever firmware left behind, keyboard::init leaves IRQ1, the clock    *)
(* and scanning on (keyboard.rs:16), if no wait runs out, for every bound. *)
THEOREM KeyboardComesOn == KbSpec => []KeyboardOn
<1>1. KbInv => KeyboardOn
  BY DEF KbInv, ConfigInv, AfterAnswer, KeyboardOn
<1> QED BY <1>1, KbInvariance, PTL

(* The translation bit is what firmware chose (keyboard.rs:19), if all of  *)
(* what it left is drained and no key is struck before the answer.         *)
THEOREM TranslationStays == KbSpec => []TranslationKept
<1>1. KbInv => TranslationKept
  BY DEF KbInv, ConfigInv, AnswerInv, AfterAnswer, TranslationKept
<1> QED BY <1>1, KbInvariance, PTL

(* No byte in port 0x60 is left without an interrupt once the handler runs *)
(* (interrupts.rs:65), waits that ran out and bytes lost included.         *)
THEOREM Irq1NeverWedged == KbSpec => []NeverWedged
<1>1. KbInv => NeverWedged
  BY DEF KbInv, LatchInv, AfterAnswer, NeverWedged
<1> QED BY <1>1, KbInvariance, PTL

-----------------------------------------------------------------------------
(***************************************************************************)
(* The clock: the inductive invariant.                                     *)
(***************************************************************************)

\* What the k-th register held at time t.
HeldAt(k, t) ==
  LET field == Registers[k]
  IN  IF field = "hour" THEN StoredHour(show[t].hour) ELSE Stored(show[t][field])

\* Each register of a reading was read at some time between these two.
ReadBetween(reading, from, to) ==
  \A k \in 1..Len(reading) : \E t \in from..to : reading[k] = HeldAt(k, t)

TurnsInv ==
  /\ rtcAt \in {"wait", "check"} => raw = <<>> /\ again = <<>>
  /\ rtcAt = "wait" => turns < RTC_POLLS
  /\ rtcAt = "check" => turns = 0
  /\ rtcAt = "read" => turns < RETRIES
  /\ rtcAt = "read" /\ raw = <<>> => turns = 0
  /\ rtcAt = "decode" => raw # <<>>

\* The last complete reading was made between the times a and b, the one
\* under way since then; the clock has moved on for every other reading that
\* differed.
ReadInv ==
  rtcAt = "read" =>
    /\ raw = <<>> => ReadBetween(again, since, now)
    /\ raw # <<>> =>
         \E a \in since..now : \E b \in a..now :
           /\ 2 * (a - since) + 1 >= turns /\ 2 * (b - since) >= turns
           /\ ReadBetween(raw, a, b) /\ ReadBetween(again, b, now)

\* Two readings that agree are what the clock held at one time.
AgreedInv ==
  rtcAt = "decode" => \E t \in since..now : \A k \in 1..5 : raw[k] = HeldAt(k, t)

RtcInv == RtcTypeOK /\ TurnsInv /\ ReadInv /\ AgreedInv /\ DateWasShown /\ NoneIsWeird

-----------------------------------------------------------------------------
(***************************************************************************)
(* The modes of the chip: what is stored is what is decoded.               *)
(***************************************************************************)
LEMMA BcdDigits ==
  ASSUME NEW v \in 0..99
  PROVE  /\ 16 * (v \div 10) + (v % 10) \in 0..153
         /\ 10 * ((16 * (v \div 10) + (v % 10)) \div 16)
              + ((16 * (v \div 10) + (v % 10)) % 16) = v
         /\ v <= 12 => 16 * (v \div 10) + (v % 10) <= 18
<1> DEFINE tens == v \div 10
           ones == v % 10
           bcd == 16 * tens + ones
<1>1. tens \in 0..9 /\ ones \in 0..9 /\ v = 10 * tens + ones /\ (v <= 12 => tens <= 1)
  OBVIOUS
<1> HIDE DEF tens, ones
<1>2. bcd \in 0..153 /\ (v <= 12 => bcd <= 18)
  BY <1>1
<1>3. bcd \div 16 = tens /\ bcd % 16 = ones
  BY <1>1
<1> HIDE DEF bcd
<1>4. 10 * (bcd \div 16) + (bcd % 16) = v
  BY <1>1, <1>3
<1> QED BY <1>2, <1>4 DEF bcd, tens, ones

LEMMA StoredDecoded ==
  ASSUME NEW v \in 0..99
  PROVE  /\ decode(Stored(v)) = v /\ Stored(v) \in 0..153
         /\ v <= 12 => Stored(v) <= 18
BY BcdDigits DEF decode, Stored

LEMMA StoredHourDecoded ==
  ASSUME NEW h \in 0..23
  PROVE  decode_hour(StoredHour(h)) = h /\ StoredHour(h) \in 0..255
<1>1. CASE mode.hour_24
  <2>1. StoredHour(h) = Stored(h) /\ decode_hour(StoredHour(h)) = decode(Stored(h))
    BY <1>1 DEF StoredHour, decode_hour
  <2>2. h \in 0..99
    OBVIOUS
  <2>3. decode(Stored(h)) = h /\ Stored(h) \in 0..153
    BY <2>2, StoredDecoded
  <2> QED BY <2>1, <2>3
<1>2. CASE ~mode.hour_24
  <2> DEFINE twelve == IF h % 12 = 0 THEN 12 ELSE h % 12
             pm == IF h >= 12 THEN 128 ELSE 0
             held == StoredHour(h)
  <2>1. /\ twelve \in 1..12 /\ twelve \in 0..99
        /\ h < 12 /\ twelve = 12 => h = 0
        /\ h < 12 /\ twelve # 12 => h = twelve
        /\ h >= 12 /\ twelve = 12 => h = 12
        /\ h >= 12 /\ twelve # 12 => h = twelve + 12
    OBVIOUS
  <2>2. held = Stored(twelve) + pm
    BY <1>2 DEF StoredHour
  <2> HIDE DEF twelve
  <2>3. Stored(twelve) \in 0..18 /\ decode(Stored(twelve)) = twelve
    <3>1. twelve <= 12 /\ twelve \in 0..99
      BY <2>1
    <3>2. Stored(twelve) \in 0..153 /\ Stored(twelve) <= 18 /\ decode(Stored(twelve)) = twelve
      BY <3>1, StoredDecoded
    <3> QED BY <3>2
  <2> DEFINE digits == Stored(twelve)
  <2> HIDE DEF held, digits
  <2>4. digits \in 0..18 /\ held = digits + pm
    BY <2>2, <2>3 DEF digits
  <2>5. held % 128 = digits /\ (held >= 128 <=> h >= 12) /\ held \in 0..255
    BY <2>4
  <2>6. decode(held % 128) = twelve
    BY <2>3, <2>5 DEF digits
  <2>7. decode_hour(held) = h
    <3>1. CASE h >= 12 /\ twelve = 12
      BY <1>2, <2>1, <2>5, <2>6, <3>1 DEF decode_hour
    <3>2. CASE h >= 12 /\ twelve # 12
      BY <1>2, <2>1, <2>5, <2>6, <3>2 DEF decode_hour
    <3>3. CASE h < 12 /\ twelve = 12
      BY <1>2, <2>1, <2>5, <2>6, <3>3 DEF decode_hour
    <3>4. CASE h < 12 /\ twelve # 12
      BY <1>2, <2>1, <2>5, <2>6, <3>4 DEF decode_hour
    <3> QED BY <3>1, <3>2, <3>3, <3>4
  <2> QED BY <2>5, <2>7 DEF held
<1> QED BY <1>1, <1>2

Fields == {"hour", "minute", "day", "month", "year"}

LEMMA RegisterFields ==
  /\ Len(Registers) = 5
  /\ Registers[1] = "hour" /\ Registers[2] = "minute" /\ Registers[3] = "day"
  /\ Registers[4] = "month" /\ Registers[5] = "year"
  /\ \A k \in 1..5 : Registers[k] \in Fields /\ (Registers[k] = "hour" <=> k = 1)
BY DEF Registers, Fields

\* What read_date decodes the k-th register to.
DecodedAs(k, v) == IF k = 1 THEN decode_hour(v) ELSE decode(v)

LEMMA HeldDecoded ==
  ASSUME show \in Shows, NEW k \in 1..5, NEW t \in 1..Len(show)
  PROVE  /\ HeldAt(k, t) \in 0..255
         /\ DecodedAs(k, HeldAt(k, t)) = show[t][Registers[k]]
<1>1. show[t] \in Time
  BY ShowsAssumption, ElementOfSeq
<1>2. CASE k = 1
  <2>1. show[t].hour \in 0..23 /\ Registers[k] = "hour"
    BY <1>1, <1>2, RegisterFields DEF Time
  <2> QED BY <1>2, <2>1, StoredHourDecoded DEF HeldAt, DecodedAs
<1>3. CASE k # 1
  <2>1. show[t][Registers[k]] \in 0..99 /\ Registers[k] # "hour"
    <3>1. /\ show[t].minute \in 0..99 /\ show[t].day \in 0..99
          /\ show[t].month \in 0..99 /\ show[t].year \in 0..99
      BY <1>1 DEF Time
    <3>2. k = 2 \/ k = 3 \/ k = 4 \/ k = 5
      BY <1>3
    <3> QED BY <3>1, <3>2, RegisterFields
  <2> DEFINE v == show[t][Registers[k]]
  <2>2. HeldAt(k, t) = Stored(v) /\ DecodedAs(k, HeldAt(k, t)) = decode(Stored(v))
    BY <1>3, <2>1 DEF HeldAt, DecodedAs
  <2>3. v \in 0..99
    BY <2>1
  <2> HIDE DEF v
  <2>4. decode(Stored(v)) = v /\ Stored(v) \in 0..153
    BY <2>3, StoredDecoded
  <2>5. Stored(v) \in 0..255
    BY <2>4
  <2>6. HeldAt(k, t) \in 0..255
    BY <2>2, <2>5
  <2>7. DecodedAs(k, HeldAt(k, t)) = show[t][Registers[k]]
    BY <2>2, <2>4 DEF v
  <2> QED BY <2>6, <2>7
<1> QED BY <1>2, <1>3

\* A register that holds the same at two times held it in between.
LEMMA HeldSteadily ==
  ASSUME show \in Shows, NEW k \in 1..5,
         NEW i \in 1..Len(show), NEW j \in 1..Len(show), NEW l \in 1..Len(show),
         i <= j, j <= l, HeldAt(k, i) = HeldAt(k, l)
  PROVE  HeldAt(k, j) = HeldAt(k, i)
<1>1. show[i][Registers[k]] = show[l][Registers[k]] /\ Registers[k] \in Fields
  BY HeldDecoded, RegisterFields
<1>2. Len(show) \in Nat
  BY ShowsAssumption, LenProperties
<1>3. CASE i = j \/ j = l
  BY <1>3
<1>4. CASE i < j /\ j < l
  <2>1. show[j][Registers[k]] = show[i][Registers[k]]
    BY <1>1, <1>4, ShowsAssumption DEF Fields
  <2>2. Registers[k] = "hour" => show[j].hour = show[i].hour
    BY <2>1
  <2> QED BY <2>1, <2>2 DEF HeldAt
<1> QED BY <1>2, <1>3, <1>4

-----------------------------------------------------------------------------
(***************************************************************************)
(* A step of the clock or of read_date keeps the invariant.                *)
(***************************************************************************)
LEMMA TimeTypes ==
  ASSUME RtcTypeOK
  PROVE  /\ show \in Shows /\ Len(show) \in Nat
         /\ now \in 1..Len(show) /\ since \in 1..now
         /\ \A t \in since..now : t \in 1..Len(show)
         /\ RTC_POLLS \in Nat \ {0} /\ RETRIES \in Nat \ {0} /\ turns \in Nat
<1>1. show \in Shows /\ Len(show) \in Nat
  BY ShowsAssumption, LenProperties DEF RtcTypeOK
<1> QED BY <1>1, RtcAssumption DEF RtcTypeOK

LEMMA HeldSame ==
  ASSUME UNCHANGED <<show, mode>>, NEW k, NEW t
  PROVE  HeldAt(k, t)' = HeldAt(k, t)
BY DEF HeldAt, StoredHour, Stored

LEMMA RegisterHeld ==
  ASSUME NEW k \in 1..5
  PROVE  Register(Registers[k]) = HeldAt(k, now)
BY DEF Register, HeldAt

\* Neither does a reading turn out to be older when the clock moves on.
LEMMA ClockStep ==
  ASSUME RtcInv, UNCHANGED <<show, mode, callVars>>, uip' \in BOOLEAN,
         now' \in {now, now + 1} \cap (1..Len(show))
  PROVE  RtcInv'
<1>1. /\ RtcTypeOK /\ TurnsInv /\ ReadInv /\ AgreedInv /\ DateWasShown /\ NoneIsWeird
  BY DEF RtcInv
<1>2. /\ show \in Shows /\ Len(show) \in Nat /\ now \in 1..Len(show) /\ since \in 1..now
      /\ now' \in 1..Len(show) /\ now' >= now /\ turns \in Nat /\ RETRIES \in Nat
  BY <1>1, TimeTypes
<1>3. since..now \subseteq since..now' /\ \A b \in since..now : b..now \subseteq b..now'
  BY <1>2
<1>4. /\ UNCHANGED <<rtcAt, turns, raw, again, outcome, date, since>>
      /\ \A k, t : HeldAt(k, t)' = HeldAt(k, t)
  BY HeldSame DEF callVars
<1>5. RtcTypeOK'
  <2>1. since' \in 1..now' /\ now' \in 1..Len(show')
    BY <1>2, <1>4
  <2> QED BY <1>1, <1>4, <2>1 DEF RtcTypeOK
<1>6. TurnsInv'
  BY <1>1, <1>4 DEF TurnsInv
<1>7. ReadInv'
  <2> SUFFICES ASSUME rtcAt = "read"
               PROVE  /\ raw = <<>> => ReadBetween(again, since, now)'
                      /\ raw # <<>> =>
                           \E a \in since..now' : \E b \in a..now' :
                             /\ 2 * (a - since) + 1 >= turns /\ 2 * (b - since) >= turns
                             /\ ReadBetween(raw, a, b)' /\ ReadBetween(again, b, now)'
    BY <1>4 DEF ReadInv
  <2>1. CASE raw = <<>>
    BY <1>1, <1>3, <1>4, <2>1 DEF ReadInv, ReadBetween
  <2>2. CASE raw # <<>>
    <3>1. PICK a \in since..now : \E b \in a..now :
            /\ 2 * (a - since) + 1 >= turns /\ 2 * (b - since) >= turns
            /\ ReadBetween(raw, a, b) /\ ReadBetween(again, b, now)
      BY <1>1, <2>2 DEF ReadInv
    <3>2. PICK b \in a..now :
            /\ 2 * (a - since) + 1 >= turns /\ 2 * (b - since) >= turns
            /\ ReadBetween(raw, a, b) /\ ReadBetween(again, b, now)
      BY <3>1
    <3>3. a \in since..now' /\ b \in a..now' /\ b..now \subseteq b..now'
      BY <1>2
    <3>4. ReadBetween(raw, a, b)' /\ ReadBetween(again, b, now)'
      BY <1>4, <3>2, <3>3 DEF ReadBetween
    <3> QED BY <2>2, <3>2, <3>3, <3>4
  <2> QED BY <2>1, <2>2
<1>8. AgreedInv'
  BY <1>1, <1>3, <1>4 DEF AgreedInv
<1>9. DateWasShown'
  BY <1>1, <1>3, <1>4 DEF DateWasShown
<1>10. NoneIsWeird'
  <2>1. 2 * (now - since) >= RETRIES => 2 * (now' - since') >= RETRIES
    <3>1. since' = since /\ since \in Nat /\ now \in Nat /\ now' \in Nat
      BY <1>2, <1>4
    <3>2. \A s, m, n, r \in Nat : n >= m /\ 2 * (m - s) >= r => 2 * (n - s) >= r
      OBVIOUS
    <3> QED BY <1>2, <3>1, <3>2
  <2> QED BY <1>1, <1>3, <1>4, <2>1 DEF NoneIsWeird, InRange
<1> QED BY <1>5, <1>6, <1>7, <1>8, <1>9, <1>10 DEF RtcInv

LEMMA ReadMore ==
  ASSUME RtcTypeOK, NEW from \in since..now, ReadBetween(again, from, now)
  PROVE  LET reading == Append(again, HeldAt(Len(again) + 1, now))
         IN  /\ reading \in Seq(0..255) /\ Len(reading) = Len(again) + 1
             /\ ReadBetween(reading, from, now)
<1> DEFINE reading == Append(again, HeldAt(Len(again) + 1, now))
<1>1. again \in Seq(0..255) /\ Len(again) \in Nat /\ Len(again) < 5
  BY LenProperties DEF RtcTypeOK
<1>2. Len(again) + 1 \in 1..5 /\ now \in from..now /\ now \in 1..Len(show)
  BY <1>1, TimeTypes
<1>3. HeldAt(Len(again) + 1, now) \in 0..255
  BY <1>2, TimeTypes, HeldDecoded
<1>4. /\ reading \in Seq(0..255) /\ Len(reading) = Len(again) + 1
      /\ \A k \in 1..Len(again) : reading[k] = again[k]
      /\ reading[Len(again) + 1] = HeldAt(Len(again) + 1, now)
  BY <1>1, <1>3, AppendProperties
<1> HIDE DEF reading
<1>5. \A k \in 1..Len(reading) : k \in 1..Len(again) \/ k = Len(again) + 1
  BY <1>1, <1>4
<1>6. ReadBetween(reading, from, now)
  BY <1>2, <1>4, <1>5 DEF ReadBetween
<1> QED BY <1>4, <1>6 DEF reading

\* The clock does not move, and nothing is returned.
LEMMA QuietStep ==
  ASSUME RtcInv, UNCHANGED <<clockVars, raw, outcome, date, since>>,
         RtcTypeOK', TurnsInv', ReadInv', AgreedInv'
  PROVE  RtcInv'
<1>1. DateWasShown' /\ NoneIsWeird'
  BY DEF RtcInv, DateWasShown, NoneIsWeird, InRange, clockVars
<1> QED BY <1>1 DEF RtcInv

LEMMA WaitStep ==
  ASSUME RtcInv, WaitForUpdate \/ CheckFlag
  PROVE  RtcInv'
<1>1. /\ RtcTypeOK /\ TurnsInv /\ ReadInv /\ DateWasShown /\ NoneIsWeird
      /\ raw = <<>> /\ again = <<>> /\ UNCHANGED <<clockVars, raw, again, date, since>>
  BY DEF RtcInv, TurnsInv, WaitForUpdate, CheckFlag
<1>2. turns \in Nat /\ RTC_POLLS \in Nat \ {0} /\ RETRIES \in Nat \ {0}
  BY <1>1, TimeTypes
<1>3. turns' \in 0..(IF RTC_POLLS > RETRIES THEN RTC_POLLS ELSE RETRIES) /\ TurnsInv'
  <2>1. turns' = turns \/ turns' = 0 \/ (turns' = turns + 1 /\ turns + 1 < RTC_POLLS)
    BY DEF WaitForUpdate, CheckFlag
  <2>2. turns' \in 0..(IF RTC_POLLS > RETRIES THEN RTC_POLLS ELSE RETRIES)
    BY <1>1, <1>2, <2>1 DEF RtcTypeOK
  <2>3. TurnsInv'
    BY <1>1, <1>2 DEF TurnsInv, WaitForUpdate, CheckFlag, Return
  <2> QED BY <2>2, <2>3
<1>4. RtcTypeOK'
  <2>1. /\ rtcAt' \in {"wait", "check", "read", "decode", "returned"}
        /\ outcome' \in {"reading", "some", "updating", "unstable", "garbled"}
    BY <1>1 DEF RtcTypeOK, WaitForUpdate, CheckFlag, Return
  <2> QED BY <1>1, <1>3, <2>1 DEF RtcTypeOK, clockVars
<1>5. ReadInv'
  <2>1. Len(again') = 0
    BY <1>1, EmptySeq
  <2> QED BY <1>1, <2>1 DEF ReadInv, ReadBetween
<1>6. AgreedInv'
  BY DEF AgreedInv, WaitForUpdate, CheckFlag, Return
<1>7. DateWasShown' /\ NoneIsWeird'
  <2>1. outcome' = outcome \/ outcome' = "updating"
    BY DEF WaitForUpdate, CheckFlag, Return
  <2>2. UNCHANGED <<show, now, since, date>>
    BY <1>1 DEF clockVars
  <2>3. CASE outcome' = "updating"
    BY <2>3 DEF DateWasShown, NoneIsWeird
  <2>4. CASE outcome' = outcome
    <3>1. DateWasShown'
      BY <1>1, <2>2, <2>4 DEF DateWasShown
    <3>2. NoneIsWeird'
      BY <1>1, <2>2, <2>4 DEF NoneIsWeird, InRange
    <3> QED BY <3>1, <3>2
  <2> QED BY <2>1, <2>3, <2>4
<1> QED BY <1>3, <1>4, <1>5, <1>6, <1>7 DEF RtcInv

LEMMA RegisterStep ==
  ASSUME RtcInv, ReadRegister
  PROVE  RtcInv'
<1>1. /\ RtcTypeOK /\ TurnsInv /\ ReadInv /\ rtcAt = "read"
      /\ UNCHANGED <<show, now, mode, uip, rtcAt, turns, raw, outcome, date, since>>
  BY DEF RtcInv, ReadRegister, clockVars
<1>2. /\ again \in Seq(0..255) /\ Len(again) \in Nat /\ Len(again) + 1 < 5
      /\ Len(again) + 1 \in 1..5
  BY <1>1, LenProperties, RegisterFields DEF RtcTypeOK, ReadRegister
<1>3. again' = Append(again, HeldAt(Len(again) + 1, now))
  BY <1>2, RegisterHeld DEF ReadRegister
<1>4. \A k, t : HeldAt(k, t)' = HeldAt(k, t)
  BY <1>1, HeldSame
<1>5. \A from \in since..now : ReadBetween(again, from, now) =>
        /\ again' \in Seq(0..255) /\ Len(again') = Len(again) + 1
        /\ ReadBetween(again, from, now)'
  <2> SUFFICES ASSUME NEW from \in since..now, ReadBetween(again, from, now)
               PROVE  /\ again' \in Seq(0..255) /\ Len(again') = Len(again) + 1
                      /\ ReadBetween(again, from, now)'
    OBVIOUS
  <2>1. /\ again' \in Seq(0..255) /\ Len(again') = Len(again) + 1
        /\ ReadBetween(again', from, now)
    BY <1>1, <1>3, ReadMore
  <2> QED BY <1>1, <1>4, <2>1 DEF ReadBetween
<1>6. since \in since..now /\ since \in Nat /\ now \in Nat
  BY <1>1, TimeTypes
<1>7. ReadInv' /\ again' \in Seq(0..255) /\ Len(again') = Len(again) + 1
  <2>1. CASE raw = <<>>
    BY <1>1, <1>5, <1>6, <2>1 DEF ReadInv
  <2>2. CASE raw # <<>>
    <3>1. PICK a \in since..now : \E b \in a..now :
            /\ 2 * (a - since) + 1 >= turns /\ 2 * (b - since) >= turns
            /\ ReadBetween(raw, a, b) /\ ReadBetween(again, b, now)
      BY <1>1, <2>2 DEF ReadInv
    <3>2. PICK b \in a..now :
            /\ 2 * (a - since) + 1 >= turns /\ 2 * (b - since) >= turns
            /\ ReadBetween(raw, a, b) /\ ReadBetween(again, b, now)
      BY <3>1
    <3>3. b \in since..now
      BY <1>6
    <3>4. /\ ReadBetween(raw, a, b)' /\ ReadBetween(again, b, now)'
          /\ again' \in Seq(0..255) /\ Len(again') = Len(again) + 1
      BY <1>1, <1>4, <1>5, <3>2, <3>3 DEF ReadBetween
    <3> QED BY <1>1, <2>2, <3>2, <3>4 DEF ReadInv
  <2> QED BY <2>1, <2>2
<1>8. RtcTypeOK'
  <2>1. Len(again') < 5
    BY <1>2, <1>7
  <2> QED BY <1>1, <1>7, <2>1 DEF RtcTypeOK
<1>9. TurnsInv' /\ AgreedInv'
  BY <1>1 DEF TurnsInv, AgreedInv
<1> QED BY <1>1, <1>7, <1>8, <1>9, QuietStep DEF clockVars

LEMMA DecodeStep ==
  ASSUME RtcInv, Decode
  PROVE  RtcInv'
<1>1. /\ RtcTypeOK /\ TurnsInv /\ AgreedInv /\ DateWasShown /\ NoneIsWeird
      /\ UNCHANGED <<show, now, mode, uip, turns, raw, again, since>>
      /\ rtcAt = "decode" /\ rtcAt' = "returned"
  BY DEF RtcInv, Decode, Return, clockVars
<1>2. PICK t \in since..now : \A k \in 1..5 : raw[k] = HeldAt(k, t)
  BY <1>1 DEF AgreedInv
<1>3. t \in 1..Len(show) /\ show \in Shows /\ show[t] \in Time
  BY <1>1, TimeTypes, ShowsAssumption, ElementOfSeq
<1> DEFINE read == [hour |-> decode_hour(raw[1]), minute |-> decode(raw[2]),
                    day |-> decode(raw[3]), month |-> decode(raw[4]),
                    year |-> decode(raw[5])]
<1>4. \A k \in 1..5 : DecodedAs(k, raw[k]) = show[t][Registers[k]]
  BY <1>2, <1>3, HeldDecoded
<1>5. read = show[t]
  <2>1. /\ decode_hour(raw[1]) = show[t].hour /\ decode(raw[2]) = show[t].minute
        /\ decode(raw[3]) = show[t].day /\ decode(raw[4]) = show[t].month
        /\ decode(raw[5]) = show[t].year
    BY <1>4, RegisterFields DEF DecodedAs
  <2>2. show[t] = [hour |-> show[t].hour, minute |-> show[t].minute, day |-> show[t].day,
                   month |-> show[t].month, year |-> show[t].year]
    BY <1>3 DEF Time
  <2> QED BY <2>1, <2>2
<1>6. \/ InRange(show[t]) /\ outcome' = "some" /\ date' = [show[t] EXCEPT !.year = 2000 + @]
      \/ ~InRange(show[t]) /\ outcome' = "garbled" /\ UNCHANGED date
  <2>1. \/ InRange(read) /\ outcome' = "some" /\ date' = [read EXCEPT !.year = 2000 + @]
        \/ ~InRange(read) /\ outcome' = "garbled" /\ UNCHANGED date
    BY DEF Decode, Return
  <2> HIDE DEF read
  <2> QED BY <1>5, <2>1
<1>7. DateWasShown' /\ NoneIsWeird'
  BY <1>1, <1>6 DEF DateWasShown, NoneIsWeird, InRange
<1>8. RtcTypeOK'
  <2> DEFINE Dates == [hour : 0..23, minute : 0..59, day : 1..31, month : 1..12,
                       year : 2000..2099]
  <2>1. InRange(show[t]) => [show[t] EXCEPT !.year = 2000 + @] \in Dates
    <3> SUFFICES ASSUME InRange(show[t]) PROVE [show[t] EXCEPT !.year = 2000 + @] \in Dates
      OBVIOUS
    <3>1. /\ show[t].hour \in 0..23 /\ show[t].minute \in 0..59 /\ show[t].day \in 1..31
          /\ show[t].month \in 1..12 /\ show[t].year \in 0..99
      BY <1>3 DEF InRange, Time
    <3>2. 2000 + show[t].year \in 2000..2099
      BY <3>1
    <3>3. [show[t] EXCEPT !.year = 2000 + @] =
            [hour |-> show[t].hour, minute |-> show[t].minute, day |-> show[t].day,
             month |-> show[t].month, year |-> 2000 + show[t].year]
      BY <1>3 DEF Time
    <3> QED BY <3>1, <3>2, <3>3
  <2> HIDE DEF Dates
  <2>2. date \in Dates \/ date = NoDate
    BY <1>1 DEF RtcTypeOK, Dates
  <2>3. date' \in Dates \/ date' = NoDate
    BY <1>6, <2>1, <2>2
  <2>4. outcome' \in {"reading", "some", "updating", "unstable", "garbled"}
    BY <1>6
  <2> QED BY <1>1, <2>3, <2>4 DEF RtcTypeOK, Dates, NoDate
<1>9. TurnsInv' /\ ReadInv' /\ AgreedInv'
  BY <1>1 DEF TurnsInv, ReadInv, AgreedInv
<1> QED BY <1>7, <1>8, <1>9 DEF RtcInv

LEMMA LastStep ==
  ASSUME RtcInv, LastRegister
  PROVE  RtcInv'
<1> DEFINE reading == Append(again, Register("year"))
<1>1. /\ RtcTypeOK /\ TurnsInv /\ ReadInv /\ DateWasShown /\ NoneIsWeird
      /\ rtcAt = "read" /\ again' = <<>>
      /\ UNCHANGED <<show, now, mode, uip, date, since>>
  BY DEF RtcInv, LastRegister, clockVars
<1>2. /\ again \in Seq(0..255) /\ Len(again) = 4 /\ Len(again) + 1 = 5
  <2>1. again \in Seq(0..255) /\ Len(again) \in Nat /\ Len(again) + 1 = 5
    BY <1>1, LenProperties, RegisterFields DEF RtcTypeOK, LastRegister
  <2>2. \A n \in Nat : n + 1 = 5 => n = 4
    OBVIOUS
  <2> QED BY <2>1, <2>2
<1>3. reading = Append(again, HeldAt(Len(again) + 1, now))
  <2>1. Register(Registers[5]) = HeldAt(5, now) /\ Registers[5] = "year"
    BY RegisterHeld, RegisterFields
  <2> QED BY <1>2, <2>1
<1>4. /\ since \in Nat /\ now \in Nat /\ since <= now /\ turns \in Nat
      /\ RETRIES \in Nat \ {0} /\ RTC_POLLS \in Nat \ {0} /\ turns < RETRIES
      /\ show \in Shows /\ \A t \in since..now : t \in 1..Len(show)
  BY <1>1, TimeTypes DEF TurnsInv
<1>5. \A from \in since..now : ReadBetween(again, from, now) =>
        /\ reading \in Seq(0..255) /\ Len(reading) = 5
        /\ ReadBetween(reading, from, now)
  BY <1>1, <1>2, <1>3, ReadMore
<1>6. \/ raw = <<>> /\ raw' = reading /\ UNCHANGED <<rtcAt, turns, outcome>>
      \/ raw # <<>> /\ reading = raw /\ rtcAt' = "decode" /\ UNCHANGED <<raw, turns, outcome>>
      \/ /\ raw # <<>> /\ reading # raw /\ raw' = reading /\ turns' = turns + 1
         /\ \/ turns' < RETRIES /\ UNCHANGED <<rtcAt, outcome>>
            \/ ~(turns' < RETRIES) /\ rtcAt' = "returned" /\ outcome' = "unstable"
  BY DEF LastRegister, Agree, Return
<1> HIDE DEF reading
<1>7. \A k, t : HeldAt(k, t)' = HeldAt(k, t)
  BY <1>1, HeldSame
<1>8. Len(again') = 0 /\ \A from, to : ReadBetween(again', from, to)
  BY <1>1, EmptySeq DEF ReadBetween
<1>9. ASSUME NEW from \in since..now, ReadBetween(reading, from, now), raw' = reading
      PROVE  ReadBetween(raw, from, now)'
  BY <1>1, <1>7, <1>9 DEF ReadBetween
<1>10. \A a, b : ReadBetween(again, a, b)'
  BY <1>8 DEF ReadBetween
<1>11. reading \in Seq(0..255) /\ Len(reading) = 5
  <2>1. \E from \in since..now : ReadBetween(again, from, now)
    <3>1. since \in since..now /\ \A a \in since..now : \A b \in a..now : b \in since..now
      BY <1>4
    <3> QED BY <1>1, <3>1 DEF ReadInv
  <2> QED BY <1>5, <2>1
<1>12. reading # <<>>
  BY <1>11, EmptySeq
<1>13. CASE raw = <<>> /\ raw' = reading /\ UNCHANGED <<rtcAt, turns, outcome>>
  <2>1. turns = 0 /\ ReadBetween(again, since, now)
    BY <1>1, <1>13 DEF TurnsInv, ReadInv
  <2>2. /\ since \in since..now /\ now \in since..now
        /\ 2 * (since - since) + 1 >= turns /\ 2 * (now - since) >= turns
    BY <1>4, <2>1
  <2>3. ReadBetween(raw, since, now)'
    <3>1. ReadBetween(reading, since, now)
      BY <1>5, <2>1, <2>2
    <3> QED BY <1>1, <1>7, <1>13, <3>1 DEF ReadBetween
  <2>4. ReadInv'
    BY <1>1, <1>10, <1>12, <1>13, <2>2, <2>3 DEF ReadInv, ReadBetween
  <2>5. RtcTypeOK'
    BY <1>1, <1>8, <1>11, <1>13, EmptySeq DEF RtcTypeOK
  <2>6. TurnsInv' /\ AgreedInv'
    BY <1>1, <1>13 DEF TurnsInv, AgreedInv
  <2>7. DateWasShown' /\ NoneIsWeird'
    BY <1>1, <1>13 DEF DateWasShown, NoneIsWeird, InRange
  <2> QED BY <2>4, <2>5, <2>6, <2>7 DEF RtcInv
<1>14. ASSUME raw # <<>>
       PROVE  \E a \in since..now : \E b \in a..now :
                /\ 2 * (a - since) + 1 >= turns /\ 2 * (b - since) >= turns
                /\ ReadBetween(raw, a, b) /\ ReadBetween(reading, b, now)
                /\ Len(raw) = 5
  <2>1. PICK a \in since..now : \E b \in a..now :
          /\ 2 * (a - since) + 1 >= turns /\ 2 * (b - since) >= turns
          /\ ReadBetween(raw, a, b) /\ ReadBetween(again, b, now)
    BY <1>1, <1>14 DEF ReadInv
  <2>2. PICK b \in a..now :
          /\ 2 * (a - since) + 1 >= turns /\ 2 * (b - since) >= turns
          /\ ReadBetween(raw, a, b) /\ ReadBetween(again, b, now)
    BY <2>1
  <2>3. b \in since..now
    BY <1>4
  <2>4. ReadBetween(reading, b, now)
    BY <1>5, <2>2, <2>3
  <2>5. Len(raw) = 5
    BY <1>1, <1>14, EmptySeq DEF RtcTypeOK
  <2> QED BY <2>2, <2>4, <2>5
<1>15. CASE /\ raw # <<>> /\ reading = raw /\ rtcAt' = "decode"
            /\ UNCHANGED <<raw, turns, outcome>>
  <2>1. PICK a \in since..now : \E b \in a..now :
          ReadBetween(raw, a, b) /\ ReadBetween(raw, b, now) /\ Len(raw) = 5
    BY <1>14, <1>15
  <2>2. PICK b \in a..now :
          ReadBetween(raw, a, b) /\ ReadBetween(raw, b, now) /\ Len(raw) = 5
    BY <2>1
  <2>3. b \in since..now /\ b \in 1..Len(show)
    BY <1>4
  <2>4. \A k \in 1..5 : raw[k] = HeldAt(k, b)
    <3> TAKE k \in 1..5
    <3>1. PICK r \in a..b : raw[k] = HeldAt(k, r)
      BY <2>2 DEF ReadBetween
    <3>2. PICK u \in b..now : raw[k] = HeldAt(k, u)
      BY <2>2 DEF ReadBetween
    <3>3. r \in since..now /\ u \in since..now /\ r <= b /\ b <= u
      BY <1>4
    <3> QED BY <1>4, <2>3, <3>1, <3>2, <3>3, HeldSteadily
  <2>5. AgreedInv'
    BY <1>1, <1>7, <1>15, <2>3, <2>4 DEF AgreedInv
  <2>6. RtcTypeOK'
    BY <1>1, <1>8, <1>15, EmptySeq DEF RtcTypeOK
  <2>7. TurnsInv' /\ ReadInv'
    BY <1>1, <1>15 DEF TurnsInv, ReadInv
  <2>8. DateWasShown' /\ NoneIsWeird'
    BY <1>1, <1>15 DEF DateWasShown, NoneIsWeird, InRange
  <2> QED BY <2>5, <2>6, <2>7, <2>8 DEF RtcInv
<1>16. CASE /\ raw # <<>> /\ reading # raw /\ raw' = reading /\ turns' = turns + 1
            /\ \/ turns' < RETRIES /\ UNCHANGED <<rtcAt, outcome>>
               \/ ~(turns' < RETRIES) /\ rtcAt' = "returned" /\ outcome' = "unstable"
  <2>1. PICK a \in since..now : \E b \in a..now :
          /\ 2 * (a - since) + 1 >= turns /\ 2 * (b - since) >= turns
          /\ ReadBetween(raw, a, b) /\ ReadBetween(reading, b, now) /\ Len(raw) = 5
    BY <1>14, <1>16
  <2>2. PICK b \in a..now :
          /\ 2 * (a - since) + 1 >= turns /\ 2 * (b - since) >= turns
          /\ ReadBetween(raw, a, b) /\ ReadBetween(reading, b, now) /\ Len(raw) = 5
    BY <2>1
  <2>3. a # now
    <3> SUFFICES ASSUME a = now PROVE FALSE
      OBVIOUS
    <3>1. b = now /\ \A t : t \in a..b \/ t \in b..now => t = now
      BY <1>4
    <3>2. \A k \in 1..5 : raw[k] = HeldAt(k, now) /\ reading[k] = HeldAt(k, now)
      BY <1>11, <2>2, <3>1 DEF ReadBetween
    <3>3. /\ raw = [k \in 1..5 |-> raw[k]] /\ reading = [k \in 1..5 |-> reading[k]]
      BY <1>1, <1>11, <2>2, LenProperties DEF RtcTypeOK
    <3>4. raw = reading
      BY <3>2, <3>3
    <3> QED BY <1>16, <3>4
  <2>4. b \in since..now /\ now \in b..now
    BY <1>4
  <2>5. 2 * (b - since) + 1 >= turns + 1 /\ 2 * (now - since) >= turns + 1
    <3>1. \A s, x, y, n, c \in Nat : x < n /\ 2 * (x - s) + 1 >= c /\ 2 * (y - s) >= c =>
            2 * (y - s) + 1 >= c + 1 /\ 2 * (n - s) >= c + 1
      OBVIOUS
    <3>2. a \in Nat /\ b \in Nat /\ a < now
      BY <1>4, <2>3
    <3> QED BY <1>4, <2>2, <3>1, <3>2
  <2>6. ReadBetween(raw, b, now)'
    BY <1>9, <1>16, <2>2, <2>4
  <2>7. ReadInv'
    BY <1>1, <1>10, <1>12, <1>16, <2>4, <2>5, <2>6 DEF ReadInv, ReadBetween
  <2>8. turns' \in 0..(IF RTC_POLLS > RETRIES THEN RTC_POLLS ELSE RETRIES)
    BY <1>4, <1>16
  <2>9. RtcTypeOK'
    <3>1. /\ rtcAt' \in {"wait", "check", "read", "decode", "returned"}
          /\ outcome' \in {"reading", "some", "updating", "unstable", "garbled"}
      BY <1>1, <1>16 DEF RtcTypeOK
    <3>2. again' \in Seq(0..255) /\ Len(again') < 5
      BY <1>1, <1>8, EmptySeq
    <3> QED BY <1>1, <1>11, <1>16, <2>8, <3>1, <3>2 DEF RtcTypeOK
  <2>10. TurnsInv' /\ AgreedInv'
    BY <1>1, <1>12, <1>16 DEF TurnsInv, AgreedInv
  <2>11. DateWasShown'
    BY <1>1, <1>16 DEF DateWasShown
  <2>12. NoneIsWeird'
    <3>1. ~(turns + 1 < RETRIES) => 2 * (now - since) >= RETRIES
      <4>1. \A n, c, r \in Nat : 2 * (n - since) >= c + 1 /\ ~(c + 1 < r)
              => 2 * (n - since) >= r
        BY <1>4
      <4> QED BY <1>4, <2>5, <4>1
    <3> QED BY <1>1, <1>16, <3>1 DEF NoneIsWeird, InRange
  <2> QED BY <2>7, <2>9, <2>10, <2>11, <2>12 DEF RtcInv
<1> QED BY <1>6, <1>13, <1>15, <1>16

LEMMA RtcInitInv == RtcInit => RtcInv
<1> SUFFICES ASSUME RtcInit PROVE RtcInv
  OBVIOUS
<1>1. Len(show) \in Nat
  BY ShowsAssumption, LenProperties DEF RtcInit
<1>2. RtcTypeOK
  <2>1. since \in 1..now /\ 0 \in 0..(IF RTC_POLLS > RETRIES THEN RTC_POLLS ELSE RETRIES)
    BY <1>1, RtcAssumption DEF RtcInit
  <2>2. <<>> \in Seq(0..255) /\ Len(<<>>) = 0
    BY EmptySeq
  <2> QED BY <2>1, <2>2 DEF RtcInit, RtcTypeOK, NoDate
<1>3. TurnsInv
  BY RtcAssumption DEF RtcInit, TurnsInv
<1>4. ReadInv /\ AgreedInv /\ DateWasShown /\ NoneIsWeird
  BY DEF RtcInit, ReadInv, AgreedInv, DateWasShown, NoneIsWeird
<1> QED BY <1>2, <1>3, <1>4 DEF RtcInv

LEMMA RtcNextInv == RtcInv /\ [RtcNext]_rtcVars => RtcInv'
<1> SUFFICES ASSUME RtcInv, [RtcNext]_rtcVars PROVE RtcInv'
  OBVIOUS
<1>1. CASE BeginUpdate \/ EndUpdate \/ UNCHANGED rtcVars
  <2>1. now \in 1..Len(show) /\ uip \in BOOLEAN
    BY DEF RtcInv, RtcTypeOK
  <2>2. /\ UNCHANGED <<show, mode, callVars>>
        /\ now' \in {now, now + 1} \cap (1..Len(show))
    BY <1>1, <2>1 DEF BeginUpdate, EndUpdate, rtcVars, clockVars
  <2>3. uip' \in BOOLEAN
    BY <1>1, <2>1, Zenon DEF BeginUpdate, EndUpdate, rtcVars, clockVars
  <2> QED BY <2>2, <2>3, ClockStep
<1>2. CASE read_date
  BY <1>2, WaitStep, RegisterStep, LastStep, DecodeStep DEF read_date
<1> QED BY <1>1, <1>2 DEF RtcNext

(* Where the readings lie among the times of the clock, in every state.    *)
THEOREM RtcInvariance == RtcSpec => []RtcInv
BY RtcInitInv, RtcNextInv, PTL DEF RtcSpec

(* Every variable of the clock and of read_date keeps its type: a register *)
(* is a byte, and a date of Some is in range.                              *)
THEOREM RtcTypeCorrect == RtcSpec => []RtcTypeOK
<1>1. RtcInv => RtcTypeOK
  BY DEF RtcInv
<1> QED BY <1>1, RtcInvariance, PTL

(* "No torn values" (rtc.rs:38): two readings that agree are a date that   *)
(* the clock showed at one time during the call, in each of its modes and  *)
(* however it moves on.                                                    *)
THEOREM NoTornDate == RtcSpec => []DateWasShown
<1>1. RtcInv => DateWasShown
  BY DEF RtcInv
<1> QED BY <1>1, RtcInvariance, PTL

(* None means an impossible date, or a clock that moved on for every other *)
(* of the readings tried (rtc.rs:39), for every number of retries.         *)
THEOREM NoneOnlyIfWeird == RtcSpec => []NoneIsWeird
<1>1. RtcInv => NoneIsWeird
  BY DEF RtcInv
<1> QED BY <1>1, RtcInvariance, PTL
=============================================================================

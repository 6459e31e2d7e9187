------------------------------- MODULE Memory -------------------------------
(***************************************************************************)
(* The heap is mapped at boot: init_heap (allocator.rs) takes one physical *)
(* frame for each of its pages from BootInfoFrameAllocator (memory.rs),    *)
(* and map_to takes more from the same allocator for the page tables it    *)
(* finds missing.  A frame handed out twice, or one that reaches out of a  *)
(* usable region, would let two owners write to the same memory.           *)
(*                                                                         *)
(* Physical addresses are numbers; the memory map is the bootloader's.     *)
(***************************************************************************)
EXTENDS Naturals, Sequences

CONSTANTS
  FRAME,       \* bytes of a frame (4096)
  HEAP_PAGES,  \* HEAP_SIZE in pages (65536)
  LEVELS,      \* page tables map_to may find missing for one page (3)
  MemoryMaps   \* the memory maps a bootloader may hand over

Region == [start : Nat, end : Nat, usable : BOOLEAN]

ASSUME FrameAssumption == FRAME \in Nat \ {0}
ASSUME HeapAssumption == HEAP_PAGES \in Nat /\ LEVELS \in Nat

\* External: the regions of a map do not overlap; they need not be sorted.
ASSUME MapAssumption ==
  \A map \in MemoryMaps :
    /\ map \in Seq(Region)
    /\ \A i, j \in 1..Len(map) :
         i # j => map[i].end <= map[j].start \/ map[j].end <= map[i].start

VARIABLES
  memory_regions,  \* the map of this machine
  region_idx,      \* the allocator: the region it is in (from 1)
  next_addr,       \*   and the next address to consider there
  frames,          \* what it has handed out, in order
  mapped,          \* pages of the heap that have a frame
  tables,          \* page tables map_to has made
  heapAt           \* where init_heap is

memoryVars == <<memory_regions, region_idx, next_addr, frames, mapped, tables, heapAt>>

HeapTypeOK ==
  /\ memory_regions \in MemoryMaps
  /\ region_idx \in 1..(Len(memory_regions) + 1)
  /\ next_addr \in Nat
  /\ frames \in Seq(Nat)
  /\ mapped \in 0..HEAP_PAGES
  /\ tables \in 0..(LEVELS * HEAP_PAGES)
  /\ heapAt \in {"page", "map_to", "mapped", "failed"}

HeapInit ==
  /\ memory_regions \in MemoryMaps
  /\ region_idx = 1
  /\ next_addr = 0
  /\ frames = <<>>
  /\ mapped = 0
  /\ tables = 0
  /\ heapAt = "page"

-----------------------------------------------------------------------------
(***************************************************************************)
(* allocate_frame.  The loop goes through the regions from region_idx on   *)
(* and forgets next_addr as it leaves one.                                 *)
(***************************************************************************)

\* The cursor is aligned down.
MutAlignUp(addr) == addr - (addr % FRAME)

\* (addr + 4095) & !4095
AlignUp(addr) == LET top == addr + FRAME - 1 IN top - (top % FRAME)

\* The cursor of the first region is kept for all that follow.
MutCandidate(i) ==
  LET region == memory_regions[i]
  IN  AlignUp(IF next_addr > region.start THEN next_addr ELSE region.start)

\* The first frame at or behind the cursor in region i.
Candidate(i) ==
  LET region == memory_regions[i]
  IN  AlignUp(IF i = region_idx /\ next_addr > region.start THEN next_addr ELSE region.start)

Fits(i) ==
  /\ memory_regions[i].usable
  /\ Candidate(i) + FRAME <= memory_regions[i].end

Ahead == region_idx..Len(memory_regions)

\* The cursor stays at the frame it hands out.
MutAllocateFrame ==
  \E i \in Ahead :
    /\ Fits(i)
    /\ \A j \in region_idx..(i - 1) : ~Fits(j)
    /\ region_idx' = i
    /\ next_addr' = Candidate(i)
    /\ frames' = Append(frames, Candidate(i))

allocate_frame ==
  \E i \in Ahead :
    /\ Fits(i)
    /\ \A j \in region_idx..(i - 1) : ~Fits(j)
    /\ region_idx' = i
    /\ next_addr' = Candidate(i) + FRAME
    /\ frames' = Append(frames, Candidate(i))

\* It returns None, behind the last region.
NoFrame ==
  /\ \A i \in Ahead : ~Fits(i)
  /\ region_idx' = Len(memory_regions) + 1
  /\ next_addr' = 0
  /\ UNCHANGED frames

-----------------------------------------------------------------------------
\* init_heap: a frame for the next page.
MapPage ==
  /\ heapAt = "page"
  /\ mapped < HEAP_PAGES
  /\ \/ allocate_frame /\ heapAt' = "map_to"
     \/ NoFrame /\ heapAt' = "failed"
  /\ UNCHANGED <<memory_regions, mapped, tables>>

\* External: map_to makes a page table that is missing on the way to the page.
NewTable ==
  /\ heapAt = "map_to"
  /\ tables < LEVELS * (mapped + 1)
  /\ \/ allocate_frame /\ tables' = tables + 1 /\ UNCHANGED heapAt
     \/ NoFrame /\ heapAt' = "failed" /\ UNCHANGED tables
  /\ UNCHANGED <<memory_regions, mapped>>

\* map_to enters the page.
Mapped ==
  /\ heapAt = "map_to"
  /\ mapped' = mapped + 1
  /\ heapAt' = "page"
  /\ UNCHANGED <<memory_regions, region_idx, next_addr, frames, tables>>

\* The allocator of the heap is given the pages.
HeapReady ==
  /\ heapAt = "page"
  /\ mapped = HEAP_PAGES
  /\ heapAt' = "mapped"
  /\ UNCHANGED <<memory_regions, region_idx, next_addr, frames, mapped, tables>>

init_heap == MapPage \/ NewTable \/ Mapped \/ HeapReady

HeapSpec == HeapInit /\ [][init_heap]_memoryVars

-----------------------------------------------------------------------------
(***************************************************************************)
(* Properties                                                              *)
(***************************************************************************)

\* The frame at this address is part of the i-th region.
Inside(frame, i) ==
  /\ memory_regions[i].usable
  /\ memory_regions[i].start <= frame
  /\ frame + FRAME <= memory_regions[i].end

(* Whatever the regions' borders, every frame handed out to the heap or    *)
(* the page tables lies inside one usable region, on a frame boundary      *)
(* (memory.rs:42-45).                                                      *)
FramesUsable ==
  \A k \in 1..Len(frames) :
    /\ frames[k] % FRAME = 0
    /\ \E i \in 1..Len(memory_regions) : Inside(frames[k], i)

(* No frame is handed out twice, although the cursor is all the allocator  *)
(* remembers (memory.rs:16): no two frames overlap.                        *)
FramesDisjoint ==
  \A k, l \in 1..Len(frames) :
    k # l => frames[k] + FRAME <= frames[l] \/ frames[l] + FRAME <= frames[k]

(* init_heap fails only if the machine has too little memory: each frame   *)
(* of each usable region has been handed out by then.                      *)
FailsOnlyWhenFull ==
  heapAt = "failed" =>
    \A i \in 1..Len(memory_regions) :
      \A addr \in memory_regions[i].start..memory_regions[i].end :
        addr % FRAME = 0 /\ Inside(addr, i) => \E k \in 1..Len(frames) : frames[k] = addr
=============================================================================

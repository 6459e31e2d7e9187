----------------------------- MODULE EternalInk -----------------------------
(***************************************************************************)
(* What the scroll disk promises, with no records, checksums, searches or  *)
(* retries: a row of pages filled from the first to the last.  A page is   *)
(* sealed once it is full, and a sealed page never changes again.  Only    *)
(* the first page that is not full, the open page, may change, and nothing *)
(* behind it has been touched.  Whatever goes wrong, the open page is the  *)
(* most that can be lost.                                                  *)
(***************************************************************************)
EXTENDS Naturals, Sequences

CONSTANTS
  Ink,       \* what a page is filled with
  PageSize,  \* how much of it a page holds
  Pages      \* how many pages there are

VARIABLE page  \* the text of every page, <<>> for a page with none

Page == UNION {[1..n -> Ink] : n \in 0..PageSize}

Init == page = [i \in 0..(Pages - 1) |-> <<>>]

IsOpen(i) ==
  /\ Len(page[i]) < PageSize
  /\ \A j \in 0..(i - 1) : Len(page[j]) = PageSize
  /\ \A j \in (i + 1)..(Pages - 1) : page[j] = <<>>

\* The open page takes another text, or loses the one it has.
Rewrite(i) ==
  /\ IsOpen(i)
  /\ page' \in [0..(Pages - 1) -> Page]
  /\ \A j \in 0..(Pages - 1) : j # i => page'[j] = page[j]

Next == \E i \in 0..(Pages - 1) : Rewrite(i)

Spec == Init /\ [][Next]_page
=============================================================================

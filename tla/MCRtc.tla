-------------------------------- MODULE MCRtc -------------------------------
(***************************************************************************)
(* Rtc with clocks that roll over while they are read, clocks that stand   *)
(* at each hour of the day, and one that was never set.                    *)
(***************************************************************************)
EXTENDS Rtc

At(hour, minute, day, month, year) ==
  [hour |-> hour, minute |-> minute, day |-> day, month |-> month, year |-> year]

Rollovers ==
  {<<At(23, 59, 31, 12, 99), At(0, 0, 1, 1, 0), At(0, 1, 1, 1, 0)>>,
   <<At(11, 59, 30, 9, 26), At(12, 0, 30, 9, 26), At(12, 1, 30, 9, 26), At(12, 2, 30, 9, 26)>>,
   <<At(12, 59, 10, 6, 26), At(13, 0, 10, 6, 26)>>,
   <<At(0, 59, 19, 10, 59), At(1, 0, 19, 10, 59)>>}

Standing == {<<At(hour, 45, 28, 2, 79)>> : hour \in 0..23}

Unset == {<<At(0, 0, 0, 0, 0), At(0, 1, 0, 0, 0)>>}

MCShows == Rollovers \cup Standing \cup Unset
=============================================================================

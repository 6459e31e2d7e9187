------------------------------ MODULE KeyQueue ------------------------------
(***************************************************************************)
(* What the keyboard ring promises: a queue that hands scancodes on in the *)
(* order they came and, when it is full, drops the one that comes next.    *)
(***************************************************************************)
EXTENDS Naturals, Sequences

CONSTANTS Scancode, Capacity

VARIABLE queue

Init == queue = <<>>

Put(scancode) ==
  /\ Len(queue) < Capacity
  /\ queue' = Append(queue, scancode)

Drop == Len(queue) = Capacity /\ UNCHANGED queue

Get == queue # <<>> /\ queue' = Tail(queue)

Next == (\E scancode \in Scancode : Put(scancode)) \/ Drop \/ Get

Spec == Init /\ [][Next]_queue
=============================================================================

------------------------------ MODULE Keyboard ------------------------------
(***************************************************************************)
(* From the key to the main loop: the IRQ1 handler of interrupts.rs fills  *)
(* the ring of keyboard.rs, the main loop of kernel_main empties it and    *)
(* then sleeps with hlt, or streams history while there is some to load.   *)
(*                                                                         *)
(* There is one CPU.  A handler runs with interrupts disabled and to its   *)
(* end between two instructions of the main loop, so it is one step; the   *)
(* main loop is interrupted between any two of its own.  Scancodes are     *)
(* numbered in the order the keys are struck; what the decoder makes of    *)
(* them is left out.                                                       *)
(***************************************************************************)
EXTENDS Naturals, Sequences

CONSTANTS
  SIZE,    \* slots of the ring (64)
  PRESSES  \* keys struck in a behaviour: the bound of the model

ASSUME SizeAssumption == SIZE \in Nat \ {0} /\ PRESSES \in Nat

VARIABLES
  buf, head, len,  \* the ring
  locked,          \* main holds QUEUE's lock
  enabled,         \* the CPU takes interrupts
  at,              \* where the main loop is
  pending,         \* fully_loaded() is false
  pressed,         \* keys struck so far
  wire,            \* scancodes the i8042 has not delivered yet
  got              \* scancodes the main loop has handled

ring == <<buf, head, len>>
vars == <<ring, locked, enabled, at, pending, pressed, wire, got>>

Scancode == 1..PRESSES

TypeOK ==
  /\ buf \in [0..(SIZE - 1) -> 0..PRESSES]
  /\ head \in 0..(SIZE - 1)
  /\ len \in 0..SIZE
  /\ locked \in BOOLEAN
  /\ enabled \in BOOLEAN
  /\ at \in {"drain", "pop", "drained", "halted"}
  /\ pending \in BOOLEAN
  /\ pressed \in 0..PRESSES
  /\ wire \in Seq(Scancode)
  /\ got \in Seq(Scancode)

\* Nothing struck, nothing queued.
Empty ==
  /\ buf = [i \in 0..(SIZE - 1) |-> 0]
  /\ head = 0 /\ len = 0
  /\ locked = FALSE
  /\ at = "drain"
  /\ pending \in BOOLEAN
  /\ pressed = 0
  /\ wire = <<>>
  /\ got = <<>>

Init == Empty /\ enabled = TRUE

-----------------------------------------------------------------------------
\* External: a key is struck and the controller holds its scancode.
Press ==
  /\ pressed < PRESSES
  /\ pressed' = pressed + 1
  /\ wire' = Append(wire, pressed')
  /\ UNCHANGED <<ring, locked, enabled, at, pending, got>>

\* A full ring makes room by dropping the oldest scancode.
MutPushDropsOldest(scancode) ==
  /\ buf' = [buf EXCEPT ![(head + len) % SIZE] = scancode]
  /\ IF len < SIZE THEN len' = len + 1 /\ UNCHANGED head
     ELSE head' = (head + 1) % SIZE /\ UNCHANGED len

push(scancode) ==
  \/ /\ len < SIZE
     /\ buf' = [buf EXCEPT ![(head + len) % SIZE] = scancode]
     /\ len' = len + 1
     /\ UNCHANGED head
  \/ /\ len = SIZE
     /\ UNCHANGED ring

\* An interrupt wakes the CPU: hlt is over and the loop starts anew.
Wake == at' = IF at = "halted" THEN "drain" ELSE at

\* IRQ1.  With QUEUE locked the handler would spin for ever.
keyboard_handler ==
  /\ enabled
  /\ wire # <<>>
  /\ ~locked
  /\ push(Head(wire))
  /\ wire' = Tail(wire)
  /\ Wake
  /\ UNCHANGED <<locked, enabled, pending, pressed, got>>

\* IRQ0.  A tick that finds the CPU awake changes nothing here.
timer_handler ==
  /\ enabled
  /\ at = "halted"
  /\ Wake
  /\ UNCHANGED <<ring, locked, enabled, pending, pressed, wire, got>>

-----------------------------------------------------------------------------
\* pop: without_interrupts, then the lock.
PopLock ==
  /\ at = "drain"
  /\ at' = "pop"
  /\ enabled' = FALSE
  /\ locked' = TRUE
  /\ UNCHANGED <<ring, pending, pressed, wire, got>>

\* pop leaves the scancode where it is.
MutPop ==
  /\ at = "pop"
  /\ locked' = FALSE
  /\ enabled' = TRUE
  /\ at' = IF len = 0 THEN "drained" ELSE "drain"
  /\ got' = IF len = 0 \/ Len(got) >= PRESSES THEN got ELSE Append(got, buf[head])
  /\ UNCHANGED <<ring, pending, pressed, wire>>

\* The rest of pop, and what the main loop does with its result.
pop ==
  /\ at = "pop"
  /\ locked' = FALSE
  /\ enabled' = TRUE
  /\ \/ /\ len = 0
        /\ at' = "drained"
        /\ UNCHANGED <<ring, got>>
     \/ /\ len > 0
        /\ at' = "drain"
        /\ got' = Append(got, buf[head])
        /\ head' = (head + 1) % SIZE
        /\ len' = len - 1
        /\ UNCHANGED buf
  /\ UNCHANGED <<pending, pressed, wire>>

\* The loop sleeps with interrupts disabled.
MutHlt ==
  /\ at = "drained"
  /\ ~pending
  /\ at' = "halted"
  /\ enabled' = FALSE
  /\ UNCHANGED <<ring, locked, pending, pressed, wire, got>>

\* The ring was empty: sleep until the next interrupt.
hlt ==
  /\ at = "drained"
  /\ ~pending
  /\ at' = "halted"
  /\ UNCHANGED <<ring, locked, enabled, pending, pressed, wire, got>>

\* Or stream a chunk of history, which may be the last, and go round again.
pump ==
  /\ at = "drained"
  /\ pending
  /\ pending' \in BOOLEAN
  /\ at' = "drain"
  /\ UNCHANGED <<ring, locked, enabled, pressed, wire, got>>

MainLoop == PopLock \/ pop \/ hlt \/ pump

Next == Press \/ keyboard_handler \/ timer_handler \/ MainLoop

Spec == Init /\ [][Next]_vars

-----------------------------------------------------------------------------
(***************************************************************************)
(* Properties                                                              *)
(***************************************************************************)

(* "The IRQ handler can never deadlock against us" (keyboard.rs:83): while *)
(* the main loop holds the lock no handler that takes it can run.          *)
NeverSpins == locked => ~enabled

(* What is in the ring, oldest first.                                      *)
Contents == [i \in 1..len |-> buf[(head + i - 1) % SIZE]]

Queue == INSTANCE KeyQueue WITH Capacity <- SIZE, queue <- Contents

(* The ring is a queue that drops the newest input when it is full and     *)
(* nothing else, however handler and main loop take turns and wherever     *)
(* its indices wrap around (keyboard.rs:63).                               *)
RefinesKeyQueue == Queue!Spec

(* Scancodes are handled in the order they were struck, none twice.        *)
InOrder == \A i, j \in 1..Len(got) : i < j => got[i] < got[j]
=============================================================================

---------------------------- MODULE PanicProofs -----------------------------
(***************************************************************************)
(* The keyboard ring and its lock, with interrupts, printing, allocating,  *)
(* faults and the panic handler around it: for every size of the ring and  *)
(* every number of keys.                                                   *)
(***************************************************************************)
EXTENDS Panic, SequenceTheorems, TLAPS

(***************************************************************************)
(* The inductive invariant.                                                *)
(***************************************************************************)

\* Main holds the lock of the ring inside pop and nowhere else; it is there
\* with interrupts disabled, and does not print or allocate.
LockInv ==
  /\ locked <=> at = "pop"
  /\ locked => ~enabled
  /\ lock # "none" => ~locked
  /\ phase # "loop" => at = "drain"

Increasing(s) == \A i, j \in 1..Len(s) : i < j => s[i] < s[j]
Below(s, t) == \A i \in 1..Len(s) : \A j \in 1..Len(t) : s[i] < t[j]
AllLess(s, e) == \A i \in 1..Len(s) : s[i] < e
AllMore(s, e) == \A i \in 1..Len(s) : e < s[i]
UpTo(s, n) == \A i \in 1..Len(s) : s[i] \in 1..n

\* The scancodes handled, queued and still in the controller are in the order
\* the keys were struck.
OrderInv ==
  /\ UpTo(got, pressed) /\ UpTo(Contents, pressed) /\ UpTo(wire, pressed)
  /\ Increasing(got) /\ Increasing(Contents) /\ Increasing(wire)
  /\ Below(got, Contents) /\ Below(got, wire) /\ Below(Contents, wire)

IInv == PanicTypeOK /\ LockInv /\ OrderInv

-----------------------------------------------------------------------------
(***************************************************************************)
(* The ring as a queue.                                                    *)
(***************************************************************************)
LEMMA Slot ==
  ASSUME NEW h \in 0..(SIZE - 1), NEW k \in 0..SIZE
  PROVE  /\ (h + k) % SIZE = IF h + k < SIZE THEN h + k ELSE h + k - SIZE
         /\ (h + k) % SIZE \in 0..(SIZE - 1)
BY SizeAssumption

LEMMA ContentsType ==
  ASSUME TypeOK
  PROVE  /\ Contents \in Seq(0..PRESSES)
         /\ Len(Contents) = len
         /\ \A i \in 1..len : Contents[i] = buf[(head + (i - 1)) % SIZE]
<1>1. \A i \in 1..len : /\ (head + (i - 1)) % SIZE \in 0..(SIZE - 1)
                        /\ head + i - 1 = head + (i - 1)
  <2> TAKE i \in 1..len
  <2>1. head \in 0..(SIZE - 1) /\ i - 1 \in 0..SIZE
    BY SizeAssumption DEF TypeOK
  <2> QED BY <2>1, Slot
<1>2. Contents = [i \in 1..len |-> buf[(head + (i - 1)) % SIZE]]
  BY <1>1 DEF Contents
<1>3. Contents \in [1..len -> 0..PRESSES] /\ len \in Nat
  <2>1. \A i \in 1..len : buf[(head + (i - 1)) % SIZE] \in 0..PRESSES
    BY <1>1 DEF TypeOK
  <2> QED BY <1>2, <2>1, SizeAssumption DEF TypeOK
<1>4. Contents \in Seq(0..PRESSES)
  BY <1>3, SeqDef
<1> QED BY <1>2, <1>3, <1>4, LenProperties

LEMMA PushContents ==
  ASSUME TypeOK, NEW scancode \in 0..PRESSES, len < SIZE,
         buf' = [buf EXCEPT ![(head + len) % SIZE] = scancode],
         len' = len + 1, head' = head
  PROVE  Contents' = Append(Contents, scancode)
<1> DEFINE slot == (head + len) % SIZE
<1>1. /\ head \in 0..(SIZE - 1) /\ len \in 0..SIZE /\ SIZE \in Nat \ {0}
      /\ buf \in [0..(SIZE - 1) -> 0..PRESSES]
  BY SizeAssumption DEF TypeOK
<1>2. slot = (IF head + len < SIZE THEN head + len ELSE head + len - SIZE)
      /\ slot \in 0..(SIZE - 1)
  BY <1>1, Slot
<1>3. \A i \in 1..len : /\ (head + (i - 1)) % SIZE \in 0..(SIZE - 1)
                        /\ (head + (i - 1)) % SIZE # slot
  <2> HIDE DEF slot
  <2> TAKE i \in 1..len
  <2> DEFINE other == (head + (i - 1)) % SIZE
  <2>1. i - 1 \in 0..SIZE
    BY <1>1
  <2>2. /\ other = (IF head + (i - 1) < SIZE THEN head + (i - 1) ELSE head + (i - 1) - SIZE)
        /\ other \in 0..(SIZE - 1)
    BY <1>1, <2>1, Slot
  <2> HIDE DEF other
  <2>3. other # slot
    BY <1>1, <1>2, <2>2
  <2> QED BY <2>2, <2>3 DEF other
<1> HIDE DEF slot
<1>4. buf' = [buf EXCEPT ![slot] = scancode]
  BY DEF slot
<1>5. \A i \in 1..(len + 1) :
        buf'[(head' + i - 1) % SIZE] = IF i <= len THEN Contents[i] ELSE scancode
  <2> TAKE i \in 1..(len + 1)
  <2>1. CASE i <= len
    <3>1. i \in 1..len /\ head' + i - 1 = head + (i - 1)
      BY <1>1, <2>1
    <3>2. Contents[i] = buf[(head + (i - 1)) % SIZE]
      BY <3>1, ContentsType
    <3> QED BY <1>1, <1>3, <1>4, <2>1, <3>1, <3>2
  <2>2. CASE i = len + 1
    <3>1. head' + i - 1 = head + len
      BY <1>1, <2>2
    <3> QED BY <1>1, <1>2, <1>4, <2>2, <3>1 DEF slot
  <2> QED BY <1>1, <2>1, <2>2
<1>6. Contents' = [i \in 1..(len + 1) |-> IF i <= len THEN Contents[i] ELSE scancode]
  BY <1>5 DEF Contents
<1>7. /\ Contents \in Seq(0..PRESSES) /\ Len(Contents) = len
  BY ContentsType
<1>8. Append(Contents, scancode) =
        [i \in 1..(len + 1) |-> IF i <= len THEN Contents[i] ELSE scancode]
  <2> DEFINE longer == Append(Contents, scancode)
  <2>1. longer \in Seq(0..PRESSES) /\ Len(longer) = len + 1
    BY <1>7, AppendProperties
  <2>2. longer = [i \in 1..(len + 1) |-> longer[i]]
    BY <2>1, LenProperties
  <2>3. \A i \in 1..(len + 1) : longer[i] = IF i <= len THEN Contents[i] ELSE scancode
    BY <1>1, <1>7, AppendProperties
  <2> HIDE DEF longer
  <2>4. longer = [i \in 1..(len + 1) |-> IF i <= len THEN Contents[i] ELSE scancode]
    BY <2>2, <2>3
  <2> QED BY <2>4 DEF longer
<1> QED BY <1>6, <1>8

LEMMA PopContents ==
  ASSUME TypeOK, len > 0,
         head' = (head + 1) % SIZE, len' = len - 1, buf' = buf
  PROVE  Contents # <<>> /\ Contents' = Tail(Contents) /\ buf[head] = Contents[1]
<1>1. /\ head \in 0..(SIZE - 1) /\ len \in 1..SIZE /\ SIZE \in Nat \ {0}
      /\ 0 \in 0..SIZE /\ 1 \in 0..SIZE
  BY SizeAssumption DEF TypeOK
<1>2. head' \in 0..(SIZE - 1) /\ head' = IF head + 1 < SIZE THEN head + 1 ELSE head + 1 - SIZE
  BY <1>1, Slot
<1>3. \A i \in 1..(len - 1) : (head' + i - 1) % SIZE = (head + i) % SIZE
  <2> TAKE i \in 1..(len - 1)
  <2>1. i - 1 \in 0..SIZE /\ i \in 0..SIZE /\ head' + i - 1 = head' + (i - 1)
    BY <1>1, <1>2
  <2>2. (head' + (i - 1)) % SIZE =
          IF head' + (i - 1) < SIZE THEN head' + (i - 1) ELSE head' + (i - 1) - SIZE
    BY <1>2, <2>1, Slot
  <2>3. (head + i) % SIZE = IF head + i < SIZE THEN head + i ELSE head + i - SIZE
    BY <1>1, <2>1, Slot
  <2>4. (IF head' + (i - 1) < SIZE THEN head' + (i - 1) ELSE head' + (i - 1) - SIZE)
          = IF head + i < SIZE THEN head + i ELSE head + i - SIZE
    BY <1>1, <1>2, <2>1
  <2> QED BY <2>1, <2>2, <2>3, <2>4
<1>4. \A i \in 1..(len - 1) : Contents[i + 1] = buf[(head + i) % SIZE]
  <2> TAKE i \in 1..(len - 1)
  <2>1. i + 1 \in 1..len /\ head + ((i + 1) - 1) = head + i
    BY <1>1
  <2> QED BY <2>1, ContentsType
<1>5. Contents' = [i \in 1..(len - 1) |-> Contents[i + 1]]
  BY <1>3, <1>4 DEF Contents
<1>6. Contents[1] = buf[head]
  <2>1. 1 \in 1..len /\ 1 - 1 = 0
    BY <1>1
  <2>2. (head + 0) % SIZE = IF head + 0 < SIZE THEN head + 0 ELSE head + 0 - SIZE
    BY <1>1, Slot
  <2>3. (IF head + 0 < SIZE THEN head + 0 ELSE head + 0 - SIZE) = head
    BY <1>1
  <2> QED BY <2>1, <2>2, <2>3, ContentsType
<1>7. Contents \in Seq(0..PRESSES) /\ Len(Contents) = len
  BY ContentsType
<1>8. Contents # <<>>
  BY <1>1, <1>7, EmptySeq
<1>9. Tail(Contents) = [i \in 1..(len - 1) |-> Contents[i + 1]]
  <2> DEFINE rest == Tail(Contents)
  <2>1. /\ rest \in Seq(0..PRESSES) /\ Len(rest) = len - 1
        /\ \A i \in 1..(len - 1) : rest[i] = Contents[i + 1]
    BY <1>7, <1>8, HeadTailProperties
  <2> HIDE DEF rest
  <2>2. rest = [i \in 1..(len - 1) |-> rest[i]]
    BY <2>1, LenProperties
  <2> QED BY <2>1, <2>2 DEF rest
<1> QED BY <1>5, <1>6, <1>8, <1>9

-----------------------------------------------------------------------------
(***************************************************************************)
(* What a step does to the ring, the lines before and behind it, and main. *)
(***************************************************************************)
keyVars == <<ring, pressed, wire, got>>

LEMMA StepKinds ==
  ASSUME [PanicNext]_panicVars
  PROVE  UNCHANGED keyVars \/ Press \/ keyboard_handler \/ pop
<1>1. CASE UNCHANGED panicVars
  BY <1>1 DEF panicVars, vars, keyVars
<1>2. CASE KernelMain
  BY <1>2 DEF KernelMain, Stash, LoadIdt, Enable, serial_print, PrintDone, Allocate, Allocated, Loop,
              MainLoop, PopLock, hlt, pump, loopVars, vars, keyVars
<1>3. CASE MainPanic \/ Fault \/ PanicHandler \/ Spin \/ Rest
  BY <1>3 DEF MainPanic, Fault, PanicHandler, PanicPrint, PanicPage, PanicMessage, PanicWords, Spin, Rest,
              loopVars, panicVars, vars, keyVars
<1>4. CASE Hardware
  BY <1>4 DEF Hardware, Interrupt, timer_handler, keyVars
<1> QED BY <1>1, <1>2, <1>3, <1>4 DEF PanicNext

\* Types, flag by flag and value by value.
KeysOK ==
  /\ buf \in [0..(SIZE - 1) -> 0..PRESSES]
  /\ head \in 0..(SIZE - 1)
  /\ len \in 0..SIZE
  /\ pressed \in 0..PRESSES
  /\ wire \in Seq(Scancode)
  /\ got \in Seq(Scancode)

StepsOK ==
  /\ at \in {"drain", "pop", "drained", "halted"}
  /\ phase \in {"boot", "stash", "init", "idt", "loop"}
  /\ lock \in {"none", "SERIAL1", "ALLOCATOR"}
  /\ panic \in {"no", "print", "page", "message", "words", "rest"}
  /\ screen \in {"paper", "broken", "message", "words"}

FlagsOK ==
  /\ locked \in BOOLEAN /\ enabled \in BOOLEAN /\ pending \in BOOLEAN
  /\ saved \in BOOLEAN /\ stashed \in BOOLEAN /\ exhausted \in BOOLEAN

LEMMA TypeParts ==
  /\ PanicTypeOK <=> KeysOK /\ StepsOK /\ FlagsOK
  /\ PanicTypeOK' <=> KeysOK' /\ StepsOK' /\ FlagsOK'
BY DEF PanicTypeOK, TypeOK, KeysOK, StepsOK, FlagsOK

LEMMA InitInv == PanicInit => IInv
<1> SUFFICES ASSUME PanicInit PROVE IInv
  OBVIOUS
<1>1. KeysOK
  BY SizeAssumption, EmptySeq DEF PanicInit, Empty, KeysOK
<1>2. StepsOK
  BY DEF PanicInit, Empty, StepsOK
<1>3. FlagsOK
  BY Zenon DEF PanicInit, Empty, FlagsOK
<1>4. LockInv
  BY DEF PanicInit, Empty, LockInv
<1>5. PanicTypeOK
  BY <1>1, <1>2, <1>3, TypeParts
<1>6. OrderInv
  <2>1. Len(got) = 0 /\ Len(wire) = 0 /\ Len(Contents) = 0
    BY <1>5, ContentsType, EmptySeq DEF PanicInit, Empty, PanicTypeOK
  <2> QED BY <2>1 DEF OrderInv, UpTo, Increasing, Below
<1> QED BY <1>4, <1>5, <1>6 DEF IInv

LEMMA FlagsStep ==
  ASSUME FlagsOK, [PanicNext]_panicVars
  PROVE  FlagsOK'
<1>1. CASE UNCHANGED panicVars
  BY <1>1, Zenon DEF panicVars, mainVars, vars, FlagsOK
<1>2. CASE KernelMain
  BY <1>2, Zenon
     DEF KernelMain, Stash, LoadIdt, Enable, serial_print, PrintDone, Allocate, Allocated, Loop,
         MainLoop, PopLock, pop, hlt, pump, loopVars, mainVars, vars, FlagsOK
<1>3. CASE MainPanic \/ Fault
  BY <1>3, Zenon DEF MainPanic, Fault, loopVars, mainVars, vars, FlagsOK
<1>4. CASE PanicHandler \/ Spin \/ Rest
  BY <1>4, Zenon DEF PanicHandler, PanicPrint, PanicPage, PanicMessage, PanicWords, Spin,
                     Rest, panicVars, mainVars, vars, FlagsOK
<1>5. CASE Hardware
  BY <1>5, Zenon DEF Hardware, Interrupt, Press, keyboard_handler, timer_handler, mainVars,
                     FlagsOK
<1> QED BY <1>1, <1>2, <1>3, <1>4, <1>5 DEF PanicNext

LEMMA StepsStep ==
  ASSUME StepsOK, LockInv, FlagsOK, [PanicNext]_panicVars
  PROVE  StepsOK' /\ LockInv'
<1> USE DEF StepsOK, LockInv, FlagsOK
<1>1. CASE UNCHANGED panicVars
  BY <1>1 DEF panicVars, mainVars, vars
<1>2. CASE Stash \/ LoadIdt \/ Enable
  BY <1>2 DEF Stash, LoadIdt, Enable, Running, loopVars, vars
<1>3. CASE serial_print \/ PrintDone
  BY <1>3 DEF serial_print, PrintDone, Running, loopVars
<1>4. CASE Allocate \/ Allocated
  BY <1>4 DEF Allocate, Allocated, Running, vars
<1>5. CASE Loop
  BY <1>5 DEF Loop, Running, MainLoop, PopLock, pop, hlt, pump, mainVars
<1>6. CASE MainPanic \/ Fault
  <2>1. /\ at' = at /\ locked' = locked /\ lock' = lock /\ phase' = phase
        /\ screen' = screen /\ panic' = "print"
    BY <1>6 DEF MainPanic, Fault, loopVars, mainVars, vars
  <2>2. enabled' => enabled
    BY <1>6, Zenon DEF MainPanic, Fault, vars
  <2> QED BY <2>1, <2>2
<1>7. CASE PanicHandler
  BY <1>7 DEF PanicHandler, PanicPrint, PanicPage, PanicMessage, PanicWords, mainVars, vars
<1>8. CASE Spin \/ Rest
  BY <1>8 DEF Spin, Rest, panicVars, mainVars, vars
<1>9. CASE Hardware
  BY <1>9 DEF Hardware, Interrupt, Press, keyboard_handler, timer_handler, Wake, mainVars
<1> QED BY <1>1, <1>2, <1>3, <1>4, <1>5, <1>6, <1>7, <1>8, <1>9 DEF PanicNext, KernelMain
-----------------------------------------------------------------------------
(***************************************************************************)
(* Keys in order.                                                          *)
(***************************************************************************)
LEMMA AppendOrder ==
  ASSUME NEW s \in Seq(Nat), NEW e \in Nat
  PROVE  /\ Append(s, e) \in Seq(Nat)
         /\ Increasing(s) /\ AllLess(s, e) => Increasing(Append(s, e))
         /\ \A n \in Nat : UpTo(s, n) /\ e \in 1..n => UpTo(Append(s, e), n)
         /\ \A t \in Seq(Nat) : Below(s, t) /\ AllMore(t, e) => Below(Append(s, e), t)
         /\ \A t \in Seq(Nat) : Below(t, s) /\ AllLess(t, e) => Below(t, Append(s, e))
<1> DEFINE longer == Append(s, e)
<1>1. /\ longer \in Seq(Nat) /\ Len(longer) = Len(s) + 1 /\ Len(s) \in Nat
      /\ \A i \in 1..Len(s) : longer[i] = s[i] /\ s[i] \in Nat
      /\ longer[Len(s) + 1] = e
  BY AppendProperties, LenProperties, ElementOfSeq
<1>3. \A i \in 1..(Len(s) + 1) : i \in 1..Len(s) \/ i = Len(s) + 1
  BY <1>1
<1> HIDE DEF longer
<1>4. Increasing(s) /\ AllLess(s, e) => Increasing(longer)
  <2> SUFFICES ASSUME Increasing(s), AllLess(s, e),
                      NEW i \in 1..(Len(s) + 1), NEW j \in 1..(Len(s) + 1), i < j
               PROVE  longer[i] < longer[j]
    BY <1>1 DEF Increasing
  <2>1. i \in 1..Len(s)
    BY <1>1
  <2>2. CASE j \in 1..Len(s)
    <3>1. s[i] < s[j]
      BY <2>1, <2>2 DEF Increasing
    <3> QED BY <1>1, <2>1, <2>2, <3>1
  <2>3. CASE j = Len(s) + 1
    BY <1>1, <2>1, <2>3 DEF AllLess
  <2> QED BY <1>3, <2>2, <2>3
<1>5. \A n \in Nat : UpTo(s, n) /\ e \in 1..n => UpTo(longer, n)
  BY <1>1, <1>3 DEF UpTo
<1>6. \A t \in Seq(Nat) : Below(s, t) /\ AllMore(t, e) => Below(longer, t)
  BY <1>1, <1>3 DEF Below, AllLess, AllMore
<1>7. \A t \in Seq(Nat) : Below(t, s) /\ AllLess(t, e) => Below(t, longer)
  BY <1>1, <1>3 DEF Below, AllLess, AllMore
<1> QED BY <1>1, <1>4, <1>5, <1>6, <1>7 DEF longer

LEMMA TailOrder ==
  ASSUME NEW s \in Seq(Nat), s # <<>>
  PROVE  /\ Tail(s) \in Seq(Nat) /\ Head(s) = s[1] /\ s[1] \in Nat
         /\ Increasing(s) => Increasing(Tail(s)) /\ AllMore(Tail(s), s[1])
         /\ \A n \in Nat : UpTo(s, n) => UpTo(Tail(s), n) /\ s[1] \in 1..n
         /\ \A t \in Seq(Nat) : Below(s, t) => Below(Tail(s), t) /\ AllMore(t, s[1])
         /\ \A t \in Seq(Nat) : Below(t, s) => Below(t, Tail(s)) /\ AllLess(t, s[1])
<1> DEFINE rest == Tail(s)
<1>1. /\ rest \in Seq(Nat) /\ Head(s) = s[1] /\ Len(rest) = Len(s) - 1
      /\ \A i \in 1..(Len(s) - 1) : rest[i] = s[i + 1]
      /\ Len(s) \in Nat /\ Len(s) > 0
  BY HeadTailProperties, LenProperties, EmptySeq
<1>2. 1 \in 1..Len(s) /\ \A i \in 1..(Len(s) - 1) : i + 1 \in 1..Len(s) /\ 1 < i + 1
  BY <1>1
<1>3. s[1] \in Nat
  BY <1>2, ElementOfSeq
<1> HIDE DEF rest
<1>5. Increasing(s) => Increasing(rest) /\ AllMore(rest, s[1])
  <2> SUFFICES ASSUME Increasing(s) PROVE Increasing(rest) /\ AllMore(rest, s[1])
    OBVIOUS
  <2>1. \A i, j \in 1..(Len(s) - 1) : i < j => s[i + 1] < s[j + 1]
    <3> TAKE i, j \in 1..(Len(s) - 1)
    <3>1. i < j => i + 1 < j + 1
      BY <1>1
    <3> QED BY <1>2, <3>1 DEF Increasing
  <2>2. \A i \in 1..(Len(s) - 1) : s[1] < s[i + 1]
    BY <1>2 DEF Increasing
  <2> QED BY <1>1, <2>1, <2>2 DEF Increasing, AllMore
<1>6. \A n \in Nat : UpTo(s, n) => UpTo(rest, n) /\ s[1] \in 1..n
  BY <1>1, <1>2 DEF UpTo
<1>7. \A t \in Seq(Nat) : Below(s, t) => Below(rest, t) /\ AllMore(t, s[1])
  BY <1>1, <1>2 DEF Below, AllLess, AllMore
<1>8. \A t \in Seq(Nat) : Below(t, s) => Below(t, rest) /\ AllLess(t, s[1])
  BY <1>1, <1>2 DEF Below, AllLess, AllMore
<1> QED BY <1>1, <1>3, <1>5, <1>6, <1>7, <1>8 DEF rest

LEMMA UpToMore ==
  ASSUME NEW s \in Seq(Nat), NEW n \in Nat, UpTo(s, n)
  PROVE  UpTo(s, n + 1) /\ AllLess(s, n + 1)
BY DEF UpTo, AllLess

-----------------------------------------------------------------------------
(***************************************************************************)
(* A step of the system keeps the invariant.                               *)
(***************************************************************************)
LEMMA SeqTypes ==
  ASSUME PanicTypeOK
  PROVE  /\ got \in Seq(Nat) /\ wire \in Seq(Nat) /\ Contents \in Seq(Nat)
         /\ pressed \in Nat
<1>1. \A S : S \subseteq Nat => Seq(S) \subseteq Seq(Nat)
  <2> SUFFICES ASSUME NEW S, S \subseteq Nat, NEW s \in Seq(S) PROVE s \in Seq(Nat)
    OBVIOUS
  <2>1. Len(s) \in Nat /\ s = [i \in 1..Len(s) |-> s[i]]
    BY LenProperties
  <2>2. \A i \in 1..Len(s) : s[i] \in Nat
    BY ElementOfSeq
  <2>3. s \in [1..Len(s) -> Nat]
    BY <2>1, <2>2
  <2> QED BY <2>1, <2>3, SeqDef
<1>2. Scancode \subseteq Nat /\ 0..PRESSES \subseteq Nat
  BY SizeAssumption DEF Scancode
<1> QED BY <1>1, <1>2, ContentsType DEF PanicTypeOK, TypeOK

LEMMA KeysStep ==
  ASSUME PanicTypeOK, OrderInv, [PanicNext]_panicVars
  PROVE  KeysOK'
<1> USE DEF KeysOK
<1>1. KeysOK /\ TypeOK
  BY TypeParts DEF PanicTypeOK
<1>2. CASE UNCHANGED keyVars
  BY <1>1, <1>2 DEF keyVars, ring
<1>3. CASE Press
  <2>1. pressed' \in Scancode /\ pressed' \in 0..PRESSES
    BY <1>1, <1>3, SizeAssumption DEF Press, Scancode
  <2>2. wire' \in Seq(Scancode)
    BY <1>1, <1>3, <2>1, AppendProperties DEF Press
  <2> QED BY <1>1, <1>3, <2>1, <2>2 DEF Press, ring
<1>4. CASE keyboard_handler
  <2>1. Head(wire) \in Scancode /\ wire' \in Seq(Scancode)
    BY <1>1, <1>4, HeadTailProperties DEF keyboard_handler
  <2>2. Head(wire) \in 0..PRESSES
    BY <2>1, SizeAssumption DEF Scancode
  <2>3. buf' \in [0..(SIZE - 1) -> 0..PRESSES] /\ head' = head /\ len' \in 0..SIZE
    <3>1. CASE len < SIZE /\ len' = len + 1 /\ head' = head
               /\ buf' = [buf EXCEPT ![(head + len) % SIZE] = Head(wire)]
      <4>1. buf' \in [0..(SIZE - 1) -> 0..PRESSES]
        BY <1>1, <2>2, <3>1
      <4> QED BY <1>1, <3>1, <4>1, SizeAssumption
    <3> QED BY <1>1, <1>4, <3>1 DEF keyboard_handler, push, ring
  <2> QED BY <1>1, <1>4, <2>1, <2>3 DEF keyboard_handler
<1>5. CASE pop
  <2>1. CASE len = 0 /\ UNCHANGED <<ring, got>>
    BY <1>1, <1>5, <2>1 DEF pop, ring
  <2>2. CASE len > 0 /\ head' = (head + 1) % SIZE /\ len' = len - 1 /\ UNCHANGED buf
             /\ got' = Append(got, buf[head])
    <3>1. buf[head] = Contents[1] /\ Contents \in Seq(0..PRESSES) /\ 1 \in 1..Len(Contents)
      BY <1>1, <2>2, PopContents, ContentsType
    <3>2. buf[head] \in Scancode
      <4>1. Contents[1] \in 1..pressed
        BY <3>1 DEF OrderInv, UpTo
      <4>2. pressed \in 0..PRESSES
        BY <1>1 DEF TypeOK
      <4>3. \A n \in 0..PRESSES : 1..n \subseteq 1..PRESSES
        BY SizeAssumption
      <4> QED BY <3>1, <4>1, <4>2, <4>3 DEF Scancode
    <3>3. got' \in Seq(Scancode)
      BY <1>1, <2>2, <3>2, AppendProperties
    <3>4. head' \in 0..(SIZE - 1)
      BY <1>1, <2>2, Slot, SizeAssumption
    <3>5. len' \in 0..SIZE
      BY <1>1, <2>2, SizeAssumption
    <3> QED BY <1>1, <1>5, <2>2, <3>3, <3>4, <3>5 DEF pop
  <2> QED BY <1>5, <2>1, <2>2 DEF pop
<1> QED BY <1>2, <1>3, <1>4, <1>5, StepKinds

LEMMA OrderStep ==
  ASSUME PanicTypeOK, OrderInv, [PanicNext]_panicVars
  PROVE  OrderInv'
<1> USE SeqTypes
<1>1. TypeOK
  BY DEF PanicTypeOK
<1>2. CASE UNCHANGED keyVars
  BY <1>2 DEF keyVars, ring, OrderInv, Contents
<1>3. CASE Press
  <2>1. /\ pressed' = pressed + 1 /\ wire' = Append(wire, pressed + 1)
        /\ got' = got /\ Contents' = Contents
    BY <1>3 DEF Press, ring, Contents
  <2>2. /\ UpTo(got, pressed + 1) /\ UpTo(wire, pressed + 1) /\ UpTo(Contents, pressed + 1)
        /\ AllLess(got, pressed + 1) /\ AllLess(wire, pressed + 1)
        /\ AllLess(Contents, pressed + 1)
    BY UpToMore DEF OrderInv
  <2>3. pressed + 1 \in Nat /\ pressed + 1 \in 1..(pressed + 1)
    OBVIOUS
  <2>4. /\ UpTo(Append(wire, pressed + 1), pressed + 1)
        /\ Increasing(Append(wire, pressed + 1))
        /\ Below(got, Append(wire, pressed + 1))
        /\ Below(Contents, Append(wire, pressed + 1))
    BY <2>2, <2>3, AppendOrder DEF OrderInv
  <2> QED BY <2>1, <2>2, <2>4 DEF OrderInv
<1>4. CASE keyboard_handler
  <2> DEFINE first == wire[1]
  <2>1. /\ wire # <<>> /\ wire' = Tail(wire) /\ Head(wire) = first /\ push(first)
        /\ got' = got /\ pressed' = pressed /\ first \in Nat /\ wire' \in Seq(Nat)
    BY <1>4, TailOrder DEF keyboard_handler
  <2>2. /\ Increasing(wire') /\ AllMore(wire', first)
        /\ UpTo(wire', pressed) /\ first \in 1..pressed
        /\ Below(got, wire') /\ AllLess(got, first)
        /\ Below(Contents, wire') /\ AllLess(Contents, first)
    BY <2>1, TailOrder DEF OrderInv
  <2> HIDE DEF first
  <2>3. CASE Contents' = Contents
    BY <2>1, <2>2, <2>3 DEF OrderInv
  <2>4. CASE Contents' = Append(Contents, first)
    <3>1. /\ Increasing(Contents') /\ UpTo(Contents', pressed)
          /\ Below(Contents', wire') /\ Below(got, Contents')
      BY <2>1, <2>2, <2>4, AppendOrder DEF OrderInv
    <3> QED BY <2>1, <2>2, <3>1 DEF OrderInv
  <2>5. Contents' = Contents \/ Contents' = Append(Contents, first)
    <3>1. CASE len = SIZE /\ UNCHANGED ring
      BY <3>1 DEF ring, Contents
    <3>2. CASE len < SIZE
      <4>1. first \in 0..PRESSES
        BY <1>1, <2>2, SizeAssumption DEF TypeOK
      <4>2. len # SIZE
        BY <1>1, <3>2, SizeAssumption DEF TypeOK
      <4> QED BY <1>1, <2>1, <3>2, <4>1, <4>2, PushContents DEF push
    <3> QED BY <2>1, <3>1, <3>2 DEF push
  <2> QED BY <2>3, <2>4, <2>5
<1>5. CASE pop
  <2>1. wire' = wire /\ pressed' = pressed
    BY <1>5 DEF pop
  <2>2. CASE UNCHANGED <<ring, got>>
    BY <2>1, <2>2 DEF ring, OrderInv, Contents
  <2>3. CASE len > 0 /\ head' = (head + 1) % SIZE /\ len' = len - 1 /\ UNCHANGED buf
             /\ got' = Append(got, buf[head])
    <3> DEFINE first == Contents[1]
    <3>1. Contents # <<>> /\ Contents' = Tail(Contents) /\ got' = Append(got, first)
      BY <1>1, <2>3, PopContents
    <3>2. /\ first \in Nat /\ Contents' \in Seq(Nat)
          /\ Increasing(Contents') /\ AllMore(Contents', first)
          /\ UpTo(Contents', pressed) /\ first \in 1..pressed
          /\ Below(got, Contents') /\ AllLess(got, first)
          /\ Below(Contents', wire) /\ AllMore(wire, first)
      BY <3>1, TailOrder DEF OrderInv
    <3> HIDE DEF first
    <3>3. /\ Increasing(got') /\ UpTo(got', pressed)
          /\ Below(got', Contents') /\ Below(got', wire)
      BY <3>1, <3>2, AppendOrder DEF OrderInv
    <3> QED BY <2>1, <3>2, <3>3 DEF OrderInv
  <2> QED BY <1>5, <2>2, <2>3 DEF pop
<1> QED BY <1>2, <1>3, <1>4, <1>5, StepKinds

LEMMA NextInv == IInv /\ [PanicNext]_panicVars => IInv'
<1> SUFFICES ASSUME IInv, [PanicNext]_panicVars PROVE IInv'
  OBVIOUS
<1>1. PanicTypeOK /\ LockInv /\ OrderInv /\ StepsOK /\ FlagsOK
  BY TypeParts DEF IInv
<1>2. KeysOK'
  BY <1>1, KeysStep
<1>3. StepsOK' /\ LockInv'
  BY <1>1, StepsStep
<1>4. FlagsOK'
  BY <1>1, FlagsStep
<1>5. OrderInv'
  BY <1>1, OrderStep
<1> QED BY <1>2, <1>3, <1>4, <1>5, TypeParts DEF IInv

-----------------------------------------------------------------------------
(***************************************************************************)
(* The theorems.                                                           *)
(***************************************************************************)

(* The invariant holds in every state of the kernel, from boot through the *)
(* main loop to the panic handler.                                         *)
THEOREM Invariance == PanicSpec => []IInv
BY InitInv, NextInv, PTL DEF PanicSpec

(* Every variable keeps its type: the indices of the ring stay inside it.  *)
THEOREM TypeCorrect == PanicSpec => []PanicTypeOK
<1>1. IInv => PanicTypeOK
  BY DEF IInv
<1> QED BY <1>1, Invariance, PTL

(* "The IRQ handler can never deadlock against us" (keyboard.rs:83): main  *)
(* never holds the ring's lock with interrupts enabled, wherever it prints *)
(* or allocates, and whatever a fault leaves behind.                       *)
THEOREM HandlerNeverSpins == PanicSpec => []NeverSpins
<1>1. IInv => NeverSpins
  BY DEF IInv, LockInv, NeverSpins
<1> QED BY <1>1, Invariance, PTL

(* Scancodes are handled in the order they were struck and none twice, for *)
(* every size of the ring, whatever it dropped.                            *)
THEOREM HandledInOrder == PanicSpec => []InOrder
<1>1. IInv => InOrder
  BY DEF IInv, OrderInv, Increasing, InOrder
<1> QED BY <1>1, Invariance, PTL

(* The ring of push and pop is a bounded queue that drops the newest input *)
(* when it is full and nothing else (keyboard.rs:63), for every size.      *)
THEOREM Refinement == PanicSpec => RefinesKeyQueue
<1>1. PanicInit => Queue!Init
  <2> SUFFICES ASSUME PanicInit PROVE Contents = <<>>
    BY DEF Queue!Init
  <2>1. TypeOK
    BY InitInv DEF IInv, PanicTypeOK
  <2>2. len = 0
    BY DEF PanicInit, Empty
  <2> QED BY <2>1, <2>2, ContentsType, EmptySeq
<1>2. IInv /\ [PanicNext]_panicVars => [Queue!Next]_Contents
  <2> SUFFICES ASSUME IInv, [PanicNext]_panicVars PROVE [Queue!Next]_Contents
    OBVIOUS
  <2>1. TypeOK /\ PanicTypeOK
    BY DEF IInv, PanicTypeOK
  <2>2. CASE UNCHANGED keyVars \/ Press
    BY <2>2 DEF keyVars, Press, ring, Contents
  <2>3. CASE keyboard_handler
    <3>1. Head(wire) \in Scancode /\ Head(wire) \in 0..PRESSES
      BY <2>1, <2>3, HeadTailProperties, SizeAssumption
         DEF keyboard_handler, TypeOK, Scancode
    <3>2. CASE len = SIZE /\ UNCHANGED ring
      BY <3>2 DEF ring, Contents
    <3>3. CASE len < SIZE
      <4>1. len # SIZE
        BY <2>1, <3>3, SizeAssumption DEF TypeOK
      <4>2. Contents' = Append(Contents, Head(wire))
        BY <2>1, <2>3, <3>1, <3>3, <4>1, PushContents DEF keyboard_handler, push
      <4>3. Len(Contents) < SIZE
        BY <2>1, <3>3, ContentsType
      <4> QED BY <3>1, <4>2, <4>3 DEF Queue!Next, Queue!Put
    <3> QED BY <2>3, <3>2, <3>3 DEF keyboard_handler, push
  <2>4. CASE pop
    <3>1. CASE UNCHANGED <<ring, got>>
      BY <3>1 DEF ring, Contents
    <3>2. CASE len > 0 /\ head' = (head + 1) % SIZE /\ len' = len - 1 /\ UNCHANGED buf
      <4>1. Contents # <<>> /\ Contents' = Tail(Contents)
        BY <2>1, <3>2, PopContents
      <4> QED BY <4>1 DEF Queue!Next, Queue!Get
    <3> QED BY <2>4, <3>1, <3>2 DEF pop
  <2> QED BY <2>2, <2>3, <2>4, StepKinds
<1> QED BY <1>1, <1>2, Invariance, PTL DEF PanicSpec, RefinesKeyQueue, Queue!Spec
=============================================================================

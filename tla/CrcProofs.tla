----------------------------- MODULE CrcProofs ------------------------------
(***************************************************************************)
(* The checksum finds damage, for every register of eight bits or more,    *)
(* every polynomial that has its highest bit and messages of any length.   *)
(***************************************************************************)
EXTENDS Crc, SequenceTheorems, WellFoundedInduction, TLAPS

(***************************************************************************)
(* The inductive invariant is about the difference of the two registers,   *)
(* which runs through the same rounds as they do.                          *)
(***************************************************************************)
Difference == Xor(crc["meant"], crc["found"])

Fed == Len(data["meant"])

\* A round puts the bit it takes out at the bottom back in at the top, so a
\* difference is still under way to the bottom or has come back to the top.
Alive(rounds) == \E i \in Difference : i < left \/ i + rounds >= Width

\* The first and the last byte that differ.
Ends(first, last) ==
  first \in Damage /\ last \in Damage /\ \A k \in Damage : first <= k /\ k <= last

SameInv == Damage = {} => Difference = {}

EndsInv == Damage # {} => \E first, last \in Damage : Ends(first, last)

\* The registers differ from the first byte that does, as long as all damage
\* is within the width of the register.
BurstInv ==
  \A first, last \in Damage :
    Ends(first, last) /\ 8 * (last - first + 1) <= Width =>
      IF 8 * (Fed - first + 1) <= Width THEN Alive(8 * (Fed - first + 1) - left)
      ELSE Difference # {}

CrcInv == CrcTypeOK /\ SameInv /\ EndsInv /\ BurstInv

-----------------------------------------------------------------------------
(***************************************************************************)
(* One round, bit by bit.                                                  *)
(***************************************************************************)
LEMMA XorBits ==
  ASSUME NEW a, NEW b, NEW x
  PROVE  x \in Xor(a, b) <=> ~(x \in a <=> x \in b)
BY DEF Xor

LEMMA XorType ==
  ASSUME NEW a \in Register, NEW b \in Register
  PROVE  Xor(a, b) \in Register
BY DEF Xor, Register

LEMMA RoundBits ==
  ASSUME NEW r \in Register
  PROVE  /\ Round(r) \in Register
         /\ \A j \in 0..TOP :
              j \in Round(r) <=> ~(j + 1 \in r <=> (0 \in r /\ j \in POLY))
<1>1. r \subseteq 0..TOP /\ TOP \in Nat /\ POLY \subseteq 0..TOP
  BY PolyAssumption DEF Register
<1>2. Shift(r) \subseteq 0..TOP
  BY <1>1 DEF Shift
<1>3. \A j \in 0..TOP : j \in Shift(r) <=> j + 1 \in r
  <2> TAKE j \in 0..TOP
  <2>1. ASSUME j + 1 \in r PROVE j \in Shift(r)
    <3>1. j + 1 \in r \ {0} /\ (j + 1) - 1 = j
      BY <1>1, <2>1
    <3> QED BY <3>1 DEF Shift
  <2>2. ASSUME j \in Shift(r) PROVE j + 1 \in r
    <3>1. PICK i \in r \ {0} : j = i - 1
      BY <2>2 DEF Shift
    <3>2. i = j + 1
      BY <1>1, <3>1
    <3> QED BY <3>1, <3>2
  <2> QED BY <2>1, <2>2
<1>4. CASE 0 \in r
  <2>1. Round(r) = Xor(Shift(r), POLY)
    BY <1>4 DEF Round
  <2> QED BY <1>1, <1>2, <1>3, <1>4, <2>1, XorBits, XorType DEF Register
<1>5. CASE 0 \notin r
  <2>1. Round(r) = Shift(r)
    BY <1>5 DEF Round
  <2> QED BY <1>2, <1>3, <1>5, <2>1 DEF Register
<1> QED BY <1>4, <1>5

LEMMA RoundLinear ==
  ASSUME NEW a \in Register, NEW b \in Register
  PROVE  Xor(Round(a), Round(b)) = Round(Xor(a, b))
<1>1. /\ Round(a) \in Register /\ Round(b) \in Register
      /\ Xor(a, b) \in Register /\ Round(Xor(a, b)) \in Register
      /\ Xor(Round(a), Round(b)) \in Register
  BY XorType, RoundBits
<1>2. \A j \in 0..TOP : j \in Xor(Round(a), Round(b)) <=> j \in Round(Xor(a, b))
  <2> TAKE j \in 0..TOP
  <2>1. /\ j \in Round(a) <=> ~(j + 1 \in a <=> (0 \in a /\ j \in POLY))
        /\ j \in Round(b) <=> ~(j + 1 \in b <=> (0 \in b /\ j \in POLY))
        /\ j \in Round(Xor(a, b)) <=>
             ~(j + 1 \in Xor(a, b) <=> (0 \in Xor(a, b) /\ j \in POLY))
    BY <1>1, RoundBits
  <2>2. /\ j + 1 \in Xor(a, b) <=> ~(j + 1 \in a <=> j + 1 \in b)
        /\ 0 \in Xor(a, b) <=> ~(0 \in a <=> 0 \in b)
        /\ j \in Xor(Round(a), Round(b)) <=> ~(j \in Round(a) <=> j \in Round(b))
    BY XorBits
  <2> QED BY <2>1, <2>2
<1> QED BY <1>1, <1>2 DEF Register

\* The lowest bit comes back at the top, any other moves down.
LEMMA RoundKeeps ==
  ASSUME NEW r \in Register
  PROVE  /\ 0 \in r => TOP \in Round(r)
         /\ 0 \notin r => \A i \in r : i - 1 \in Round(r)
         /\ r = {} <=> Round(r) = {}
<1>1. r \subseteq 0..TOP /\ TOP \in Nat /\ TOP \in POLY
  BY PolyAssumption DEF Register
<1>2. 0 \in r => TOP \in Round(r)
  <2>1. TOP + 1 \notin r /\ TOP \in 0..TOP
    BY <1>1
  <2> QED BY <1>1, <2>1, RoundBits
<1>3. 0 \notin r => \A i \in r : i - 1 \in Round(r)
  <2> SUFFICES ASSUME 0 \notin r, NEW i \in r PROVE i - 1 \in Round(r)
    OBVIOUS
  <2>1. i - 1 \in 0..TOP /\ (i - 1) + 1 = i
    BY <1>1
  <2> QED BY <2>1, RoundBits
<1>4. r = {} => Round(r) = {}
  BY DEF Round, Shift
<1> QED BY <1>2, <1>3, <1>4

-----------------------------------------------------------------------------
(***************************************************************************)
(* The steps.                                                              *)
(***************************************************************************)
LEMMA CrcTypes ==
  ASSUME CrcTypeOK
  PROVE  /\ crc["meant"] \in Register /\ crc["found"] \in Register
         /\ data["meant"] \in Seq(Byte) /\ data["found"] \in Seq(Byte)
         /\ Len(data["found"]) = Fed /\ Fed \in Nat /\ Len(data["meant"]) = Fed
         /\ Difference \in Register
         /\ left \in 0..8 /\ Width \in Nat /\ Width >= 8 /\ Width = TOP + 1
         /\ Damage \subseteq 1..Fed
<1>1. crc["meant"] \in Register /\ crc["found"] \in Register
  BY DEF CrcTypeOK, Messages
<1>2. data["meant"] \in Seq(Byte) /\ data["found"] \in Seq(Byte)
      /\ Len(data["found"]) = Fed
  BY DEF CrcTypeOK, Messages, Fed
<1>3. Fed \in Nat
  BY <1>2, LenProperties DEF Fed
<1> QED BY <1>1, <1>2, <1>3, XorType, PolyAssumption
        DEF CrcTypeOK, Difference, Width, Damage, Fed

LEMMA FeedEffect ==
  ASSUME CrcTypeOK, NEW byte \in [Messages -> Byte], Feed(byte)
  PROVE  /\ CrcTypeOK' /\ Fed' = Fed + 1 /\ left = 0 /\ left' = 8
         /\ Difference' = Xor(Difference, Xor(byte["meant"], byte["found"]))
         /\ Damage' = Damage \cup (IF byte["meant"] = byte["found"] THEN {} ELSE {Fed + 1})
         /\ byte["meant"] \subseteq 0..7 /\ byte["found"] \subseteq 0..7
<1>1. byte["meant"] \in Byte /\ byte["found"] \in Byte
  BY DEF Messages
<1>2. byte["meant"] \subseteq 0..7 /\ byte["found"] \subseteq 0..7
  BY <1>1, ByteAssumption
<1>3. /\ data' = [m \in Messages |-> Append(data[m], byte[m])]
      /\ crc' = [m \in Messages |-> Xor(crc[m], byte[m])]
      /\ left = 0 /\ left' = 8 /\ Fed < MaxLength
  BY DEF Feed, Fed
<1>4. \A m \in Messages :
        /\ data[m] \in Seq(Byte) /\ byte[m] \in Byte /\ Len(data[m]) = Fed
        /\ data'[m] \in Seq(Byte) /\ Len(data'[m]) = Fed + 1
        /\ data'[m][Fed + 1] = byte[m]
        /\ \A k \in 1..Fed : data'[m][k] = data[m][k]
  BY <1>3, AppendProperties DEF CrcTypeOK, Fed
<1>5. "meant" \in Messages /\ "found" \in Messages
  BY DEF Messages
<1>6. Fed' = Fed + 1 /\ Fed \in Nat
  BY <1>4, <1>5, CrcTypes DEF Fed
<1>7. CrcTypeOK'
  <2>1. \A m \in Messages : crc'[m] \in Register
    <3> TAKE m \in Messages
    <3>1. 0..7 \subseteq 0..TOP
      BY PolyAssumption
    <3>2. byte[m] \subseteq 0..7
      BY <1>4, ByteAssumption
    <3>3. byte[m] \in Register /\ crc[m] \in Register
      BY <3>1, <3>2 DEF Register, CrcTypeOK
    <3> QED BY <1>3, <3>3, XorType
  <2>2. crc' \in [Messages -> Register] /\ data' \in [Messages -> Seq(Byte)]
    BY <1>3, <1>4, <2>1
  <2>3. \A m \in Messages : Len(data'[m]) = Len(data'["meant"]) /\ Len(data'[m]) <= MaxLength
    BY <1>3, <1>4, <1>5, <1>6, LengthAssumption
  <2> QED BY <1>3, <2>2, <2>3 DEF CrcTypeOK
<1>8. Difference' = Xor(Difference, Xor(byte["meant"], byte["found"]))
  <2>1. Difference' = Xor(Xor(crc["meant"], byte["meant"]), Xor(crc["found"], byte["found"]))
    BY <1>3, <1>5 DEF Difference
  <2> QED BY <2>1 DEF Difference, Xor
<1>9. Damage' = Damage \cup (IF byte["meant"] = byte["found"] THEN {} ELSE {Fed + 1})
  <2>1. Damage' = {k \in 1..(Fed + 1) : data'["meant"][k] # data'["found"][k]}
    BY <1>4, <1>5 DEF Damage
  <2>2. Damage = {k \in 1..Fed : data["meant"][k] # data["found"][k]}
    BY DEF Damage, Fed
  <2>3. \A k \in 1..(Fed + 1) : k \in 1..Fed \/ k = Fed + 1
    BY <1>6
  <2>4. 1..Fed \subseteq 1..(Fed + 1) /\ Fed + 1 \in 1..(Fed + 1) /\ Fed + 1 \notin 1..Fed
    BY <1>6
  <2> QED BY <1>4, <1>5, <2>1, <2>2, <2>3, <2>4
<1> QED BY <1>2, <1>3, <1>6, <1>7, <1>8, <1>9

LEMMA TurnEffect ==
  ASSUME CrcTypeOK, Turn
  PROVE  /\ CrcTypeOK' /\ Fed' = Fed /\ Damage' = Damage
         /\ left > 0 /\ left' = left - 1
         /\ Difference' = Round(Difference)
<1>1. /\ crc' = [m \in Messages |-> Round(crc[m])] /\ data' = data
      /\ left > 0 /\ left' = left - 1
  BY DEF Turn
<1>2. \A m \in Messages : Round(crc[m]) \in Register
  BY RoundBits DEF CrcTypeOK
<1>3. CrcTypeOK'
  BY <1>1, <1>2 DEF CrcTypeOK
<1>4. Difference' = Round(Difference)
  BY <1>1, CrcTypes, RoundLinear DEF Difference, Messages
<1> QED BY <1>1, <1>3, <1>4 DEF Fed, Damage

LEMMA CrcInitInv == CrcInit => CrcInv
<1> SUFFICES ASSUME CrcInit PROVE CrcInv
  OBVIOUS
<1>1. /\ \A m \in Messages : data[m] = <<>> /\ crc[m] = 0..TOP
      /\ data = [m \in Messages |-> <<>>] /\ crc = [m \in Messages |-> 0..TOP] /\ left = 0
  BY DEF CrcInit
<1>2. <<>> \in Seq(Byte) /\ Len(<<>>) = 0
  BY EmptySeq
<1>3. CrcTypeOK
  BY <1>1, <1>2, LengthAssumption DEF CrcTypeOK, Register, Messages
<1>4. Damage = {} /\ Difference = {}
  BY <1>1, <1>2 DEF Damage, Difference, Xor, Messages
<1> QED BY <1>3, <1>4 DEF CrcInv, SameInv, EndsInv, BurstInv

\* The next byte: the bits that say the registers differ are above those it
\* changes, or it comes after all the damage.
LEMMA FeedInv ==
  ASSUME CrcInv, NEW byte \in [Messages -> Byte], Feed(byte)
  PROVE  CrcInv'
<1> DEFINE change == Xor(byte["meant"], byte["found"])
<1>0. CrcTypeOK /\ SameInv /\ EndsInv /\ BurstInv
  BY DEF CrcInv
<1>1. /\ CrcTypeOK' /\ Fed' = Fed + 1 /\ left = 0 /\ left' = 8
      /\ Difference' = Xor(Difference, change)
      /\ Damage' = Damage \cup (IF byte["meant"] = byte["found"] THEN {} ELSE {Fed + 1})
      /\ change \subseteq 0..7
      /\ change = {} <=> byte["meant"] = byte["found"]
  BY <1>0, FeedEffect DEF Xor
<1>2. /\ Fed \in Nat /\ Width \in Nat /\ Width >= 8 /\ Damage \subseteq 1..Fed
      /\ Difference \subseteq 0..TOP /\ TOP \in Nat
  BY <1>0, CrcTypes, PolyAssumption DEF Register
<1> HIDE DEF change
<1>3. change = {} => Difference' = Difference /\ Damage' = Damage
  BY <1>1 DEF Xor
<1>4. change # {} => Damage' = Damage \cup {Fed + 1}
  BY <1>1
<1>5. SameInv'
  BY <1>0, <1>3, <1>4 DEF SameInv
<1>6. EndsInv'
  <2>1. CASE change = {}
    BY <1>0, <1>3, <2>1 DEF EndsInv, Ends
  <2>2. CASE change # {} /\ Damage = {}
    <3>1. Damage' = {Fed + 1} /\ Fed + 1 <= Fed + 1
      BY <1>2, <1>4, <2>2
    <3> QED BY <3>1 DEF EndsInv, Ends
  <2>3. CASE change # {} /\ Damage # {}
    <3>1. PICK first \in Damage, last \in Damage : Ends(first, last)
      BY <1>0, <2>3 DEF EndsInv
    <3>2. \A k \in Damage' : first <= k /\ k <= Fed + 1
      <4>1. first \in 1..Fed /\ \A k \in Damage : first <= k
        BY <1>2, <3>1 DEF Ends
      <4>2. \A k \in Damage : k <= Fed + 1
        BY <1>2
      <4>3. first <= Fed + 1 /\ Fed + 1 <= Fed + 1
        BY <1>2, <4>1
      <4> QED BY <1>4, <2>3, <4>1, <4>2, <4>3
    <3>3. first \in Damage' /\ Fed + 1 \in Damage'
      BY <1>4, <2>3
    <3> QED BY <3>2, <3>3 DEF EndsInv, Ends
  <2> QED BY <2>1, <2>2, <2>3
<1>7. BurstInv'
  <2> SUFFICES ASSUME NEW first \in Damage', NEW last \in Damage',
                      Ends(first, last)', 8 * (last - first + 1) <= Width
               PROVE  IF 8 * (Fed' - first + 1) <= Width
                      THEN Alive(8 * (Fed - first + 1) - left)'
                      ELSE Difference' # {}
    BY DEF BurstInv
  <2>1. /\ \A k \in Damage' : first <= k /\ k <= last
        /\ first \in 1..(Fed + 1) /\ last \in 1..(Fed + 1)
    BY <1>1, <1>2 DEF Ends
  <2>2. CASE Damage = {}
    <3>1. change # {} /\ first = Fed + 1 /\ Difference = {}
      BY <1>0, <1>3, <1>4, <2>2 DEF SameInv
    <3>2. Difference' = change
      BY <1>1, <3>1 DEF Xor
    <3>3. PICK i \in Difference' : i < left'
      <4>1. PICK j \in change : j \in 0..7
        BY <1>1, <3>1
      <4>2. j < left'
        BY <1>1, <4>1
      <4> QED BY <3>2, <4>2
    <3>4. 8 * (Fed' - first + 1) <= Width
      BY <1>1, <1>2, <3>1
    <3>5. Alive(8 * (Fed - first + 1) - left)'
      BY <3>3 DEF Alive
    <3> QED BY <3>4, <3>5
  <2>3. CASE Damage # {}
    <3>1. PICK f \in Damage, l \in Damage : Ends(f, l)
      BY <1>0, <2>3 DEF EndsInv
    <3>2. f \in 1..Fed /\ l \in 1..Fed /\ f \in Damage' /\ l \in Damage'
          /\ \A k \in Damage : f <= k /\ k <= l
      BY <1>1, <1>2, <3>1 DEF Ends
    <3>3. first \in Damage
      BY <1>2, <1>3, <1>4, <2>1, <3>2
    <3>4. first = f
      BY <2>1, <3>2, <3>3
    <3>5. 8 * (l - first + 1) <= Width
      BY <1>2, <2>1, <3>2
    <3>6. IF 8 * (Fed - first + 1) <= Width THEN Alive(8 * (Fed - first + 1) - left)
          ELSE Difference # {}
      BY <1>0, <3>1, <3>4, <3>5 DEF BurstInv
    <3>7. CASE 8 * (Fed' - first + 1) <= Width
      <4>1. 8 * (Fed - first + 1) <= Width /\ 8 * (Fed - first + 1) + 8 <= Width
        BY <1>1, <1>2, <2>1, <3>7
      <4>2. PICK i \in Difference : i < left \/ i + (8 * (Fed - first + 1) - left) >= Width
        BY <3>6, <4>1 DEF Alive
      <4>3. i \in 0..TOP /\ i >= 8 /\ i + 8 * (Fed - first + 1) >= Width
        BY <1>1, <1>2, <2>1, <4>1, <4>2
      <4>4. i \in Difference'
        BY <1>1, <4>3, XorBits
      <4>5. i + (8 * (Fed' - first + 1) - left') >= Width
        BY <1>1, <1>2, <2>1, <4>3
      <4>6. Alive(8 * (Fed - first + 1) - left)'
        BY <4>4, <4>5 DEF Alive
      <4> QED BY <3>7, <4>6
    <3>8. CASE ~(8 * (Fed' - first + 1) <= Width)
      <4>1. Fed + 1 \notin Damage'
        <5> SUFFICES ASSUME Fed + 1 \in Damage' PROVE FALSE
          OBVIOUS
        <5>1. last = Fed + 1
          BY <1>2, <2>1
        <5> QED BY <1>1, <3>8, <5>1
      <4>2. Difference' = Difference
        BY <1>3, <1>4, <4>1
      <4>3. Difference # {}
        BY <3>6 DEF Alive
      <4> QED BY <3>8, <4>2, <4>3
    <3> QED BY <3>7, <3>8
  <2> QED BY <2>2, <2>3
<1> QED BY <1>1, <1>5, <1>6, <1>7 DEF CrcInv

\* A round takes every bit that says the registers differ one down or from
\* the bottom to the top.
LEMMA TurnInv ==
  ASSUME CrcInv, Turn
  PROVE  CrcInv'
<1>0. CrcTypeOK /\ SameInv /\ EndsInv /\ BurstInv
  BY DEF CrcInv
<1>1. /\ CrcTypeOK' /\ Fed' = Fed /\ Damage' = Damage
      /\ left > 0 /\ left' = left - 1
      /\ Difference' = Round(Difference)
  BY <1>0, TurnEffect
<1>2. /\ Fed \in Nat /\ Width \in Nat /\ Damage \subseteq 1..Fed /\ left \in 0..8
      /\ Difference \in Register /\ Difference \subseteq 0..TOP
      /\ TOP \in Nat /\ Width = TOP + 1
  BY <1>0, CrcTypes, PolyAssumption DEF Register
<1>3. /\ 0 \in Difference => TOP \in Difference'
      /\ 0 \notin Difference => \A i \in Difference : i - 1 \in Difference'
      /\ Difference = {} <=> Difference' = {}
  BY <1>1, <1>2, RoundKeeps
<1>4. SameInv' /\ EndsInv'
  BY <1>0, <1>1, <1>3 DEF SameInv, EndsInv, Ends
<1>5. BurstInv'
  <2> SUFFICES ASSUME NEW first \in Damage, NEW last \in Damage,
                      Ends(first, last), 8 * (last - first + 1) <= Width
               PROVE  IF 8 * (Fed - first + 1) <= Width
                      THEN Alive(8 * (Fed - first + 1) - left)'
                      ELSE Difference' # {}
    BY <1>1 DEF BurstInv, Ends
  <2>1. IF 8 * (Fed - first + 1) <= Width THEN Alive(8 * (Fed - first + 1) - left)
        ELSE Difference # {}
    BY <1>0 DEF BurstInv
  <2>2. CASE 8 * (Fed - first + 1) <= Width
    <3> DEFINE rounds == 8 * (Fed - first + 1)
    <3>1. rounds \in Nat /\ rounds >= 8
      BY <1>2
    <3>2. PICK i \in Difference : i < left \/ i + (rounds - left) >= Width
      BY <2>1, <2>2 DEF Alive
    <3> HIDE DEF rounds
    <3>3. \E j \in Difference' : j < left' \/ j + (rounds - left') >= Width
      <4>1. CASE 0 \in Difference
        <5>1. TOP + (rounds - left') >= Width
          BY <1>1, <1>2, <3>1
        <5> QED BY <1>3, <4>1, <5>1
      <4>2. CASE 0 \notin Difference
        <5>1. i \in 0..TOP
          BY <1>2
        <5>2. i - 1 < left' \/ (i - 1) + (rounds - left') >= Width
          BY <1>1, <1>2, <3>1, <3>2, <5>1
        <5> QED BY <1>3, <4>2, <5>2
      <4> QED BY <4>1, <4>2
    <3>4. Alive(8 * (Fed - first + 1) - left)'
      BY <1>1, <3>3 DEF Alive, rounds
    <3> QED BY <2>2, <3>4
  <2>3. CASE ~(8 * (Fed - first + 1) <= Width)
    BY <1>3, <2>1, <2>3
  <2> QED BY <2>2, <2>3
<1> QED BY <1>1, <1>4, <1>5 DEF CrcInv

LEMMA CrcNextInv == CrcInv /\ [CrcNext]_crcVars => CrcInv'
<1> SUFFICES ASSUME CrcInv, [CrcNext]_crcVars PROVE CrcInv'
  OBVIOUS
<1>1. ASSUME NEW byte \in [Messages -> Byte], Feed(byte) PROVE CrcInv'
  BY <1>1, FeedInv
<1>2. CASE Turn
  BY <1>2, TurnInv
<1>3. CASE UNCHANGED crcVars
  BY <1>3 DEF CrcInv, crcVars, CrcTypeOK, SameInv, EndsInv, BurstInv, Ends, Alive, Damage,
              Difference, Fed
<1> QED BY <1>1, <1>2, <1>3 DEF CrcNext

-----------------------------------------------------------------------------
(* The inductive invariant holds in every reachable state of crc32's loop. *)
THEOREM CrcInvariance == CrcSpec => []CrcInv
BY CrcInitInv, CrcNextInv, PTL DEF CrcSpec

(* The registers keep their width, the messages their common length.       *)
THEOREM CrcTypeCorrect == CrcSpec => []CrcTypeOK
<1>1. CrcInv => CrcTypeOK
  BY DEF CrcInv
<1> QED BY <1>1, CrcInvariance, PTL

(* crc32 tells two messages of equal length apart whenever they differ     *)
(* only within as many bytes as the register is wide, and gives the same   *)
(* checksum when they are equal: for every register, every polynomial with *)
(* its highest bit and every length.                                       *)
THEOREM DamageIsDetected == CrcSpec => []DamageDetected
<1>1. CrcInv => DamageDetected
  <2> SUFFICES ASSUME CrcInv, left = 0,
                      Damage # {} => 8 * (Max(Damage) - Min(Damage) + 1) <= Width
               PROVE  crc["meant"] = crc["found"] <=> Damage = {}
    BY DEF DamageDetected
  <2>1. CrcTypeOK /\ SameInv /\ EndsInv /\ BurstInv
    BY DEF CrcInv
  <2>2. crc["meant"] = crc["found"] <=> Difference = {}
    BY DEF Difference, Xor
  <2>3. CASE Damage = {}
    BY <2>1, <2>2, <2>3 DEF SameInv
  <2>4. CASE Damage # {}
    <3>1. PICK first \in Damage, last \in Damage : Ends(first, last)
      BY <2>1, <2>4 DEF EndsInv
    <3>2. Damage \subseteq Int
      BY <2>1, CrcTypes
    <3>3. Max(Damage) \in Damage /\ \A k \in Damage : Max(Damage) >= k
      BY <3>1 DEF Max, Ends
    <3>4. Min(Damage) \in Damage /\ \A k \in Damage : Min(Damage) <= k
      BY <3>1 DEF Min, Ends
    <3>5. Max(Damage) = last /\ Min(Damage) = first
      <4>1. \A a, b \in Int : a <= b /\ b <= a => a = b
        OBVIOUS
      <4>2. \A k \in Damage : first <= k /\ k <= last
        BY <3>1 DEF Ends
      <4>3. Max(Damage) \in Int /\ Min(Damage) \in Int /\ first \in Int /\ last \in Int
        BY <3>2, <3>3, <3>4
      <4>4. Max(Damage) <= last /\ last <= Max(Damage)
        BY <3>3, <4>2, <4>3
      <4>5. Min(Damage) <= first /\ first <= Min(Damage)
        BY <3>4, <4>2, <4>3
      <4> QED BY <4>1, <4>3, <4>4, <4>5
    <3>6. 8 * (last - first + 1) <= Width
      BY <2>4, <3>5
    <3>7. Difference # {}
      BY <2>1, <3>1, <3>6 DEF BurstInv, Alive
    <3> QED BY <2>2, <2>4, <3>7
  <2> QED BY <2>3, <2>4
<1> QED BY <1>1, CrcInvariance, PTL
-----------------------------------------------------------------------------
(***************************************************************************)
(* Polynomials over two elements as sets of exponents.                     *)
(***************************************************************************)
LEMMA Least ==
  ASSUME NEW T, T \subseteq Nat, T # {}
  PROVE  \E x \in T : \A y \in T : x <= y
<1>1. PICK x \in T : \A y \in T : ~(<<y, x>> \in OpToRel(<, Nat))
  BY NatLessThanWellFounded, WFMin
<1>2. \A y \in T : ~(y < x)
  BY <1>1 DEF OpToRel
<1> QED BY <1>2

\* Induction in the direction in which long division goes: a set that holds n
\* and with every exponent above m the one below it.
LEMMA Downwards ==
  ASSUME NEW m \in Nat, NEW n \in Nat, NEW S,
         n \in S, \A d \in m..(n - 1) : d + 1 \in S => d \in S
  PROVE  m..n \subseteq S
<1> DEFINE T == {j \in Nat : n - j >= m /\ n - j \notin S}
<1> SUFFICES ASSUME NEW x \in m..n, x \notin S PROVE FALSE
  OBVIOUS
<1>1. n - x \in T
  <2>1. n - x \in Nat /\ n - (n - x) = x /\ x >= m
    OBVIOUS
  <2> QED BY <2>1
<1>2. PICK j \in T : \A y \in T : j <= y
  <2>1. T \subseteq Nat /\ T # {}
    BY <1>1
  <2> HIDE DEF T
  <2> QED BY <2>1, Least
<1>3. j \in Nat /\ n - j >= m /\ n - j \notin S
  BY <1>2
<1>4. j # 0
  <2>1. n - 0 = n
    OBVIOUS
  <2> QED BY <1>3, <2>1
<1>5. /\ j - 1 \in Nat /\ ~(j <= j - 1) /\ n - (j - 1) = (n - j) + 1
      /\ n - (j - 1) >= m /\ n - j \in m..(n - 1)
  BY <1>3, <1>4
<1>6. n - (j - 1) \in S
  BY <1>2, <1>5
<1> QED BY <1>3, <1>5, <1>6

LEMMA WidthFacts ==
  /\ TOP \in Nat /\ Width \in Nat /\ Width = TOP + 1
  /\ Divisor \subseteq 0..Width /\ Width \in Divisor
  /\ \A e \in 0..TOP : e \in Divisor <=> TOP - e \in POLY
<1>1. TOP \in Nat /\ Width = TOP + 1 /\ Width \in Nat /\ POLY \subseteq 0..TOP
  BY PolyAssumption DEF Width
<1>2. {TOP - i : i \in POLY} \subseteq 0..TOP /\ 0..TOP \subseteq 0..Width
      /\ Width \in 0..Width /\ Width \notin 0..TOP
  BY <1>1
<1>3. Divisor \subseteq 0..Width /\ Width \in Divisor
  BY <1>2 DEF Divisor
<1>4. ASSUME NEW e \in 0..TOP PROVE e \in Divisor <=> TOP - e \in POLY
  <2>1. ASSUME e \in Divisor PROVE TOP - e \in POLY
    <3>1. PICK i \in POLY : e = TOP - i
      BY <1>2, <2>1 DEF Divisor
    <3>2. TOP - e = i
      BY <1>1, <3>1
    <3> QED BY <3>1, <3>2
  <2>2. ASSUME TOP - e \in POLY PROVE e \in Divisor
    <3>1. TOP - (TOP - e) = e
      BY <1>1
    <3> QED BY <2>2, <3>1 DEF Divisor
  <2> QED BY <2>1, <2>2
<1> QED BY <1>1, <1>3, <1>4

LEMMA TimesBits ==
  ASSUME NEW a \in SUBSET Nat, NEW n \in Nat
  PROVE  /\ Times(a, n) \in SUBSET Nat
         /\ \A x \in Nat : x \in Times(a, n) <=> x - n \in a
<1>1. Times(a, n) \in SUBSET Nat
  BY DEF Times
<1>2. ASSUME NEW x \in Nat, x \in Times(a, n) PROVE x - n \in a
  <2>1. PICK e \in a : x = e + n
    BY <1>2 DEF Times
  <2>2. e \in Nat /\ x - n = e
    BY <2>1
  <2> QED BY <2>1, <2>2
<1>3. ASSUME NEW x \in Nat, x - n \in a PROVE x \in Times(a, n)
  <2>1. (x - n) + n = x
    OBVIOUS
  <2> QED BY <1>3, <2>1 DEF Times
<1> QED BY <1>1, <1>2, <1>3

LEMMA TimesUpto ==
  ASSUME NEW t \in Nat, NEW a \in SUBSET (0..t), NEW n \in Nat
  PROVE  Times(a, n) \in SUBSET (0..(t + n))
BY DEF Times

LEMMA TimesZero ==
  ASSUME NEW a \in SUBSET Nat
  PROVE  Times(a, 0) = a
<1>1. Times(a, 0) \in SUBSET Nat /\ \A x \in Nat : x \in Times(a, 0) <=> x - 0 \in a
  BY TimesBits
<1>2. \A x \in Nat : x - 0 = x
  OBVIOUS
<1> QED BY <1>1, <1>2

LEMMA TimesTimes ==
  ASSUME NEW a \in SUBSET Nat, NEW m \in Nat, NEW n \in Nat
  PROVE  Times(Times(a, m), n) = Times(a, m + n)
<1>0. m + n \in Nat
  OBVIOUS
<1>1. Times(a, m) \in SUBSET Nat
  BY TimesBits
<1>3. Times(Times(a, m), n) \in SUBSET Nat /\ Times(a, m + n) \in SUBSET Nat
  BY <1>0, <1>1, TimesBits
<1>2. ASSUME NEW x \in Nat PROVE x \in Times(Times(a, m), n) <=> x \in Times(a, m + n)
  <2>1. x \in Times(Times(a, m), n) <=> x - n \in Times(a, m)
    BY <1>1, TimesBits
  <2>2. x \in Times(a, m + n) <=> x - (m + n) \in a
    BY <1>0, TimesBits
  <2>3. x - n \in Times(a, m) <=> x - (m + n) \in a
    <3>1. CASE x - n \in Nat
      <4>1. (x - n) - m = x - (m + n)
        OBVIOUS
      <4> QED BY <3>1, <4>1, TimesBits
    <3>2. CASE x - n \notin Nat
      <4>1. x - (m + n) \notin Nat
        BY <3>2
      <4> QED BY <1>1, <3>2, <4>1
    <3> QED BY <3>1, <3>2
  <2> QED BY <2>1, <2>2, <2>3
<1> QED BY <1>2, <1>3

LEMMA TimesXor ==
  ASSUME NEW a \in SUBSET Nat, NEW b \in SUBSET Nat, NEW n \in Nat
  PROVE  Times(Xor(a, b), n) = Xor(Times(a, n), Times(b, n))
<1>1. Xor(a, b) \in SUBSET Nat
  BY DEF Xor
<1>2. /\ Times(a, n) \in SUBSET Nat /\ Times(b, n) \in SUBSET Nat
      /\ Times(Xor(a, b), n) \in SUBSET Nat
  BY <1>1, TimesBits
<1>3. Xor(Times(a, n), Times(b, n)) \in SUBSET Nat
  BY <1>2 DEF Xor
<1>4. ASSUME NEW x \in Nat
      PROVE  x \in Times(Xor(a, b), n) <=> x \in Xor(Times(a, n), Times(b, n))
  <2>1. /\ x \in Times(a, n) <=> x - n \in a
        /\ x \in Times(b, n) <=> x - n \in b
        /\ x \in Times(Xor(a, b), n) <=> x - n \in Xor(a, b)
    BY <1>1, TimesBits
  <2> QED BY <2>1, XorBits
<1> QED BY <1>2, <1>3, <1>4

LEMMA XorUpto ==
  ASSUME NEW n, NEW a \in SUBSET (0..n), NEW b \in SUBSET (0..n)
  PROVE  Xor(a, b) \in SUBSET (0..n)
BY DEF Xor

-----------------------------------------------------------------------------
(***************************************************************************)
(* Long division.                                                          *)
(***************************************************************************)
\* The function in the definition of Remainder, from the exponent n.
Divides(f, a, n) ==
  f = [d \in TOP..n |-> IF d = n THEN a ELSE Reduced(f[d + 1], d + 1)]

\* What is left of a when division has come down to d.
Rest(a, n, d) == (CHOOSE f : Divides(f, a, n))[d]

LEMMA DivisionExists ==
  ASSUME NEW a, NEW n \in Nat, n >= TOP
  PROVE  \E f : Divides(f, a, n)
<1> DEFINE Part(f, m) == f = [d \in m..n |-> IF d = n THEN a ELSE Reduced(f[d + 1], d + 1)]
           S == {m \in Nat : \E f : Part(f, m)}
<1>1. n \in S
  <2>1. Part([d \in n..n |-> a], n)
    OBVIOUS
  <2> HIDE DEF Part
  <2>2. \E f : Part(f, n)
    BY <2>1, Zenon
  <2> QED BY <2>2
<1>2. ASSUME NEW m \in TOP..(n - 1), m + 1 \in S PROVE m \in S
  <2>1. PICK f : Part(f, m + 1)
    BY <1>2
  <2>0. m \in Nat /\ m < n
    BY WidthFacts
  <2> DEFINE g == [d \in m..n |-> IF d = n THEN a ELSE Reduced(f[d + 1], d + 1)]
  <2>2. \A d \in m..n : d # n => d + 1 \in (m + 1)..n /\ d + 1 \in m..n
    BY <2>0
  <2>3. \A d \in (m + 1)..n : g[d] = f[d]
    <3>1. \A d \in (m + 1)..n : d \in m..n
      BY <2>0
    <3> QED BY <2>1, <3>1
  <2>4. Part(g, m)
    BY <2>2, <2>3
  <2> HIDE DEF Part, g
  <2>5. \E h : Part(h, m)
    BY <2>4, Zenon
  <2> QED BY <2>0, <2>5
<1>3. TOP \in TOP..n /\ TOP \in Nat
  BY WidthFacts
<1>4. TOP \in S
  <2> HIDE DEF S
  <2> QED BY <1>1, <1>2, <1>3, Downwards
<1>5. PICK f : Part(f, TOP)
  BY <1>4
<1>6. Divides(f, a, n)
  BY <1>5 DEF Divides
<1> QED BY <1>6, Zenon

LEMMA RestStep ==
  ASSUME NEW a, NEW n \in Nat, n >= TOP
  PROVE  /\ Rest(a, n, n) = a
         /\ \A d \in TOP..(n - 1) : Rest(a, n, d) = Reduced(Rest(a, n, d + 1), d + 1)
<1> DEFINE f == CHOOSE f : Divides(f, a, n)
<1>1. Divides(f, a, n)
  BY DivisionExists, Zenon
<1>2. \A d : Rest(a, n, d) = f[d]
  BY DEF Rest
<1> HIDE DEF f
<1>3. n \in TOP..n /\ \A d \in TOP..(n - 1) : d \in TOP..n /\ d # n
  BY WidthFacts
<1>4. \A d \in TOP..n : f[d] = IF d = n THEN a ELSE Reduced(f[d + 1], d + 1)
  BY <1>1 DEF Divides
<1> QED BY <1>2, <1>3, <1>4

LEMMA TopOf ==
  ASSUME NEW n \in Nat, n >= Width, NEW a \in SUBSET (0..n)
  PROVE  /\ Max(a \cup {Width}) \in Nat
         /\ Max(a \cup {Width}) >= Width /\ Max(a \cup {Width}) <= n
         /\ \A e \in a : e <= Max(a \cup {Width})
<1> DEFINE A == a \cup {Width}
           T == {j \in Nat : n - j \in A}
<1>1. A \subseteq 0..n /\ Width \in A
  BY WidthFacts
<1>2. PICK j \in T : \A y \in T : j <= y
  <2>1. n - Width \in Nat /\ n - (n - Width) = Width
    BY WidthFacts
  <2>2. T \subseteq Nat /\ T # {}
    BY <2>1, <1>1
  <2> HIDE DEF T
  <2> QED BY <2>2, Least
<1>3. n - j \in A /\ j \in Nat
  BY <1>2
<1> HIDE DEF A
<1>4. \A e \in A : n - j >= e
  <2> TAKE e \in A
  <2>1. e \in Nat /\ n - e \in Nat /\ n - (n - e) = e
    BY <1>1
  <2>2. j <= n - e
    BY <1>2, <2>1
  <2> QED BY <1>3, <2>1, <2>2
<1>5. Max(A) \in A /\ \A e \in A : Max(A) >= e
  BY <1>3, <1>4 DEF Max
<1>6. Max(A) \in Nat /\ Max(A) <= n
  <2>1. \A x \in 0..n : x \in Nat /\ x <= n
    OBVIOUS
  <2>2. Max(A) \in 0..n
    BY <1>1, <1>5, Zenon
  <2> QED BY <2>1, <2>2
<1>7. \A e \in A : e \in Nat /\ e <= Max(A)
  BY <1>1, <1>5, <1>6
<1> QED BY <1>1, <1>5, <1>6, <1>7 DEF A

\* It does not matter from which exponent division starts.
LEMMA RemainderRest ==
  ASSUME NEW n \in Nat, n >= Width, NEW a \in SUBSET (0..n)
  PROVE  Remainder(a) = Rest(a, n, TOP)
<1>2. Remainder(a) = Rest(a, Max(a \cup {Width}), TOP)
  BY DEF Remainder, Rest, Divides
<1> DEFINE top == Max(a \cup {Width})
<1>1. top \in Nat /\ top >= Width /\ top <= n /\ \A e \in a : e <= top
  BY TopOf
<1> HIDE DEF top
<1>0. top >= TOP /\ n >= TOP /\ TOP \in Nat
  BY <1>1, WidthFacts
<1>3. Rest(a, n, top) = a
  <2> DEFINE S == {d \in Nat : Rest(a, n, d) = a}
  <2>1. n \in S
    BY <1>0, RestStep
  <2>2. ASSUME NEW d \in top..(n - 1), d + 1 \in S PROVE d \in S
    <3>1. d \in Nat /\ d \in TOP..(n - 1) /\ d + 1 > top /\ ~(d + 1 <= top)
      BY <1>0, <1>1
    <3>2. Rest(a, n, d) = Reduced(a, d + 1)
      BY <1>0, <2>2, <3>1, RestStep
    <3>3. d + 1 \notin a
      BY <1>1, <3>1
    <3> QED BY <3>1, <3>2, <3>3 DEF Reduced
  <2>3. top \in top..n
    BY <1>1
  <2>4. top \in S
    <3> HIDE DEF S
    <3> QED BY <1>1, <2>1, <2>2, <2>3, Downwards
  <2> QED BY <2>4
<1>4. Rest(a, n, TOP) = Rest(a, top, TOP)
  <2> DEFINE S == {d \in Nat : Rest(a, n, d) = Rest(a, top, d)}
  <2>1. top \in S
    BY <1>0, <1>1, <1>3, RestStep
  <2>2. ASSUME NEW d \in TOP..(top - 1), d + 1 \in S PROVE d \in S
    <3>1. d \in Nat /\ d \in TOP..(n - 1)
      BY <1>0, <1>1
    <3>2. /\ Rest(a, n, d) = Reduced(Rest(a, n, d + 1), d + 1)
          /\ Rest(a, top, d) = Reduced(Rest(a, top, d + 1), d + 1)
      BY <1>0, <1>1, <3>1, RestStep
    <3> QED BY <2>2, <3>1, <3>2
  <2>3. TOP \in TOP..top
    BY <1>0, <1>1
  <2>4. TOP \in S
    <3> HIDE DEF S
    <3>1. TOP..top \subseteq S
      BY <1>0, <1>1, <2>1, <2>2, Downwards
    <3> QED BY <2>3, <3>1
  <2> QED BY <2>4
<1> QED BY <1>2, <1>4 DEF top
\* A step of division respects exclusive or, so division does.
LEMMA ReducedXor ==
  ASSUME NEW x, NEW y, NEW d
  PROVE  Reduced(Xor(x, y), d) = Xor(Reduced(x, d), Reduced(y, d))
<1> DEFINE t == Times(Divisor, d - Width)
<1> HIDE DEF t
<1>1. /\ Reduced(Xor(x, y), d) = IF d \in Xor(x, y) THEN Xor(Xor(x, y), t) ELSE Xor(x, y)
      /\ Reduced(x, d) = IF d \in x THEN Xor(x, t) ELSE x
      /\ Reduced(y, d) = IF d \in y THEN Xor(y, t) ELSE y
  BY DEF Reduced, t
<1>2. d \in Xor(x, y) <=> ~(d \in x <=> d \in y)
  BY XorBits
<1>3. /\ Xor(Xor(x, y), t) = Xor(Xor(x, t), y)
      /\ Xor(Xor(x, y), t) = Xor(x, Xor(y, t))
      /\ Xor(x, y) = Xor(Xor(x, t), Xor(y, t))
  BY DEF Xor
<1> QED BY <1>1, <1>2, <1>3

LEMMA RestXor ==
  ASSUME NEW a, NEW b, NEW n \in Nat, n >= TOP
  PROVE  Rest(Xor(a, b), n, TOP) = Xor(Rest(a, n, TOP), Rest(b, n, TOP))
<1> DEFINE S == {d \in Nat : Rest(Xor(a, b), n, d) = Xor(Rest(a, n, d), Rest(b, n, d))}
<1>1. n \in S
  BY RestStep
<1>2. ASSUME NEW d \in TOP..(n - 1), d + 1 \in S PROVE d \in S
  <2>1. d \in Nat
    BY WidthFacts
  <2>2. /\ Rest(Xor(a, b), n, d) = Reduced(Rest(Xor(a, b), n, d + 1), d + 1)
        /\ Rest(a, n, d) = Reduced(Rest(a, n, d + 1), d + 1)
        /\ Rest(b, n, d) = Reduced(Rest(b, n, d + 1), d + 1)
    BY RestStep
  <2>3. Rest(Xor(a, b), n, d + 1) = Xor(Rest(a, n, d + 1), Rest(b, n, d + 1))
    BY <1>2
  <2> QED BY <2>1, <2>2, <2>3, ReducedXor
<1>3. TOP \in TOP..n /\ TOP \in Nat
  BY WidthFacts
<1>4. TOP \in S
  <2> HIDE DEF S
  <2>1. TOP..n \subseteq S
    BY <1>1, <1>2, <1>3, Downwards
  <2> QED BY <1>3, <2>1
<1> QED BY <1>4

LEMMA RemainderXor ==
  ASSUME NEW n \in Nat, n >= Width, NEW a \in SUBSET (0..n), NEW b \in SUBSET (0..n)
  PROVE  Remainder(Xor(a, b)) = Xor(Remainder(a), Remainder(b))
<1>1. Xor(a, b) \in SUBSET (0..n)
  BY XorUpto
<1>2. n >= TOP
  BY WidthFacts
<1> QED BY <1>1, <1>2, RemainderRest, RestXor

LEMMA DivisorTimes ==
  ASSUME NEW k \in Nat
  PROVE  Times(Divisor, k) \in SUBSET (0..(Width + k)) /\ Width + k \in Times(Divisor, k)
<1>1. Divisor \in SUBSET (0..Width) /\ Width \in Nat /\ Width \in Divisor
  BY WidthFacts
<1>2. Times(Divisor, k) \in SUBSET (0..(Width + k))
  BY <1>1, TimesUpto
<1> QED BY <1>1, <1>2 DEF Times

\* Nothing is left of a multiple of the divisor.
LEMMA RemainderMultiple ==
  ASSUME NEW k \in Nat
  PROVE  Remainder(Times(Divisor, k)) = {}
<1> DEFINE n == Width + k
           a == Times(Divisor, k)
<1>1. n \in Nat /\ n >= Width /\ n > TOP /\ n >= TOP /\ TOP \in Nat /\ n - 1 \in Nat
      /\ n - 1 \in TOP..(n - 1) /\ (n - 1) + 1 = n /\ n - Width = k /\ TOP \in TOP..(n - 1)
  BY WidthFacts
<1>2. a \in SUBSET (0..n) /\ n \in a
  BY DivisorTimes
<1> DEFINE S == {d \in Nat : Rest(a, n, d) = {}}
<1>3. n - 1 \in S
  <2>1. Rest(a, n, n - 1) = Reduced(Rest(a, n, n), n)
    <3> HIDE DEF n, a
    <3>1. Rest(a, n, n - 1) = Reduced(Rest(a, n, (n - 1) + 1), (n - 1) + 1)
      BY <1>1, RestStep
    <3> QED BY <1>1, <3>1
  <2>2. Rest(a, n, n) = a
    <3> HIDE DEF n, a
    <3> QED BY <1>1, RestStep
  <2>3. Reduced(a, n) = Xor(a, a)
    BY <1>1, <1>2 DEF Reduced
  <2>4. Xor(a, a) = {}
    BY DEF Xor
  <2> QED BY <1>1, <2>1, <2>2, <2>3, <2>4
<1> HIDE DEF n, a
<1>4. ASSUME NEW d \in TOP..((n - 1) - 1), d + 1 \in S PROVE d \in S
  <2>1. d \in Nat /\ d \in TOP..(n - 1)
    BY <1>1
  <2>2. Rest(a, n, d) = Reduced(Rest(a, n, d + 1), d + 1)
    BY <1>1, <2>1, RestStep
  <2>3. Rest(a, n, d + 1) = {}
    BY <1>4
  <2> QED BY <2>1, <2>2, <2>3 DEF Reduced
<1>5. TOP \in S
  <2> HIDE DEF S
  <2>1. TOP..(n - 1) \subseteq S
    BY <1>1, <1>3, <1>4, Downwards
  <2> QED BY <1>1, <2>1
<1>6. Remainder(a) = Rest(a, n, TOP)
  BY <1>1, <1>2, RemainderRest
<1>7. Remainder(a) = {}
  BY <1>5, <1>6
<1> QED BY <1>7 DEF a

LEMMA XorEmpty == \A a : Xor(a, {}) = a
BY DEF Xor

\* A multiple of the divisor more or less.
LEMMA RemainderPlus ==
  ASSUME NEW n \in Nat, NEW a \in SUBSET (0..n), NEW k \in Nat
  PROVE  Remainder(Xor(a, Times(Divisor, k))) = Remainder(a)
<1> DEFINE m == n + Width + k
<1>1. m \in Nat /\ m >= Width /\ 0..n \subseteq 0..m /\ 0..(Width + k) \subseteq 0..m
  BY WidthFacts
<1>2. a \in SUBSET (0..m) /\ Times(Divisor, k) \in SUBSET (0..m)
  BY <1>1, DivisorTimes
<1> HIDE DEF m
<1>3. Remainder(Xor(a, Times(Divisor, k))) = Xor(Remainder(a), Remainder(Times(Divisor, k)))
  BY <1>1, <1>2, RemainderXor
<1> QED BY <1>3, RemainderMultiple, XorEmpty

LEMMA RemainderSmall ==
  ASSUME NEW a \in SUBSET (0..TOP)
  PROVE  Remainder(a) = a
<1>1. /\ Width \in Nat /\ Width >= TOP /\ Width >= Width /\ TOP \in TOP..(Width - 1)
      /\ TOP + 1 = Width /\ 0..TOP \subseteq 0..Width /\ Width \notin 0..TOP
  BY WidthFacts
<1>2. Remainder(a) = Rest(a, Width, TOP)
  BY <1>1, RemainderRest
<1>3. Rest(a, Width, TOP) = Reduced(Rest(a, Width, Width), Width)
  BY <1>1, RestStep
<1>4. Rest(a, Width, Width) = a
  BY <1>1, RestStep
<1> QED BY <1>1, <1>2, <1>3, <1>4 DEF Reduced

LEMMA RestUpto ==
  ASSUME NEW n \in Nat, n >= TOP, NEW a \in SUBSET (0..n)
  PROVE  \A d \in TOP..n : Rest(a, n, d) \in SUBSET (0..d)
<1> DEFINE S == {d \in Nat : Rest(a, n, d) \in SUBSET (0..d)}
<1>0. TOP \in Nat /\ Width \in Nat /\ Width = TOP + 1
  BY WidthFacts
<1>1. n \in S
  BY RestStep
<1>2. ASSUME NEW d \in TOP..(n - 1), d + 1 \in S PROVE d \in S
  <2> DEFINE rest == Rest(a, n, d + 1)
             k == (d + 1) - Width
  <2>1. d \in Nat /\ k \in Nat /\ Width + k = d + 1
    BY <1>0
  <2>2. Rest(a, n, d) = Reduced(rest, d + 1)
    BY RestStep
  <2>3. rest \subseteq 0..(d + 1)
    BY <1>2
  <2>4. Times(Divisor, k) \subseteq 0..(d + 1) /\ d + 1 \in Times(Divisor, k)
    <3> HIDE DEF k
    <3>1. Times(Divisor, k) \in SUBSET (0..(Width + k)) /\ Width + k \in Times(Divisor, k)
      BY <2>1, DivisorTimes
    <3> QED BY <2>1, <3>1
  <2>5. Reduced(rest, d + 1) = IF d + 1 \in rest THEN Xor(rest, Times(Divisor, k)) ELSE rest
    BY DEF Reduced
  <2> HIDE DEF rest, k
  <2>6. Reduced(rest, d + 1) \subseteq (0..(d + 1)) \ {d + 1}
    BY <2>3, <2>4, <2>5 DEF Xor
  <2>7. (0..(d + 1)) \ {d + 1} \subseteq 0..d
    BY <2>1
  <2> QED BY <2>1, <2>2, <2>6, <2>7
<1>3. TOP..n \subseteq S
  <2> HIDE DEF S
  <2> QED BY <1>0, <1>1, <1>2, Downwards
<1> QED BY <1>3

\* What is left of a multiple is left of the multiple of what is left.
LEMMA RemainderTimes ==
  ASSUME NEW n \in Nat, n >= Width, NEW a \in SUBSET (0..n), NEW k \in Nat
  PROVE  /\ Remainder(a) \in SUBSET (0..TOP)
         /\ Remainder(Times(a, k)) = Remainder(Times(Remainder(a), k))
<1>0. /\ TOP \in Nat /\ Width \in Nat /\ Width = TOP + 1 /\ n >= TOP
      /\ TOP \in TOP..n
  BY WidthFacts
<1>1. \A d \in TOP..n : Rest(a, n, d) \in SUBSET (0..d)
  BY <1>0, RestUpto
<1> DEFINE S == {d \in Nat : Remainder(Times(Rest(a, n, d), k)) = Remainder(Times(a, k))}
<1>2. n \in S
  BY <1>0, RestStep
<1>3. ASSUME NEW d \in TOP..(n - 1), d + 1 \in S PROVE d \in S
  <2> DEFINE rest == Rest(a, n, d + 1)
             j == (d + 1) - Width
  <2>1. d \in Nat /\ d + 1 \in Nat /\ d + 1 \in TOP..n /\ j \in Nat
    BY <1>0
  <2>2. rest \in SUBSET (0..(d + 1))
    BY <1>1, <2>1
  <2>3. Rest(a, n, d) = IF d + 1 \in rest THEN Xor(rest, Times(Divisor, j)) ELSE rest
    BY <1>0, RestStep DEF Reduced
  <2>4. Remainder(Times(rest, k)) = Remainder(Times(a, k))
    BY <1>3
  <2> HIDE DEF rest, j
  <2>5. CASE d + 1 \notin rest
    BY <2>1, <2>3, <2>4, <2>5
  <2>6. CASE d + 1 \in rest
    <3>1. rest \in SUBSET Nat /\ Divisor \in SUBSET Nat
      BY <2>2, WidthFacts
    <3>2. Times(Divisor, j) \in SUBSET Nat
      BY <2>1, <3>1, TimesBits
    <3>3. Times(Xor(rest, Times(Divisor, j)), k) = Xor(Times(rest, k), Times(Times(Divisor, j), k))
      BY <3>1, <3>2, TimesXor, Zenon
    <3>4. Times(Times(Divisor, j), k) = Times(Divisor, j + k)
      BY <2>1, <3>1, TimesTimes, Zenon
    <3>5. Times(rest, k) \in SUBSET (0..((d + 1) + k))
      BY <2>1, <2>2, TimesUpto, Zenon
    <3>7. j + k \in Nat /\ (d + 1) + k \in Nat
      BY <2>1
    <3>6. Remainder(Xor(Times(rest, k), Times(Divisor, j + k))) = Remainder(Times(rest, k))
      BY <3>5, <3>7, RemainderPlus, Zenon
    <3> QED BY <2>1, <2>3, <2>4, <2>6, <3>3, <3>4, <3>6
  <2> QED BY <2>5, <2>6
<1>4. TOP \in S
  <2> HIDE DEF S
  <2>1. TOP..n \subseteq S
    BY <1>0, <1>2, <1>3, Downwards
  <2> QED BY <1>0, <2>1
<1>5. Remainder(a) = Rest(a, n, TOP)
  BY RemainderRest
<1> QED BY <1>0, <1>1, <1>4, <1>5
-----------------------------------------------------------------------------
(***************************************************************************)
(* The register as a polynomial: its lowest bit is the highest exponent.   *)
(***************************************************************************)
Poly(r) == {TOP - i : i \in r}

LEMMA PolyBits ==
  ASSUME NEW r \in Register
  PROVE  /\ Poly(r) \in SUBSET (0..TOP)
         /\ \A e \in 0..TOP : e \in Poly(r) <=> TOP - e \in r
<1>1. r \subseteq 0..TOP /\ TOP \in Nat
  BY WidthFacts DEF Register
<1>2. Poly(r) \in SUBSET (0..TOP)
  BY <1>1 DEF Poly
<1>3. ASSUME NEW e \in 0..TOP, e \in Poly(r) PROVE TOP - e \in r
  <2>1. PICK i \in r : e = TOP - i
    BY <1>3 DEF Poly
  <2>2. TOP - e = i
    BY <1>1, <2>1
  <2> QED BY <2>1, <2>2
<1>4. ASSUME NEW e \in 0..TOP, TOP - e \in r PROVE e \in Poly(r)
  <2>1. TOP - (TOP - e) = e
    BY <1>1
  <2> QED BY <1>4, <2>1 DEF Poly
<1> QED BY <1>2, <1>3, <1>4

LEMMA PolyXor ==
  ASSUME NEW a \in Register, NEW b \in Register
  PROVE  Poly(Xor(a, b)) = Xor(Poly(a), Poly(b))
<1>1. Xor(a, b) \in Register
  BY XorType
<1>2. /\ Poly(a) \in SUBSET (0..TOP) /\ Poly(b) \in SUBSET (0..TOP)
      /\ Poly(Xor(a, b)) \in SUBSET (0..TOP)
  BY <1>1, PolyBits
<1>3. Xor(Poly(a), Poly(b)) \in SUBSET (0..TOP)
  BY <1>2, XorUpto
<1>4. ASSUME NEW e \in 0..TOP PROVE e \in Poly(Xor(a, b)) <=> e \in Xor(Poly(a), Poly(b))
  <2>1. /\ e \in Poly(a) <=> TOP - e \in a
        /\ e \in Poly(b) <=> TOP - e \in b
        /\ e \in Poly(Xor(a, b)) <=> TOP - e \in Xor(a, b)
    BY <1>1, PolyBits
  <2> QED BY <2>1, XorBits
<1> QED BY <1>2, <1>3, <1>4

\* A round multiplies by the indeterminate and takes the divisor away if the
\* product is too high.
LEMMA RoundPoly ==
  ASSUME NEW r \in Register
  PROVE  Times(Poly(r), 1)
           = IF 0 \in r THEN Xor(Poly(Round(r)), Divisor) ELSE Poly(Round(r))
<1> DEFINE result == IF 0 \in r THEN Xor(Poly(Round(r)), Divisor) ELSE Poly(Round(r))
<1>1. /\ TOP \in Nat /\ Width \in Nat /\ Width = TOP + 1 /\ 0..TOP \subseteq 0..Width
      /\ r \subseteq 0..TOP
  BY WidthFacts DEF Register
<1>2. /\ Round(r) \in Register
      /\ \A j \in 0..TOP : j \in Round(r) <=> ~(j + 1 \in r <=> (0 \in r /\ j \in POLY))
  BY RoundBits
<1>3. Poly(r) \in SUBSET (0..TOP) /\ Poly(Round(r)) \in SUBSET (0..TOP)
  BY <1>2, PolyBits
<1>4. Times(Poly(r), 1) \in SUBSET (0..Width)
  <2>1. Times(Poly(r), 1) \in SUBSET (0..(TOP + 1))
    BY <1>1, <1>3, TimesUpto
  <2> QED BY <1>1, <2>1
<1>5. result \in SUBSET (0..Width)
  <2>1. Poly(Round(r)) \in SUBSET (0..Width) /\ Divisor \in SUBSET (0..Width)
    BY <1>1, <1>3, WidthFacts
  <2> QED BY <2>1, XorUpto
<1>6. ASSUME NEW e \in 0..Width PROVE e \in Times(Poly(r), 1) <=> e - 1 \in Poly(r)
  <2>1. Poly(r) \in SUBSET Nat /\ e \in Nat /\ 1 \in Nat
    BY <1>1, <1>3
  <2> QED BY <2>1, TimesBits
<1>7. ASSUME NEW e \in 0..TOP PROVE e \in Times(Poly(r), 1) <=> e \in result
  <2>1. TOP - e \in 0..TOP /\ e \in 0..Width
    BY <1>1
  <2>2. e \in Times(Poly(r), 1) <=> (TOP - e) + 1 \in r
    <3>1. CASE e = 0
      <4>1. e - 1 \notin Poly(r) /\ (TOP - e) + 1 \notin r
        BY <1>1, <1>3, <3>1
      <4> QED BY <1>6, <2>1, <4>1
    <3>2. CASE e # 0
      <4>1. e - 1 \in 0..TOP /\ TOP - (e - 1) = (TOP - e) + 1
        BY <1>1, <3>2
      <4>2. e - 1 \in Poly(r) <=> TOP - (e - 1) \in r
        BY <4>1, PolyBits
      <4> QED BY <1>6, <2>1, <4>1, <4>2
    <3> QED BY <3>1, <3>2
  <2>3. e \in Poly(Round(r)) <=> ~((TOP - e) + 1 \in r <=> (0 \in r /\ TOP - e \in POLY))
    BY <1>2, <2>1, PolyBits
  <2>4. e \in Divisor <=> TOP - e \in POLY
    BY WidthFacts
  <2>5. e \in Xor(Poly(Round(r)), Divisor) <=> ~(e \in Poly(Round(r)) <=> e \in Divisor)
    BY XorBits
  <2> QED BY <2>2, <2>3, <2>4, <2>5
<1>8. Width \in Times(Poly(r), 1) <=> Width \in result
  <2>1. Width - 1 = TOP /\ TOP \in 0..TOP /\ TOP - TOP = 0 /\ Width \in 0..Width /\ Width \notin 0..TOP
    BY <1>1
  <2>2. Width \in Times(Poly(r), 1) <=> 0 \in r
    BY <1>6, <2>1, PolyBits
  <2>3. Width \notin Poly(Round(r)) /\ Width \in Divisor
    BY <1>3, <2>1, WidthFacts
  <2>4. Width \in Xor(Poly(Round(r)), Divisor)
    BY <2>3, XorBits
  <2> QED BY <2>2, <2>3, <2>4
<1> HIDE DEF result
<1>9. \A e \in 0..Width : e \in 0..TOP \/ e = Width
  BY <1>1
<1>10. \A e \in 0..Width : e \in Times(Poly(r), 1) <=> e \in result
  BY <1>7, <1>8, <1>9
<1>11. Times(Poly(r), 1) = result
  BY <1>4, <1>5, <1>10
<1> QED BY <1>11 DEF result

LEMMA RoundRemainder ==
  ASSUME NEW r \in Register, NEW k \in Nat
  PROVE  Remainder(Times(Poly(Round(r)), k)) = Remainder(Times(Poly(r), k + 1))
<1> DEFINE q == Poly(Round(r))
<1>1. /\ TOP \in Nat /\ Round(r) \in Register /\ q \in SUBSET (0..TOP)
      /\ Poly(r) \in SUBSET (0..TOP)
  BY WidthFacts, RoundBits, PolyBits
<1>2. Poly(r) \in SUBSET Nat /\ q \in SUBSET Nat /\ Divisor \in SUBSET Nat
  BY <1>1, WidthFacts
<1>3. Times(Poly(r), 1) = IF 0 \in r THEN Xor(q, Divisor) ELSE q
  BY RoundPoly
<1> HIDE DEF q
<1>4. Times(Poly(r), k + 1) = Times(Times(Poly(r), 1), k)
  <2>1. Times(Times(Poly(r), 1), k) = Times(Poly(r), 1 + k)
    BY <1>2, TimesTimes
  <2>2. 1 + k = k + 1
    OBVIOUS
  <2> QED BY <2>1, <2>2
<1>5. CASE 0 \notin r
  BY <1>3, <1>4, <1>5 DEF q
<1>6. CASE 0 \in r
  <2>1. Times(Poly(r), k + 1) = Xor(Times(q, k), Times(Divisor, k))
    BY <1>2, <1>3, <1>4, <1>6, TimesXor
  <2>2. Times(q, k) \in SUBSET (0..(TOP + k)) /\ TOP + k \in Nat
    BY <1>1, TimesUpto
  <2>3. Remainder(Xor(Times(q, k), Times(Divisor, k))) = Remainder(Times(q, k))
    BY <2>2, RemainderPlus
  <2> QED BY <2>1, <2>3 DEF q
<1> QED BY <1>5, <1>6
-----------------------------------------------------------------------------
(***************************************************************************)
(* The message as a polynomial.                                            *)
(***************************************************************************)
\* The bits of byte k.
ByteOf(bytes, k) == {8 * Len(bytes) - 8 * k + 7 - i + Width : i \in bytes[k]}

Message(bytes) == UNION {ByteOf(bytes, k) : k \in 1..Len(bytes)}

LEMMA DividendDef ==
  ASSUME NEW bytes
  PROVE  Dividend(bytes) = Xor(Message(bytes), Times(0..TOP, 8 * Len(bytes)))
BY DEF Dividend, Message, ByteOf

LEMMA ByteBits ==
  ASSUME NEW bytes \in Seq(Byte), NEW k \in 1..Len(bytes)
  PROVE  /\ bytes[k] \in SUBSET (0..7)
         /\ ByteOf(bytes, k) \in SUBSET (Width..(Width + 8 * Len(bytes)))
<1>1. bytes[k] \in SUBSET (0..7)
  BY ElementOfSeq, ByteAssumption
<1>2. Len(bytes) \in Nat /\ Width \in Nat
  BY LenProperties, WidthFacts
<1>3. \A i \in 0..7 : 8 * Len(bytes) - 8 * k + 7 - i + Width \in Width..(Width + 8 * Len(bytes))
  BY <1>2
<1> QED BY <1>1, <1>3 DEF ByteOf

LEMMA MessageUpto ==
  ASSUME NEW bytes \in Seq(Byte)
  PROVE  Message(bytes) \in SUBSET (Width..(Width + 8 * Len(bytes)))
BY ByteBits DEF Message

LEMMA DividendUpto ==
  ASSUME NEW bytes \in Seq(Byte)
  PROVE  /\ Width + 8 * Len(bytes) \in Nat /\ Width + 8 * Len(bytes) >= Width
         /\ Message(bytes) \in SUBSET (0..(Width + 8 * Len(bytes)))
         /\ Dividend(bytes) \in SUBSET (0..(Width + 8 * Len(bytes)))
<1>1. Len(bytes) \in Nat /\ Width \in Nat /\ TOP \in Nat /\ Width = TOP + 1
  BY LenProperties, WidthFacts
<1>2. 8 * Len(bytes) \in Nat /\ Width + 8 * Len(bytes) \in Nat
      /\ Width + 8 * Len(bytes) >= Width
  BY <1>1
<1>3. /\ Width..(Width + 8 * Len(bytes)) \subseteq 0..(Width + 8 * Len(bytes))
      /\ 0..(TOP + 8 * Len(bytes)) \subseteq 0..(Width + 8 * Len(bytes))
  BY <1>1, <1>2
<1>4. Message(bytes) \in SUBSET (0..(Width + 8 * Len(bytes)))
  BY <1>3, MessageUpto
<1>5. Times(0..TOP, 8 * Len(bytes)) \in SUBSET (0..(Width + 8 * Len(bytes)))
  <2>1. 0..TOP \in SUBSET (0..TOP)
    OBVIOUS
  <2>2. Times(0..TOP, 8 * Len(bytes)) \in SUBSET (0..(TOP + 8 * Len(bytes)))
    BY <1>1, <1>2, <2>1, TimesUpto, Zenon
  <2> QED BY <1>3, <2>2
<1>6. Dividend(bytes) \in SUBSET (0..(Width + 8 * Len(bytes)))
  BY <1>4, <1>5, DividendDef, XorUpto
<1> QED BY <1>2, <1>4, <1>6

\* A byte more moves the message up by eight and fills the gap.
LEMMA MessageAppend ==
  ASSUME NEW s \in Seq(Byte), NEW b \in Byte
  PROVE  Message(Append(s, b)) = Xor(Times(Message(s), 8), Times(Poly(b), 8))
<1> DEFINE t == Append(s, b)
           k == Len(s)
<1>1. /\ t \in Seq(Byte) /\ k \in Nat /\ Len(t) = k + 1 /\ t[k + 1] = b
      /\ \A i \in 1..k : t[i] = s[i]
  BY AppendProperties, LenProperties
<1>2. TOP \in Nat /\ Width = TOP + 1 /\ TOP >= 7 /\ Width \in Nat /\ b \subseteq 0..7
  BY WidthFacts, PolyAssumption, ByteAssumption
<1> HIDE DEF t, k
<1>3. ASSUME NEW j \in 1..k PROVE ByteOf(t, j) = Times(ByteOf(s, j), 8)
  <2>1. /\ ByteOf(t, j) = {8 * (k + 1) - 8 * j + 7 - i + Width : i \in s[j]}
        /\ ByteOf(s, j) = {8 * k - 8 * j + 7 - i + Width : i \in s[j]}
    BY <1>1 DEF ByteOf, k
  <2>2. s[j] \in SUBSET (0..7)
    BY ByteBits DEF k
  <2>3. \A i \in 0..7 : 8 * (k + 1) - 8 * j + 7 - i + Width
                          = (8 * k - 8 * j + 7 - i + Width) + 8
    BY <1>1, <1>2
  <2> QED BY <2>1, <2>2, <2>3 DEF Times
<1>4. ByteOf(t, k + 1) = Times(Poly(b), 8)
  <2>1. ByteOf(t, k + 1) = {8 * (k + 1) - 8 * (k + 1) + 7 - i + Width : i \in b}
    BY <1>1 DEF ByteOf
  <2>2. \A i \in 0..7 : 8 * (k + 1) - 8 * (k + 1) + 7 - i + Width = (TOP - i) + 8
    BY <1>1, <1>2
  <2>3. Times(Poly(b), 8) = {(TOP - i) + 8 : i \in b}
    BY DEF Times, Poly
  <2>4. \A i \in b : 8 * (k + 1) - 8 * (k + 1) + 7 - i + Width = (TOP - i) + 8
    BY <1>2, <2>2
  <2> QED BY ONLY <2>1, <2>3, <2>4
<1>5. Message(t) = Times(Message(s), 8) \cup Times(Poly(b), 8)
  <2>1. Message(t) = UNION {ByteOf(t, j) : j \in 1..(k + 1)}
    BY <1>1 DEF Message
  <2>2. \A x : x \in Message(t) <=> \E j \in 1..(k + 1) : x \in ByteOf(t, j)
    BY <2>1
  <2>3. \A x : x \in Message(s) <=> \E j \in 1..k : x \in ByteOf(s, j)
    BY DEF Message, k
  <2>4. \A j \in 1..(k + 1) : j \in 1..k \/ j = k + 1
    BY <1>1
  <2>5. 1..k \subseteq 1..(k + 1) /\ k + 1 \in 1..(k + 1)
    BY <1>1
  <2>6. \A x : x \in Times(Message(s), 8) <=> \E j \in 1..k : x \in Times(ByteOf(s, j), 8)
    BY <2>3 DEF Times
  <2>7. \A x : x \in Message(t) <=> x \in Times(Message(s), 8) \/ x \in Times(Poly(b), 8)
    BY <1>3, <1>4, <2>2, <2>4, <2>5, <2>6
  <2> QED BY <2>7
<1>6. Times(Message(s), 8) \cap Times(Poly(b), 8) = {}
  <2>1. ASSUME NEW x \in Message(s) PROVE x \in Nat /\ x >= Width
    <3>1. x \in Width..(Width + 8 * Len(s))
      BY MessageUpto
    <3> QED BY <1>2, <3>1
  <2>2. ASSUME NEW x \in Poly(b) PROVE x \in Nat /\ x < Width
    BY <1>2 DEF Poly
  <2>3. \A x \in Message(s), y \in Poly(b) : x + 8 # y + 8
    BY <1>2, <2>1, <2>2
  <2> QED BY <2>3 DEF Times
<1>7. \A a, c : a \cap c = {} => a \cup c = Xor(a, c)
  BY DEF Xor
<1> QED BY <1>5, <1>6, <1>7 DEF t

LEMMA DividendAppend ==
  ASSUME NEW s \in Seq(Byte), NEW b \in Byte
  PROVE  Dividend(Append(s, b)) = Xor(Times(Dividend(s), 8), Times(Poly(b), 8))
<1> DEFINE n == 8 * Len(s)
           ones == Times(0..TOP, n)
<1>1. /\ Len(s) \in Nat /\ n \in Nat /\ 8 * Len(Append(s, b)) = n + 8 /\ 8 \in Nat
  BY AppendProperties, LenProperties
<1>2. 0..TOP \in SUBSET Nat /\ Message(s) \in SUBSET Nat
  BY DividendUpto
<1>3. /\ Dividend(Append(s, b)) = Xor(Message(Append(s, b)), Times(0..TOP, n + 8))
      /\ Dividend(s) = Xor(Message(s), ones)
  BY <1>1, DividendDef
<1> HIDE DEF n
<1>4. ones \in SUBSET Nat
  BY <1>1, <1>2, TimesBits
<1>5. Times(0..TOP, n + 8) = Times(ones, 8)
  BY <1>1, <1>2, TimesTimes, Zenon
<1> HIDE DEF ones
<1>6. Times(Dividend(s), 8) = Xor(Times(Message(s), 8), Times(ones, 8))
  <2>1. Times(Xor(Message(s), ones), 8) = Xor(Times(Message(s), 8), Times(ones, 8))
    BY <1>1, <1>2, <1>4, TimesXor, Zenon
  <2> QED BY <1>3, <2>1, Zenon
<1>7. Message(Append(s, b)) = Xor(Times(Message(s), 8), Times(Poly(b), 8))
  BY MessageAppend
<1>8. \A x, y, z : Xor(Xor(x, y), z) = Xor(Xor(x, z), y)
  BY DEF Xor
<1>9. Dividend(Append(s, b))
        = Xor(Xor(Times(Message(s), 8), Times(Poly(b), 8)), Times(ones, 8))
  BY <1>3, <1>5, <1>7, Zenon
<1>10. Dividend(Append(s, b))
         = Xor(Xor(Times(Message(s), 8), Times(ones, 8)), Times(Poly(b), 8))
  BY <1>8, <1>9
<1> QED BY <1>6, <1>10, Zenon

-----------------------------------------------------------------------------
(***************************************************************************)
(* The loop.  With rounds left, the register still has to be moved up by   *)
(* as many exponents; then it and the message leave the same remainder.    *)
(***************************************************************************)
RemainderInv ==
  \A m \in Messages :
    Remainder(Times(Poly(crc[m]), left)) = Remainder(Dividend(data[m]))

LEMMA RemainderInit == CrcInit => RemainderInv
<1> SUFFICES ASSUME CrcInit, NEW m \in Messages
             PROVE  Remainder(Times(Poly(crc[m]), left)) = Remainder(Dividend(data[m]))
  BY DEF RemainderInv
<1>1. crc[m] = 0..TOP /\ data[m] = <<>> /\ left = 0
  BY DEF CrcInit
<1>2. TOP \in Nat /\ 0..TOP \in Register /\ 0..TOP \in SUBSET Nat
  BY WidthFacts DEF Register
<1>3. Poly(0..TOP) = 0..TOP
  <2>1. /\ Poly(0..TOP) \in SUBSET (0..TOP)
        /\ \A e \in 0..TOP : e \in Poly(0..TOP) <=> TOP - e \in 0..TOP
    BY <1>2, PolyBits
  <2>2. \A e \in 0..TOP : TOP - e \in 0..TOP
    BY <1>2
  <2> QED BY <2>1, <2>2
<1>4. Dividend(<<>>) = Times(0..TOP, 0)
  <2>1. Len(<<>>) = 0 /\ 8 * 0 = 0 /\ 1..0 = {}
    OBVIOUS
  <2>2. Message(<<>>) = {}
    BY <2>1 DEF Message
  <2>3. Dividend(<<>>) = Xor({}, Times(0..TOP, 0))
    BY <2>1, <2>2, DividendDef
  <2> QED BY <2>3 DEF Xor
<1> QED BY <1>1, <1>3, <1>4

LEMMA RemainderFeed ==
  ASSUME CrcTypeOK, RemainderInv, NEW byte \in [Messages -> Byte], Feed(byte)
  PROVE  RemainderInv'
<1> SUFFICES ASSUME NEW m \in Messages
             PROVE  Remainder(Times(Poly(crc'[m]), left')) = Remainder(Dividend(data'[m]))
  BY DEF RemainderInv
<1>1. /\ crc'[m] = Xor(crc[m], byte[m]) /\ data'[m] = Append(data[m], byte[m])
      /\ left = 0 /\ left' = 8
  BY DEF Feed
<1>2. /\ crc[m] \in Register /\ data[m] \in Seq(Byte) /\ byte[m] \in Byte
      /\ TOP \in Nat /\ Width \in Nat /\ Width = TOP + 1
  BY WidthFacts DEF CrcTypeOK
<1>3. byte[m] \in Register
  <2>1. byte[m] \in SUBSET (0..7)
    BY <1>2, ByteAssumption
  <2>2. 0..7 \subseteq 0..TOP
    BY PolyAssumption
  <2> QED BY <2>1, <2>2 DEF Register
<1>4. PICK p, q, c : p = Poly(crc[m]) /\ q = Poly(byte[m]) /\ c = Dividend(data[m])
  OBVIOUS
<1>5. p \in SUBSET (0..TOP) /\ q \in SUBSET (0..TOP) /\ Poly(crc'[m]) = Xor(p, q)
  BY <1>1, <1>2, <1>3, <1>4, PolyBits, PolyXor
<1>6. p \in SUBSET Nat /\ q \in SUBSET Nat
  BY <1>2, <1>5
<1>7. PICK n \in Nat : n >= Width /\ c \in SUBSET (0..n) /\ 0..TOP \subseteq 0..n
  <2>1. /\ Width + 8 * Len(data[m]) \in Nat /\ Width + 8 * Len(data[m]) >= Width
        /\ c \in SUBSET (0..(Width + 8 * Len(data[m])))
    BY <1>2, <1>4, DividendUpto
  <2>2. 0..TOP \subseteq 0..(Width + 8 * Len(data[m]))
    <3>1. \A u \in Nat : u >= Width => 0..TOP \subseteq 0..u
      BY <1>2
    <3> QED BY <2>1, <3>1
  <2> QED BY <2>1, <2>2
<1>8. p \in SUBSET (0..n)
  BY <1>5, <1>7
<1>9. Remainder(p) = Remainder(c)
  <2>1. Remainder(Times(p, 0)) = Remainder(c)
    BY <1>1, <1>4 DEF RemainderInv
  <2> QED BY <1>6, <2>1, TimesZero
<1>10. Remainder(Times(p, 8)) = Remainder(Times(c, 8))
  <2>1. 8 \in Nat
    OBVIOUS
  <2>2. Remainder(Times(p, 8)) = Remainder(Times(Remainder(p), 8))
    BY <1>7, <1>8, <2>1, RemainderTimes
  <2>3. Remainder(Times(c, 8)) = Remainder(Times(Remainder(c), 8))
    BY <1>7, <2>1, RemainderTimes
  <2> QED BY <1>9, <2>2, <2>3
<1>11. Times(Xor(p, q), 8) = Xor(Times(p, 8), Times(q, 8))
  BY <1>6, TimesXor
<1>12. /\ Times(p, 8) \in SUBSET (0..(n + 8)) /\ Times(q, 8) \in SUBSET (0..(n + 8))
       /\ Times(c, 8) \in SUBSET (0..(n + 8)) /\ n + 8 \in Nat /\ n + 8 >= Width
  <2>1. q \in SUBSET (0..n)
    BY <1>5, <1>7
  <2>2. 8 \in Nat /\ n + 8 \in Nat /\ n + 8 >= Width
    BY <1>2, <1>7
  <2> QED BY <1>7, <1>8, <2>1, <2>2, TimesUpto
<1>13. /\ Remainder(Xor(Times(p, 8), Times(q, 8)))
            = Xor(Remainder(Times(p, 8)), Remainder(Times(q, 8)))
       /\ Remainder(Xor(Times(c, 8), Times(q, 8)))
            = Xor(Remainder(Times(c, 8)), Remainder(Times(q, 8)))
  BY <1>12, RemainderXor
<1>14. Dividend(data'[m]) = Xor(Times(c, 8), Times(q, 8))
  BY <1>1, <1>2, <1>4, DividendAppend
<1> QED BY <1>1, <1>5, <1>10, <1>11, <1>13, <1>14

LEMMA RemainderTurn ==
  ASSUME CrcTypeOK, RemainderInv, Turn
  PROVE  RemainderInv'
<1> SUFFICES ASSUME NEW m \in Messages
             PROVE  Remainder(Times(Poly(crc'[m]), left')) = Remainder(Dividend(data'[m]))
  BY DEF RemainderInv
<1>1. /\ crc'[m] = Round(crc[m]) /\ data' = data /\ left > 0 /\ left' = left - 1
      /\ crc[m] \in Register
  BY DEF Turn, CrcTypeOK
<1>2. left' \in Nat /\ left' + 1 = left
  BY <1>1 DEF CrcTypeOK
<1>3. Remainder(Times(Poly(Round(crc[m])), left')) = Remainder(Times(Poly(crc[m]), left' + 1))
  BY <1>1, <1>2, RoundRemainder
<1> QED BY <1>1, <1>2, <1>3 DEF RemainderInv

(* crc32's loop of shifts and masks computes the remainder of the message  *)
(* by the polynomial, as a cyclic redundancy check is defined and as zlib  *)
(* computes it for extract.py: for every register of eight bits or more,   *)
(* every polynomial with its highest bit and every message.                *)
THEOREM CrcStaysRemainder == CrcSpec => []CrcIsRemainder
<1>1. CrcTypeOK /\ RemainderInv /\ [CrcNext]_crcVars => RemainderInv'
  <2> SUFFICES ASSUME CrcTypeOK, RemainderInv, [CrcNext]_crcVars PROVE RemainderInv'
    OBVIOUS
  <2>1. ASSUME NEW byte \in [Messages -> Byte], Feed(byte) PROVE RemainderInv'
    BY <2>1, RemainderFeed
  <2>2. CASE Turn
    BY <2>2, RemainderTurn
  <2>3. CASE UNCHANGED crcVars
    BY <2>3 DEF crcVars, RemainderInv
  <2> QED BY <2>1, <2>2, <2>3 DEF CrcNext
<1>2. CrcTypeOK /\ RemainderInv => CrcIsRemainder
  <2> SUFFICES ASSUME CrcTypeOK, RemainderInv, left = 0, NEW m \in Messages
               PROVE  Checksum(m) = (0..TOP) \ {TOP - e : e \in Remainder(Dividend(data[m]))}
    BY DEF CrcIsRemainder
  <2>1. crc[m] \in Register /\ TOP \in Nat /\ crc[m] \subseteq 0..TOP
    BY WidthFacts DEF CrcTypeOK, Register
  <2>2. Poly(crc[m]) \in SUBSET (0..TOP) /\ Poly(crc[m]) \in SUBSET Nat
    BY <2>1, PolyBits
  <2>3. Remainder(Dividend(data[m])) = Poly(crc[m])
    <3>1. Remainder(Times(Poly(crc[m]), 0)) = Remainder(Dividend(data[m]))
      BY DEF RemainderInv
    <3>2. Times(Poly(crc[m]), 0) = Poly(crc[m])
      BY <2>2, TimesZero
    <3> QED BY <2>2, <3>1, <3>2, RemainderSmall
  <2>4. {TOP - e : e \in Poly(crc[m])} = crc[m]
    <3>1. \A i \in 0..TOP : TOP - (TOP - i) = i
      BY <2>1
    <3>2. ASSUME NEW x \in {TOP - e : e \in Poly(crc[m])} PROVE x \in crc[m]
      <4>1. PICK e \in Poly(crc[m]) : x = TOP - e
        BY <3>2
      <4>2. e \in 0..TOP
        BY <2>2, <4>1
      <4> QED BY <2>1, <4>1, <4>2, PolyBits
    <3>3. ASSUME NEW i \in crc[m] PROVE i \in {TOP - e : e \in Poly(crc[m])}
      <4>1. TOP - i \in Poly(crc[m]) /\ TOP - (TOP - i) = i
        BY <2>1, <3>1 DEF Poly
      <4> QED BY <4>1
    <3> QED BY <3>2, <3>3
  <2> QED BY <2>3, <2>4 DEF Checksum
<1> QED BY <1>1, <1>2, RemainderInit, CrcTypeCorrect, PTL DEF CrcSpec
=============================================================================

-------------------------------- MODULE Crc ---------------------------------
(***************************************************************************)
(* crc32 of scroll-core/src/crc.rs, bit by bit, on two messages of equal   *)
(* length side by side: what was meant to be in a sector and what is.  The *)
(* register is the set of its bits that are 1, so that exclusive or is the *)
(* symmetric difference, and a byte is a subset of 0..7.                   *)
(***************************************************************************)
EXTENDS Integers, Sequences, FiniteSetsExt

CONSTANTS
  TOP,       \* the highest bit of the register (31)
  POLY,      \* the bits of 0xEDB8_8320
  Byte,      \* the bytes of the messages
  MaxLength  \* bytes of a message: the bound of the model

ASSUME PolyAssumption == TOP \in Nat /\ TOP >= 7 /\ POLY \subseteq 0..TOP /\ TOP \in POLY
ASSUME ByteAssumption == Byte \subseteq SUBSET (0..7)
ASSUME LengthAssumption == MaxLength \in Nat

VARIABLES
  data,  \* the messages so far
  crc,   \* their registers
  left   \* rounds left of the last byte

crcVars == <<data, crc, left>>

Messages == {"meant", "found"}

Register == SUBSET (0..TOP)

CrcTypeOK ==
  /\ data \in [Messages -> Seq(Byte)]
  /\ \A m \in Messages : Len(data[m]) = Len(data["meant"]) /\ Len(data[m]) <= MaxLength
  /\ crc \in [Messages -> Register]
  /\ left \in 0..8

\* The registers start with zeros.
MutCrcInit ==
  /\ data = [m \in Messages |-> <<>>]
  /\ crc = [m \in Messages |-> {}]
  /\ left = 0

CrcInit ==
  /\ data = [m \in Messages |-> <<>>]
  /\ crc = [m \in Messages |-> 0..TOP]
  /\ left = 0

-----------------------------------------------------------------------------
Xor(a, b) == (a \ b) \cup (b \ a)

\* The next byte of both.
Feed(byte) ==
  /\ left = 0
  /\ Len(data["meant"]) < MaxLength
  /\ data' = [m \in Messages |-> Append(data[m], byte[m])]
  /\ crc' = [m \in Messages |-> Xor(crc[m], byte[m])]
  /\ left' = 8

\* crc >> 1
Shift(r) == {i - 1 : i \in r \ {0}}

\* The polynomial is applied by the wrong bit.
MutRound(r) == IF TOP \in r THEN Xor(Shift(r), POLY) ELSE Shift(r)

\* The mask is all ones if the lowest bit is 1.
Round(r) == IF 0 \in r THEN Xor(Shift(r), POLY) ELSE Shift(r)

Turn ==
  /\ left > 0
  /\ crc' = [m \in Messages |-> Round(crc[m])]
  /\ left' = left - 1
  /\ UNCHANGED data

\* !crc
Checksum(m) == (0..TOP) \ crc[m]

CrcNext == (\E byte \in [Messages -> Byte] : Feed(byte)) \/ Turn

CrcSpec == CrcInit /\ [][CrcNext]_crcVars

-----------------------------------------------------------------------------
(***************************************************************************)
(* The definition of a cyclic redundancy check: polynomials over two       *)
(* elements as sets of exponents, the lowest bit of a byte first.          *)
(***************************************************************************)
Width == TOP + 1

\* POLY without its leading term, which the code leaves implicit, is written
\* from the lowest bit up: bit i stands for exponent TOP - i.
Divisor == {TOP - i : i \in POLY} \cup {Width}

Times(a, n) == {e + n : e \in a}

\* The message, its first bits inverted, moved up to make room for the rest.
Dividend(bytes) ==
  LET bits == 8 * Len(bytes)
      byte(k) == {bits - 8 * k + 7 - i + Width : i \in bytes[k]}
  IN  Xor(UNION {byte(k) : k \in 1..Len(bytes)}, Times(0..TOP, bits))

\* One step of long division: the exponent d is taken out.
Reduced(rest, d) == IF d \in rest THEN Xor(rest, Times(Divisor, d - Width)) ELSE rest

\* Long division, from the highest exponent down.
Remainder(a) ==
  LET top == Max(a \cup {Width})
      upto[d \in TOP..top] == IF d = top THEN a ELSE Reduced(upto[d + 1], d + 1)
  IN  upto[TOP]

-----------------------------------------------------------------------------
(***************************************************************************)
(* Properties                                                              *)
(***************************************************************************)

(* The loop of shifts and masks computes the checksum of the standard      *)
(* (crc.rs:1), which is what scripts/extract.py takes from zlib: the       *)
(* remainder of the message by the polynomial, inverted.                   *)
CrcIsRemainder ==
  left = 0 =>
    \A m \in Messages :
      Checksum(m) = (0..TOP) \ {TOP - e : e \in Remainder(Dividend(data[m]))}

\* Where the messages differ.
Damage == {k \in 1..Len(data["meant"]) : data["meant"][k] # data["found"][k]}

(* decode recognises damage by the checksum (record.rs:31): a sector in    *)
(* which one byte, or any bytes within as many as the register is wide,    *)
(* are not as they were written has another checksum, and without damage   *)
(* it is the same.                                                         *)
DamageDetected ==
  left = 0 /\ (Damage # {} => 8 * (Max(Damage) - Min(Damage) + 1) <= Width) =>
    (crc["meant"] = crc["found"] <=> Damage = {})
=============================================================================

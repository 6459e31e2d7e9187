------------------------------- MODULE Record -------------------------------
(***************************************************************************)
(* The on-disk record of scroll-core/src/record.rs, one per 512-byte       *)
(* sector, and the two ways a sector's contents come about: a complete     *)
(* write of an encoded record, and a write that was cut short.             *)
(*                                                                         *)
(* A sector is kept field by field in the order encode lays the fields     *)
(* out, because that order decides what a half-finished write leaves       *)
(* behind.  A payload byte is a positive number; 0 is the padding encode   *)
(* puts behind the payload and the content of a fresh disk.                *)
(***************************************************************************)
EXTENDS Integers, Sequences

CONSTANTS
  Byte,              \* the values a payload byte takes; none of them is 0
  PAYLOAD_CAPACITY,  \* payload bytes in a sector (494)
  crc32(_)           \* the checksum of a payload

Padded == Byte \cup {0}

\* Everything the payload area of a sector can be read as.
Payload == UNION {[1..n -> Padded] : n \in 0..PAYLOAD_CAPACITY}

ASSUME ByteAssumption == Byte \subseteq Nat \ {0}

ASSUME CapacityAssumption == PAYLOAD_CAPACITY \in Nat \ {0}

(***************************************************************************)
(* The checksum is idealised: payloads that fit a sector never collide.    *)
(* What is kept of the real function is that the empty payload has the     *)
(* checksum 0 (the test empty_input of crc.rs), which is what a zeroed     *)
(* sector holds in its crc field.                                          *)
(***************************************************************************)
ASSUME CrcAssumption ==
  /\ \A p \in Payload : crc32(p) \in Nat
  /\ \A p, q \in Payload : crc32(p) = crc32(q) => p = q
  /\ crc32(<<>>) = 0

-----------------------------------------------------------------------------
Sector == [magic   : BOOLEAN,
           seq     : Nat,
           length  : Nat,
           crc     : Int,
           payload : [1..PAYLOAD_CAPACITY -> Padded]]

\* A sector nothing was ever written to: the zeroed-disk precondition.
Zeroed == [magic   |-> FALSE,
           seq     |-> 0,
           length  |-> 0,
           crc     |-> 0,
           payload |-> [i \in 1..PAYLOAD_CAPACITY |-> 0]]

encode(sequence_number, p) ==
  [magic   |-> TRUE,
   seq     |-> sequence_number,
   length  |-> Len(p),
   crc     |-> crc32(p),
   payload |-> [i \in 1..PAYLOAD_CAPACITY |-> IF i <= Len(p) THEN p[i] ELSE 0]]

\* The bytes decode returns when it accepts the sector.
payload(sector) == [i \in 1..sector.length |-> sector.payload[i]]

\* decode(sector, lba) is Some(payload(sector)) exactly when this holds.
decodes(sector, lba) ==
  /\ sector.magic
  /\ sector.seq = lba
  /\ sector.length <= PAYLOAD_CAPACITY
  /\ crc32(payload(sector)) = sector.crc

\* A record whose payload fills the sector: the sector is sealed.
isFull(sector, lba) == decodes(sector, lba) /\ sector.length = PAYLOAD_CAPACITY

-----------------------------------------------------------------------------
\* Half of one checksum and half of another: the checksum of nothing.
GarbledCrc == -1

(***************************************************************************)
(* What the drive holds when a write of new over old stops early.  The     *)
(* bytes reach the medium in sector order, so a cut keeps a prefix of new: *)
(*   0  nothing, or a part of the magic      3  length as well             *)
(*   1  the magic                            4  and half of the checksum   *)
(*   2  magic and sequence number            5  the whole header           *)
(* and 5 + n leaves n bytes of the payload area new.  The last cut is the  *)
(* complete sector: a write may be reported as failed after all of it      *)
(* reached the medium.                                                     *)
(***************************************************************************)
Cut == 0..(PAYLOAD_CAPACITY + 5)

torn(old, new, cut) ==
  [magic   |-> IF cut >= 1 THEN new.magic ELSE old.magic,
   seq     |-> IF cut >= 2 THEN new.seq ELSE old.seq,
   length  |-> IF cut >= 3 THEN new.length ELSE old.length,
   crc     |-> IF cut >= 5 THEN new.crc
               ELSE IF cut = 4 /\ old.crc # new.crc THEN GarbledCrc
               ELSE old.crc,
   payload |-> [i \in 1..PAYLOAD_CAPACITY |->
                  IF cut >= 5 + i THEN new.payload[i] ELSE old.payload[i]]]
=============================================================================

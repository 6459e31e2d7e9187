-------------------------------- MODULE MCCrc -------------------------------
(***************************************************************************)
(* The real register and polynomial, on messages of a few bytes.           *)
(***************************************************************************)
EXTENDS Crc

\* 0xEDB8_8320
Ieee == {5, 8, 9, 15, 19, 20, 21, 23, 24, 26, 27, 29, 30, 31}

\* 0x00, 0x01, 0x80
MCByte == {{}, {0}, {7}}
=============================================================================

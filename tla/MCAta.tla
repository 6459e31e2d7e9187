------------------------------- MODULE MCAta --------------------------------
(***************************************************************************)
(* Ata with two contents for the sector.                                   *)
(***************************************************************************)
EXTENDS Ata

MCValue == {"old ink", "new ink"}
=============================================================================

---------------------------- MODULE MCAshRedir ----------------------------
(***************************************************************************)
(* Instances of AshRedir for TLC.                                          *)
(***************************************************************************)
EXTENDS AshRedir
=============================================================================

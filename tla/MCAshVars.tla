----------------------------- MODULE MCAshVars -----------------------------
(***************************************************************************)
(* Instances of AshVars for TLC.                                           *)
(***************************************************************************)
EXTENDS AshVars

CONSTANTS d, s, empty, one

Initially == [v \in Vars |-> IF v \in Static THEN one ELSE Unset]
=============================================================================

----------------------------- MODULE MCKshJobs -----------------------------
(***************************************************************************)
(* Instances of KshJobs for TLC.                                           *)
(***************************************************************************)
EXTENDS KshJobs, TLC

CONSTANTS p1, p2, p3

Symmetry == Permutations(Pids)
=============================================================================

----------------------------- MODULE MCDeletion -----------------------------
(***************************************************************************)
(* Instances of Deletion for TLC.                                          *)
(***************************************************************************)
EXTENDS Deletion, TLC

CONSTANTS f1, f2, f3, d1, d2, x, y

Symmetry == Permutations(Files) \cup Permutations(Dirs) \cup Permutations(Names)
=============================================================================

----------------------------- MODULE MCAshJobs -----------------------------
(* Small instances of AshJobs for TLC.                                     *)
EXTENDS AshJobs, TLC

(* Process ids are interchangeable: sound for safety, not for liveness.    *)
PidSymmetry == Permutations(Pids)
=============================================================================

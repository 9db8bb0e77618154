-------------------------- MODULE MCAshInterrupts --------------------------
EXTENDS AshInterrupts

(* BOUND: failed substitutions leave suppressint ever lower; the runs stop *)
(* at a few.                                                               *)
FewSuppressed == suppressint \in -3 .. 8
=============================================================================

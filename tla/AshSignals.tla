---------------------------- MODULE AshSignals ----------------------------
(* What the handlers of signals (trap.c) and of exceptions (error.c) share. *)
VARIABLE intpending   \* a SIGINT is held until INTON
=============================================================================

---------------------------- MODULE MCAshTraps ----------------------------
(* The signals of the small instances: 1 is SIGINT, 2 is SIGQUIT in one    *)
(* run and SIGTERM, which a child in the background does not ignore, in    *)
(* the other; 3 (where there is one) stands for SIGTSTP and SIGTTOU.       *)
EXTENDS AshTraps

QuietSignals == {2}
InterruptAndQuit == {1, 2}
InterruptOnly    == {1}
TtySignals   == Sigs \ {1, 2}
=============================================================================

CONSTANTS
  MAXSIG = 3
  SIGINT = 1
  Quiet <- QuietSignals
  Background <- InterruptAndQuit
  Tty <- TtySignals
  MaxSent = 1
  MaxNest = 1
  BadOptions = FALSE
  ShellProcs = FALSE
  StaleScan = FALSE
SPECIFICATION Spec
INVARIANTS
  ModeAgrees
  WantedInForce
  EntryIgnored
CHECK_DEADLOCK FALSE

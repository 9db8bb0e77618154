CONSTANTS
  MAXSIG = 2
  SIGINT = 1
  Quiet <- QuietSignals
  Background <- InterruptOnly
  Tty <- TtySignals
  MaxSent = 2
  MaxNest = 2
  BadOptions = FALSE
  ShellProcs = TRUE
  StaleScan = FALSE
SPECIFICATION FairSpec
INVARIANTS
  Announced
PROPERTIES
  TrapRuns
CHECK_DEADLOCK FALSE

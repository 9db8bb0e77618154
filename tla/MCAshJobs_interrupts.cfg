CONSTANTS
  Pids = {p1, p2}
  NoPid = NoPid
  MaxJobs = 2
  JobChunk = 2
  MaxPipe = 2
  iflag = TRUE
  jobctl = TRUE
  SigintRaises = TRUE
  TtyLost = TRUE
  TrapCommands = TRUE
  PidReuse = FALSE
SPECIFICATION Spec
INVARIANTS
  StateAgrees
  DoneIsDead
  CurrentJobAlive
PROPERTIES
  FreedWhenDead
SYMMETRY PidSymmetry
CHECK_DEADLOCK FALSE

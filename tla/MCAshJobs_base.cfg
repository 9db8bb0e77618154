CONSTANTS
  Pids = {p1, p2}
  NoPid = NoPid
  MaxJobs = 2
  JobChunk = 2
  MaxPipe = 2
  iflag = TRUE
  jobctl = FALSE
  SigintRaises = FALSE
  TtyLost = FALSE
  TrapCommands = FALSE
  PidReuse = FALSE
SPECIFICATION FairSpec
INVARIANTS
  NoLostStatus
  DoneIsAnnounced
  WaitBackground
PROPERTIES
  WaitforjobEnds
  WaitEnds

CONSTANTS
  p1 = p1
  p2 = p2
  p3 = p3
  Pids = {p1, p2, p3}
  None = None
  MaxProcs = 3
  MaxJob = 3
  Allowed = {}
SPECIFICATION Spec
INVARIANTS
  RunsOrNews
  EndedIsGone
  WaitsForItsOwn
  Announced
CHECK_DEADLOCK FALSE
SYMMETRY Symmetry

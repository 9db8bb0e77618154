CONSTANTS
  Named = 2
  Limit = 5
  Files = {a, b}
  Memory = Memory
  Closed = Closed
  MaxNest = 2
  PopInterrupts = FALSE
SPECIFICATION Spec
INVARIANTS
  SavedAlive
  NoLeak
PROPERTIES
  Implements
CHECK_DEADLOCK FALSE

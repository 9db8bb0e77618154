CONSTANTS
  Kinds <- EveryKind
  MaxDepth = 3
  MaxSkip = 2
  Allowed = {}
SPECIFICATION Spec
INVARIANTS
  CountsAgree
PROPERTIES
  Implements
CHECK_DEADLOCK FALSE

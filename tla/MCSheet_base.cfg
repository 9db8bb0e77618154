CONSTANTS
  MaxRows = 2
  MaxCols = 2
  Ents = {e1, e2, e3}
  NULL = NULL
  MaxArea = 2
  MaxSaved = 2
  MaxDatum = 1
  Fixings <- Mixed
  Allowed = {}
SPECIFICATION Spec
INVARIANTS
  RefsAlive
PROPERTIES
  RefsKept
  LockedKept
SYMMETRY EntSymmetry
CONSTRAINT OneAtATime

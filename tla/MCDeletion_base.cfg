CONSTANTS
  f1 = f1
  f2 = f2
  f3 = f3
  d1 = d1
  d2 = d2
  x = x
  y = y
  Files = {f1, f2}
  Dirs = {d1, d2}
  Names = {x, y}
  Root = Root
  Star = Star
  Nowhere = Nowhere
  None = None
  MaxDepth = 2
  Allowed = {}
SPECIFICATION Spec
INVARIANTS
  MarkedInside
  TreeAgrees
  DoneAsAsked
PROPERTIES
  LiveIsKept
  AgeIsRespected
SYMMETRY Symmetry

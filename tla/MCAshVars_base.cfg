CONSTANTS
  d = d
  s = s
  empty = empty
  one = one
  Unset = Unset
  Vars = {d}
  Values = {empty, one}
  Default <- Initially
  Options = {"j"}
  Args = {none}
  Empty = empty
  Static = {}
  MaxDepth = 2
  MaxLocals = 2
  MaxParams = 1
  Allowed = {}
SPECIFICATION Spec
INVARIANTS
  NoDangling
  OwnedOnce
PROPERTIES
  Implements

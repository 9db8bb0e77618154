CONSTANTS
  a = a
  b = b
  w = w
  x = x
  y = y
  Here = Here
  Names = {x, y}
  Builtins = {x}
  Dirs <- ExecDirs
  Paths <- SearchPaths
  Programs <- Executables
  FuncFiles <- FunctionFiles
  DefaultPath <- Initially
  MaxDepth = 1
  NoPath = FALSE
  StalePath = FALSE
  StaleMark = FALSE
SPECIFICATION ExecSpec
INVARIANTS
  HashedIsFound
PROPERTIES
  Implements

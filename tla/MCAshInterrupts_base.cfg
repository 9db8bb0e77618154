CONSTANTS
  MaxDepth = 6
  BackquoteErrors = FALSE
SPECIFICATION IntSpec
INVARIANTS
  CountIsDepth
  HandlerIsInnermost
PROPERTIES
  InterruptReachesMain
  NoSectionCut

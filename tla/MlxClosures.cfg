CONSTANTS
  Functions = {f, g, h}
  MaxDepth = 6
  MaxFailures = 6
  NoFunction = NoFunction
SPECIFICATION Spec
INVARIANTS
  OwnFailure
  NothingWaits
  OneBorrow
CHECK_DEADLOCK FALSE

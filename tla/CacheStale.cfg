CONSTANTS
  Splits = 2
  Workers = {w1, w2}
  Sizes = {0, 2, 3}
  MaxBuilds = 2
  None = None
  Blank = Blank
SPECIFICATION Spec
CHECK_DEADLOCK FALSE
INVARIANT OpenedIsDecoded

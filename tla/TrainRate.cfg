CONSTANTS
  Frames = 5
  Batch = 2
  EpochCounts = {2}
  StepLimits = {3}
  PctNum = 1
  PctDen = 4
  Scores = {0, 1}
  MaxRuns = 1
  Failed = Failed
  Torn = Torn
  None = None
SPECIFICATION Spec
CHECK_DEADLOCK FALSE
INVARIANT RateIsNumber

CONSTANTS
  Frames = 5
  Batch = 2
  EpochCounts = {2}
  StepLimits = {3}
  PctNum = 1
  PctDen = 2
  Scores = {0, 1}
  MaxRuns = 2
  Failed = Failed
  Torn = Torn
  None = None
SPECIFICATION Spec
CHECK_DEADLOCK FALSE
INVARIANT ReportsAreLines

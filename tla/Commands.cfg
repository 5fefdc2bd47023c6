CONSTANTS
  Frames = 5
  Batch = 2
  EpochCounts = {0, 2}
  StepLimits = {0, 3, 4}
  PctNum = 1
  PctDen = 2
  Scores = {0, 1}
  MaxRuns = 2
  Failed = Failed
  Torn = Torn
  None = None
  Splits = 2
  Workers = {w1, w2}
  Sizes = {0, 2, 3}
  MaxBuilds = 2
  Blank = Blank
  Dirs = {kept, top, out}
  Lo = 1
  Hi = 2
  MaxCommands = 4
  Missing = Missing
SPECIFICATION CommandSpec
INVARIANTS
  SeedFixesBatches
  OkKeepsBest
  KeptIsReported
  TopIsKept
  DecodedOnce
  RowsAfterFrames
  OkIsWhole
  DescribedUnlessCut
PROPERTIES
  RunReturns
  BuildReturns
CHECK_DEADLOCK FALSE

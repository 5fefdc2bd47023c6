CONSTANTS
  CHUNK = 6
  BLOCK = 2
  GROUP = 2
  H = 2
  DK = 2
  DV = 2
  K = 3
  TILE = 4
  Garbage = Garbage
  Calls <- MCCalls
  CubeUnits = {0, 1, 2}
  COLS = 2
SPECIFICATION DeviceSpec
INVARIANTS
  DeltaForwardExact
  DeltaBackwardExact
  PlanExact
  ConvForwardExact
  ConvBackwardExact
  LossExact
  SampleExact
  LowRankExact
  DecodeExact
  BlockedExact
  ReadsExact
CHECK_DEADLOCK FALSE

CONSTANTS
  Masks <- MCMasks
  Lefts = {0, 99}
  Rights = {0, 99}
  Group = 2
  Block = 2
  DqBlock = 4
  DqRows = 2
  DqTile = 2
  Chunks = 2
  RowsPerCube = 3
  Junk = Junk
  Pending = Pending
SPECIFICATION Spec
INVARIANTS
  GradientsExact
  ZeroedFirst
PROPERTIES
  WrittenOnce
  Completes
CHECK_DEADLOCK FALSE

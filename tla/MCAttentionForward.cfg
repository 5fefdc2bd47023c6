CONSTANTS
  Masks <- MCMasks
  Lefts = {0, 1, 99}
  Rights = {0, 99}
  NumWarps = 2
  RowsPerWarp = 2
  TileKeys = 2
  Zero = Zero
  Junk = Junk
  Unseen = Unseen
  Pending = Pending
SPECIFICATION Spec
INVARIANTS
  InStep
  TilesWhole
  RowsExact
PROPERTY Implements
CHECK_DEADLOCK FALSE

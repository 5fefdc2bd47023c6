CONSTANTS
  Masks <- MCMasks
  Overhang = 1
  Block = 2
  HalfRange = 64
  MaxLen = 4
  Reaches = {0, 1, 99}
SPECIFICATION Spec
INVARIANTS
  BoundsAreReference
  RangeHoldsRow
  UnmaskedSeesAll
  FitsWidth
PROPERTY Ends
CHECK_DEADLOCK FALSE

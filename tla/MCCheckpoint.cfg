\* Every way of running the step, on every choice of trainable leaves.
SPECIFICATION Spec
CONSTANT
  Models <- MCModels
INVARIANTS
  NodesReady
  SumsArePlain
  MlxEndsWhole

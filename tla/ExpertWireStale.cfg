SPECIFICATION Spec
CONSTANTS
  Ranks = 2
  Layers = 3
  Batches <- MCBatches
  Faults = {"lane"}
  MaxPasses = 2
INVARIANT
  OwnPlanes
CHECK_DEADLOCK FALSE

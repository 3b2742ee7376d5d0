SPECIFICATION FairSpec
CONSTANTS
  Ranks = 2
  Layers = 3
  Batches <- MCBatches
  Faults = {"timeout", "serve", "lane", "fill"}
  MaxPasses = 2
INVARIANTS
  OneExchange
  FailsClosed
  BuffersInTurn
PROPERTY
  PassEnds
CHECK_DEADLOCK FALSE

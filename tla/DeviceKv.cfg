SPECIFICATION Spec
CONSTANTS
  Window = 3
  Slack = 2
  MaxChunk = 2
  Block = 3
  Unit = 2
  SplitVerify = FALSE
  MaxTokens = 8
  MaxSnaps = 2
INVARIANTS
  WindowCovered
  HistoryCovered
  SnapshotsExact

SPECIFICATION FairSpec
CONSTANTS
  Jobs = {"a", "b", "c", "d"}
  Extends <- MCExtends
  Rows <- MCRows
  MaxTokens <- MCTokens
  Size <- MCSize
  ImageJobs = {"d"}
  Slots = 3
  Memory = 3
  BatchRows = 2
  SegRows = 2
  Run = 2
  SlowShort = FALSE
  MaxQueue = 2
  None = None
INVARIANTS
  JobsKept
  BudgetLeft
PROPERTIES
  JobEnds
  PrefillTurns

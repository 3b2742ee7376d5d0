SPECIFICATION FairSpec
CONSTANTS
  Jobs = {"a", "d"}
  Extends <- MCExtends
  Rows <- MCRows
  MaxTokens <- MCTokens
  Size <- MCSize
  ImageJobs = {}
  Slots = 3
  Memory = 3
  BatchRows = 2
  SegRows = 2
  Run = 2
  SlowShort = TRUE
  MaxQueue = 3
  None = None
PROPERTY
  PrefillTurns

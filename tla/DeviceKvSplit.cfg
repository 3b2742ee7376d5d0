SPECIFICATION Spec
CONSTANTS
  Window = 3
  Slack = 3
  MaxChunk = 2
  Block = 3
  Unit = 2
  SplitVerify = TRUE
  MaxTokens = 8
  MaxSnaps = 2
INVARIANT
  WindowCovered

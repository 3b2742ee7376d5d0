SPECIFICATION Spec
CONSTANTS
  Slots = {s1, s2}
  Token = {"a", "b"}
  Prompts <- MCPrompts
  Argmax <- MCArgmax
  MinRetain = 1
  Bank = 1
  Cap = 1
  Base = 1
  Ahead = 1
  Transient = 1
  Swa = 1
  Total = 7
  MaxHist = 3
  None = None
PROPERTY
  RefusalKeepsPoints

SPECIFICATION Spec
CONSTANTS
  Slots = {s1, s2}
  Token = {"a", "b"}
  Prompts <- MCPrompts
  Argmax <- MCArgmax
  MinRetain = 2
  Bank = 1
  Cap = 1
  Base = 2
  Ahead = 1
  Transient = 1
  Swa = 1
  Total = 8
  MaxHist = 5
  None = None
INVARIANTS
  TiersExact
  ResumeTrue
  NoOvercommit
SYMMETRY SlotSymmetry

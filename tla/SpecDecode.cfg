SPECIFICATION Spec
CONSTANTS
  Match = 2
  Extend = 4
  Candidates = 2
  Requests = {"g", "s"}
  Token = {1, 2, 3}
  Prompt <- MCPrompt
  Budget <- MCBudget
  Sampled = {"s"}
  Select <- MCSelect
  Eos = {3}
  Drafts = 3
  DraftWindow = 4
  Ring = 7
  CopyOn = TRUE
INVARIANTS
  OutputTrue
  RowsKept
  DraftContextExact
  CopyExact
CHECK_DEADLOCK FALSE

SPECIFICATION Spec
CONSTANTS
  Tokens = {1, 2}
  Histories <- MCHistories
  PageRows = 2
  MinTokens = 2
  PageSlots = {p1, p2, p3}
  StateSlots = {s1, s2}
  NoSlot = NoSlot
  MaxFailures = 1
INVARIANTS
  ArenasExact
  SnapshotsServe
PROPERTIES
  ImplementsTier
  CaptureEnds
SYMMETRY SlotSymmetry

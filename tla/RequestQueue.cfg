SPECIFICATION FairSpec
CONSTANTS
  Callers = {c1, c2, c3, c4, c5}
  Depth = 2
INVARIANTS
  PlacesCounted
  WaitersCounted
  NoLostWakeup
PROPERTIES
  RequestEnds

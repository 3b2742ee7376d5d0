CONSTANTS
  HeaderLen = 2
  DescLen = 1
  RouteLen = 1
  Hidden = 2
  K32 = 2
  TopK = 2
  Sparks = 2
  MaxTickets = 2
  MaxRows = 2
  MaxFaults = 1
  MaxAttempts = 2
  Room = 2
  MaxRequests = 3
  RowLists <- MCRowLists
  Width = 2
  Rtt = 2
  MaxSubmits = 2
  Big = 4
  Mid = 3
  Small = 2
  MaxTotal = 6
  MaxGroups = 2
  Requests <- MCRequests
  MaxRefused = 2
  MoeLayers = 2
  Model = 4
  Inter = 8
  UnitExperts = 2
  PerByte = 2
  PerScale = 4
  PerShard = 1
  Checkpoints <- MCCheckpoints
  MaxRuns = 2
SPECIFICATION BackSpec
CHECK_DEADLOCK FALSE
INVARIANT SumOwn

SPECIFICATION RefreshSpec
CONSTANTS
  Requests = {r1, r2, r3}
  Policies <- MCPolicies
  Horizon = 3
  MaxTokens = 3
  MaxTime = 3
  Nil = Nil
SYMMETRY Symmetry
CHECK_DEADLOCK FALSE
INVARIANT RowSound
INVARIANT ChainNeverForks
INVARIANT RaceIsForgiven
PROPERTY IdleMeansIdle

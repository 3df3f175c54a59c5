SPECIFICATION RefreshSpec
CONSTANTS
  Requests = {r1, r2}
  Policies <- MCWindowOnly
  Horizon = 1
  MaxTokens = 3
  MaxTime = 0
  Nil = Nil
CHECK_DEADLOCK FALSE
INVARIANT LiveTokenNeverReuse

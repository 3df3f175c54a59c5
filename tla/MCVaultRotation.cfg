SPECIFICATION Spec
CONSTANTS
  Procs = {p1, p2}
  Owners <- MCOneOwner
  Names = {n1}
  Values = {v1}
  KeyIDs = {k1, k2}
  Masters = {new}
  Active = new
  Held = {new}
  Page = 1
  Retries = 0
  MaxVersion = 1
CHECK_DEADLOCK FALSE
INVARIANT EverySecretOpens

SPECIFICATION Spec
CONSTANTS
  Procs = {p1, p2}
  Owners <- MCTwoOwners
  Names = {n1}
  Values = {v1}
  KeyIDs = {k1,k2,k3}
  Masters = {old, new, lost}
  Active = new
  Held = {old, new}
  Page = 1
  Retries = 1
  MaxVersion = 2
SYMMETRY Symmetry
CHECK_DEADLOCK FALSE
INVARIANT StoreSound
INVARIANT SecretsIntact
PROPERTY DeletionsAreRecorded
INVARIANT RewrapComplete

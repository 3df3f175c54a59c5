SPECIFICATION Spec
CONSTANTS
  Tuples = {t1, t2}
  Seeded = {t1, t2}
  NoTuple = noTuple
  Replicas = {r1, r2}
  Readers = {r1}
  Receipts = {c1, c2}
  NoReceipt = noReceipt
  MaxStaleness = 1
  MaxTime = 1
  MaxEvents = 2
  MaxFaults = 1
SYMMETRY Symmetry
CHECK_DEADLOCK FALSE
INVARIANT CacheSound
INVARIANT ServedRecently

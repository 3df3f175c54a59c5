SPECIFICATION Spec
CONSTANTS
  Keys = {k1, k2}
  Callers = {c1, c2}
  Workers = {w1, w2}
  Capacity = 1
  MaxEntries = 1
  MaxAttempts = 2
  MaxGen = 2
  Secrets = {s1, s2}
  Opaque = Opaque
SYMMETRY Symmetry
CHECK_DEADLOCK FALSE
INVARIANT ArbiterSound
INVARIANT SupersededStops
INVARIANT SentSecretsVoided
PROPERTY ImplementsContract

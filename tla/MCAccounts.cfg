SPECIFICATION Spec
CONSTANTS
  Users <- MCUsers
  Passwords = {old, new}
  None = None
  Procs = {p1, p2}
  Callers <- MCCallers
  Batch = 1
  MaxRevision = 3
  MaxRequests = 2
  MaxSessions = 3
  MaxRuns = 1
SYMMETRY Symmetry
CHECK_DEADLOCK FALSE
INVARIANT SessionsRestOnStandingProof
INVARIANT ProofsNamePresentAddress
INVARIANT ErasureSound
INVARIANT GlobalRevocationComplete
PROPERTY CredentialWritesFenced

SPECIFICATION Spec
CONSTANTS
  IDs <- MCIDs
  Names = {n1}
  Kinds = {k1}
  Handled = {k1}
  Payloads = {p1}
  Refused = {}
  Specs <- MCSpecs
  CronParser = TRUE
  Workers = {w1, w2}
  Hosts = {h1}
  Batch = 1
  MaxTime = 2
  MaxAttempts = 1
  MaxFaults = 1
SYMMETRY WorkerSymmetry
CHECK_DEADLOCK FALSE
INVARIANT AdmittedNotLost
INVARIANT OneJobPerAdmission
PROPERTY AdmissionIsCurrent
PROPERTY AcksAreExact

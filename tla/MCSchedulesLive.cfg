SPECIFICATION FairSpec
CONSTANTS
  IDs <- MCIDs
  Names = {n1, n2}
  Kinds = {k1}
  Handled = {k1}
  Payloads = {good, bad}
  Refused = {bad}
  Specs <- MCEvery
  CronParser = TRUE
  Workers = {w1}
  Hosts = {h1}
  Batch = 1
  MaxTime = 1
  MaxAttempts = 2
  MaxFaults = 1
CHECK_DEADLOCK FALSE
PROPERTY HealthyDelivered

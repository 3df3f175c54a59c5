SPECIFICATION FairSpec
CONSTANTS
  IDs <- MCIDs
  Submissions <- MCSubmissions
  Answers <- MCAnswers
  QueueWorkers = {w1, w2}
  Schedulers = {s1}
  MaxAttempts = 2
  Lease = 1
  MaxDelay = 1
  MaxFaults = 1
  None <- MCNone
CHECK_DEADLOCK FALSE
INVARIANT AttemptsSound
INVARIANT ExclusiveWithinLease
INVARIANT DrainClean
PROPERTY SettlementsStand
PROPERTY EventuallySettled
PROPERTY StopsTogether

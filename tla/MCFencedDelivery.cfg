SPECIFICATION FairSpec
CONSTANTS
  JobIDs <- MCJobIDs
  Kinds = {delivery}
  Keys = {k1}
  NoKey = NoKey
  Priorities <- MCPriorities
  Payloads = {Opaque, s1, s2}
  Opaque = Opaque
  Secrets = {s1, s2}
  LeaseIDs = {l1, l2, l3, l4, l5}
  NoLease = NoLease
  Times <- MCTimes
  Instants <- MCInstants
  StartTimes <- MCStartTimes
  LeaseFor <- MCLeaseFor
  PurgeLimits <- MCPurgeLimits
  Workers = {w1, w2}
  Lease = 2
  Margin = 1
  EngineAttempts = 2
  RuntimeAttempts = 2
  Backoff = 1
  ClockLag = 0
  MaxTime = 2
CHECK_DEADLOCK FALSE
INVARIANT ActiveIsLatest
INVARIANT LeaseFence
INVARIANT CompletedWasDelivered
INVARIANT HookAfterDeadLetter
PROPERTY ImplementsContract
PROPERTY EventuallySettled

SPECIFICATION Spec
CONSTANTS
  Records = {1, 2}
  Notices = {n1}
  BusWorkers = {b1}
  Conns = {c1}
  Batch = 2
  QueueSize = 1
  BufferSize = 1
  MaxPerSubject = 1
  MaxTime = 1
  MaxFaults = 1
  Poller = Poller
  None = None
CHECK_DEADLOCK FALSE
INVARIANT OutboxSound
PROPERTY ReplayIsConfined
INVARIANT CloseSound
INVARIANT NeverHeldUp

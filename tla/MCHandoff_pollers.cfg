\* Both consumers share the worker and its queue: backpressure and refusals alone.
CONSTANTS
  triggers = triggers
  decisions = decisions
  t1 = t1
  t2 = t2
  d1 = d1
  Pollers <- MCPollers
  MainPoller = triggers
  Partitions = {t1, d1}
  Owner <- MCOwner
  LogLen = 2
  Poison <- MCPoison
  QueueMax = 1
  MaxPollFailures = 1
  Ids = {1,2,3,4,5,6,7,8,9,10,11,12,13,14,15,16}
  MaxReplays = 0
  MaxDbFaults = 1
SPECIFICATION FairSpec
INVARIANTS RowsAccountedFor NoDuplicateWork
PROPERTIES EveryMessageHandled

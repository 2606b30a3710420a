\* One consumer with one partition; crashes, rebalances and database faults.
CONSTANTS
  triggers = triggers
  decisions = decisions
  t1 = t1
  t2 = t2
  d1 = d1
  Pollers <- MCOnly
  MainPoller = triggers
  Partitions = {t1}
  Owner <- MCOwner
  LogLen = 3
  Poison <- MCPoison
  QueueMax = 2
  MaxPollFailures = 2
  Ids = {1,2,3,4,5,6,7,8,9,10,11,12,13,14,15,16}
  MaxReplays = 2
  MaxDbFaults = 1
SPECIFICATION FairSpec
INVARIANTS TypeOK NoLoss QueuedIsDurable
PROPERTIES TakenInOrder EveryMessageHandled

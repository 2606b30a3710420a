\* One thing out of a signal, a kill, a failing commit and a broken Kafka client.
CONSTANTS
  Capacity = 1
  MaxAge = 1
  DrainTime = 1
  JoinTime = 1
  FlushTime = 1
  MaxFailures = 2
  Publishers = {"worker", "decisions"}
  MaxTrouble = 1
SPECIFICATION Spec
INVARIANTS TypeOK IdleIsHealthy OneProducer FlushedAtExit
PROPERTIES StuckWorkerIsSeen StopEndsProcess BrokenTriggersRecover

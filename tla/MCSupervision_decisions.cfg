\* A Kafka client breaks, and nothing else happens.
CONSTANTS
  Capacity = 1
  MaxAge = 1
  DrainTime = 1
  JoinTime = 1
  FlushTime = 1
  MaxFailures = 2
  Publishers = {}
  MaxTrouble = 1
SPECIFICATION Spec
PROPERTIES BrokenLoopsRecover

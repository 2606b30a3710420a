\* One run in each scenario, two retries, one crash.
CONSTANTS
  Files <- NewFiles
  Tracked = {}
  Ignored <- IgnoredFiles
  RetryLimit = 2
  MaxCrashes = 1
SPECIFICATION Spec
INVARIANTS TypeOK RollbackRestores AttemptsBounded ReleasedAsTested
PROPERTY ImplementsGovernedChange

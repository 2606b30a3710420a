\* A specialist run waits for a decision that never comes.
CONSTANTS
  r1 = r1
  Runs = {r1}
  Names <- MCNames
  Default = "default"
  Spellings <- MCSpellings
  NoOrigin = "none"
  Fold <- MCFold
  Origin <- MCOrigin
  Files <- PorterOnly
  Gates = 2
  MaxCrashes = 0
  MaxDuplicates = 0
  MaxAges = 1
  MaxFaults = 0
  MaxReroutes = 0
  MaxTrouble = 1
SPECIFICATION Spec
PROPERTY EveryOverdueIsReported

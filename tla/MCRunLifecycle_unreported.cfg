\* One crash between the last checkpoint and the outcome event.
CONSTANTS
  r1 = r1
  Runs = {r1}
  Names <- MCNames
  Default = "default"
  Spellings <- MCSpellings
  NoOrigin = "none"
  Fold <- MCFold
  Origin <- MCOrigin
  Files <- NoFile
  Gates = 2
  MaxCrashes = 1
  MaxDuplicates = 0
  MaxAges = 0
  MaxFaults = 0
  MaxReroutes = 0
  MaxTrouble = 1
SPECIFICATION Spec
PROPERTY EndedIsReported

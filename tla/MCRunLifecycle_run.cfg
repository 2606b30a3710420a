\* One run on either graph: any three of a crash, a redelivery, an expiry, a failing
\* call and an edit of the routing table.
CONSTANTS
  r1 = r1
  Runs = {r1}
  Names <- MCNames
  Default = "default"
  Spellings <- MCSpellings
  NoOrigin = "none"
  Fold <- MCFold
  Origin <- MCOrigin
  Files <- AnyFile
  Gates = 2
  MaxCrashes = 1
  MaxDuplicates = 1
  MaxAges = 1
  MaxFaults = 1
  MaxReroutes = 1
  MaxTrouble = 3
SPECIFICATION Spec
INVARIANTS TypeOK ParkedHasWorkspace ParkedHasTarget CompletedIsDelivered FirstOutcomeIsNamed
PROPERTIES CompletedIsFinal TriggerAnswered DecisionAnswered OverdueIsReported

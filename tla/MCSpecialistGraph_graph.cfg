\* One run, three crashes, two edits of the routing table.
CONSTANTS
  Repos <- TwoRepos
  MaxListed = 5
  MaxOthers = 2
  MaxCrashes = 3
  MaxReroutes = 2
SPECIFICATION Spec
INVARIANTS TypeOK NothingLeavesUnapproved PublishedAsReviewed PublishedIsThere
PROPERTY ImplementsGovernedChange

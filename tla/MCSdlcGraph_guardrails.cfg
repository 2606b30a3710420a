\* A failed attempt leaves a file that the next one does not rewrite.
CONSTANTS
  Files <- ClonedFiles
  Tracked <- TrackedFiles
  Ignored = {}
  RetryLimit = 1
  MaxCrashes = 0
SPECIFICATION Spec
INVARIANT GuardrailsBlock

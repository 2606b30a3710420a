\* Two runs, with three out of: a crash, a failing write or send, an expiry, a change
\* by someone else.
CONSTANTS
  r1 = r1
  r2 = r2
  Runs <- TwoRuns
  MaxEvents = 2
  MaxTrouble = 3
SYMMETRY RunSymmetry
SPECIFICATION Spec
INVARIANTS TypeOK ChainVerifies TamperingIsSeen CursorIsRecorded TopicWithinFile RunsAreAudited

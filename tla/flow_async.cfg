SPECIFICATION FairSpec
CONSTANTS
  Def <- LongBranch
  Async = TRUE
  Crashes = FALSE
  MaxRejects = 0
INVARIANTS
  CompletedMeansDone
PROPERTIES
  ImplementsLifecycle
  JobsFinish
  PendingInstanceStarts
CHECK_DEADLOCK FALSE

SPECIFICATION FairSpec
CONSTANTS
  Def <- Routing
  Async = FALSE
  Crashes = FALSE
  MaxRejects = 2
INVARIANTS
  WaitingListSound
  JoinNeverFull
PROPERTIES
  ImplementsLifecycle
CHECK_DEADLOCK FALSE

SPECIFICATION Spec
CONSTANTS
  Def <- ForkJoin
  Async = FALSE
  Crashes = FALSE
  MaxRejects = 2
INVARIANTS
  NoStrandedInstance
CHECK_DEADLOCK FALSE

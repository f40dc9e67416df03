SPECIFICATION Spec
CONSTANTS
  Def <- Contract
  Async = FALSE
  Crashes = TRUE
  MaxRejects = 0
INVARIANTS
  TypeOK
  WaitingListComplete
  CancelledMeansQuiet
  NoStrandedInstance
  BoundaryFiresOnce
PROPERTIES
  TerminalIsFinal
CHECK_DEADLOCK FALSE

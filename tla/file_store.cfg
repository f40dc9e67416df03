SPECIFICATION Spec
CONSTANTS
  Keys = {"k"}
  MaxVersion = 3
  Definitions <- MCDefinitions
  Instances = {"i"}
  Tasks = {"a", "b"}
  NoDef = NoDef
  NoRow = NoRow
  Clients = {c1, c2}
  Worker = w
  Unreadable = Unreadable
  NoEvent = NoEvent
  NoExtension = NoExtension
  NoCollaboration = NoCollaboration
  RoundTrip <- MCRoundTrip
  Budgets <- MCBudgets
SYMMETRY Symmetry
INVARIANTS
  TypeOK
  WholeTransactions
  AcknowledgedSurvives
  DeletedStaysDeleted
  JobRunsOnce
CHECK_DEADLOCK FALSE

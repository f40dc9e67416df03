SPECIFICATION Spec
CONSTANTS
  Users = {"a", "b", "c", "d"}
  ElementConfigs <- AllModes
  Resolutions <- Static
  Replacements <- NoLists
  PendingLists <- NoLists
  Removable = {}
  MaxRecords = 4
INVARIANTS
  SequenceCompleted
  VotesInOrder
  PendingAreRemaining
  InSomeInbox
CHECK_DEADLOCK FALSE

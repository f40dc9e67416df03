SPECIFICATION Spec
CONSTANTS
  Users = {"a", "b", "c", "d"}
  ElementConfigs <- Pools
  Resolutions <- Static
  Replacements <- Lists
  PendingLists <- Chosen
  Removable = {"a", "b", "c"}
  MaxRecords = 4
INVARIANTS
  TypeOK
  OneVoteEach
  QuotaMet
  EveryoneApproved
CHECK_DEADLOCK FALSE

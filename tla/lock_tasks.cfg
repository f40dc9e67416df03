SPECIFICATION FairSpec
CONSTANTS
  Clients = {c1, c2, c3}
  UserTasks = {t1, t2}
  Externals = {}
  FirstActs = {t1}
  Ops = {"complete", "assign", "boundary", "terminate"}
  NoClient = NoClient
INVARIANTS
  TypeOK
  SingleExit
  TerminalMeansQuiet
PROPERTIES
  TerminalIsFinal
  RequestsReturn
CHECK_DEADLOCK FALSE

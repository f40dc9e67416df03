SPECIFICATION Spec
CONSTANTS
  Clients = {c1, c2}
  UserTasks = {t1, t2}
  Externals = {x1}
  FirstActs = {t1, x1}
  Ops = {"extend"}
  NoClient = NoClient
SYMMETRY Symmetry
INVARIANT
  ExternalSingleExit
CHECK_DEADLOCK FALSE

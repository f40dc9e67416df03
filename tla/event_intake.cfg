SPECIFICATION MCSpec
CONSTANTS
  Callers = {"consumer", "api"}
  Consumer = "consumer"
  Keys = {"k"}
  Starts <- MCStarts
  Partners <- MCPartners
  Waits = {"order"}
  Boundaries <- MCBoundaries
  Budgets <- MCBudgets
  Events = {"placed", "direct", "abort", "unknown", "badid", "noadapter", "badjson"}
  Malformed = {"badjson"}
  Buffer = 1
  None = None
  NoAdapter = NoAdapter
  Ignored = Ignored
  BadInstance = BadInstance
  ActionOf <- MCActionOf
  ApiMessages <- MCApiMessages
INVARIANTS
  DuplicatesOnlyInWindow
  AcceptedIsKept
PROPERTIES
  AtLeastOnce
  Delivered
CHECK_DEADLOCK FALSE

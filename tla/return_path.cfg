SPECIFICATION Spec
INVARIANTS
  ReturnsToNearest
CHECK_DEADLOCK FALSE

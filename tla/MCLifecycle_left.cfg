SPECIFICATION Spec
CONSTANTS
  MaxConnections = 1
INVARIANTS NothingIsLeftBehind
CHECK_DEADLOCK FALSE

SPECIFICATION Spec
CONSTANTS
  a = a
  b = b
  Keys = {a, b}
  MaxClears = 2
  MaxDecides = 0
  MaxFailures = 0
INVARIANT NoDuplicateClear
CHECK_DEADLOCK FALSE

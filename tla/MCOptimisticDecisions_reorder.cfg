SPECIFICATION Spec
CONSTANTS
  Null = Null
  NoOverride = NoOverride
  User = User
  Situations <- MCReordered
  MaxCalls = 2
INVARIANT BothAxesLand
CHECK_DEADLOCK FALSE

SPECIFICATION Spec
CONSTANTS
  Null = Null
  NoOverride = NoOverride
  User = User
  Situations <- MCBothFail
  MaxCalls = 2
INVARIANT NothingUnrecordedShown
CHECK_DEADLOCK FALSE

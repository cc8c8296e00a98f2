SPECIFICATION FairSpec
CONSTANTS
  Null = Null
  NoOverride = NoOverride
  User = User
  Situations <- MCRows
  MaxCalls = 6
INVARIANTS
  TypeOK
  ViewMatchesRecord
  OneCallPerAxis
  FailureReported
PROPERTIES
  PreviewResolves
  ServesAsStore
CHECK_DEADLOCK FALSE

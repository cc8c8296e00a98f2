SPECIFICATION Spec
CONSTANTS
  Null = Null
  NoVersion = NoVersion
  P1 = P1
  P2 = P2
  X = X
  Y = Y
  U = U
  Keys <- MCKeys
  RepoKindName <- MCRepoKindName
  WellFormedKeys <- MCWellFormed
  VersionStrings <- MCVersions
  ParseVersion <- MCParseVersion
  Pins = {P1, P2}
  Advisories = {X, Y}
  Users = {U}
  Docs <- MCDocs
  MaxHistory = 1
  MaxClock = 1
INVARIANT CarriedOnlyAfterMove
CHECK_DEADLOCK FALSE

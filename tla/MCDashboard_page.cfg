SPECIFICATION DashboardFairSpec
CONSTANTS
  Null = Null
  NoOverride = NoOverride
  P = P
  X = X
  Y = Y
  Me = Me
  Other = Other
  Keys <- MCKeys
  RepoKindName <- MCRepoKindName
  WellFormedKeys <- MCKeys
  VersionStrings <- MCVersions
  ParseVersion <- MCParseVersion
  Pins = {P}
  Advisories = {X, Y}
  Users = {Me, Other}
  Docs <- MCDocs
  Elsewhere <- MCElsewhere
  MaxHistory = 2
  MaxClock = 1
  MaxVisits = 2
  MaxFailures = 1
INVARIANTS
  DashboardTypeOK
  PageIsOneSnapshot
  PageIsCurrent
  ButtonsMatchList
  DecidedAsShown
PROPERTIES
  LinesAreShown
CHECK_DEADLOCK FALSE

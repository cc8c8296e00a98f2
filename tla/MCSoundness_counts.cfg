SPECIFICATION FairSpec
CONSTANTS
  Null = Null
  P1 = P1
  P2 = P2
  X = X
  U = U
  A = A
  B = B
  C = C
  Keys <- MCKeys
  RepoKindName <- MCRepoKindName
  RepoOf <- MCRepoOf
  DependabotRepos <- MCDependabotRepos
  Repos = {A, B, C}
  WellFormedKeys <- MCKeys
  VersionStrings <- MCVersions
  ParseVersion <- MCParseVersion
  Pins = {P1, P2}
  Advisories = {X}
  Users = {U}
  Docs <- MCDocs
  MaxHistory = 2
  MaxClock = 1
  SeriesLimit = 2
INVARIANTS
  LineAgreesWithList
  ScopeChangesNothing
  TrendsAddUp
  PinMovesAreLabelled
  HiddenUntilNewer
PROPERTIES
  SnoozeEnds
CHECK_DEADLOCK FALSE

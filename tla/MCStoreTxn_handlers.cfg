SPECIFICATION TxnFairSpec
CONSTANTS
  Null = Null
  P = P
  X = X
  Ann = Ann
  Bob = Bob
  Keys <- MCKeys
  RepoKindName <- MCRepoKindName
  WellFormedKeys <- MCKeys
  VersionStrings <- MCVersions
  ParseVersion <- MCParseVersion
  Pins = {P}
  Advisories = {X}
  Users = {Ann, Bob}
  Docs <- MCDocs
  MaxHistory = 4
  MaxClock = 1
  Publisher = Publisher
  Puts <- MCPuts
  Posts <- MCPosts
  MaxRequests = 3
  MaxFailures = 2
INVARIANTS
  TxnTypeOK
  AnswersHold
  AuditCountsWrites
  StoredOnce
PROPERTIES
  Atomic
  EveryRequestEnds
CHECK_DEADLOCK FALSE

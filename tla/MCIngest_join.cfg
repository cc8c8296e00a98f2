SPECIFICATION Spec
CONSTANTS
  Null = Null
  P1 = P1
  P2 = P2
  L1 = L1
  L2 = L2
  Posts <- MCPosts
  MaxPosts = 2
INVARIANT AnswerIsTrue
PROPERTY SnapshotIsJoin
CHECK_DEADLOCK FALSE

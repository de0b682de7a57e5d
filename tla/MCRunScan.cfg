SPECIFICATION Spec
CONSTANTS
  NumNames = 4
  Addresses = {"a", "b"}
  Answers <- EitherAnswer
  Modes = {"first", "all", "remote"}
  Seeds <- TwoSeeds
  Scope = {1, 2, 3}
  PivotDepth = 2
  MaxDiscovery = 2
INVARIANTS
  ScopeIsKept
  DiscoveryBounded
  SuccessIsComplete
  PivotIsClosed
  RecordsDelivered
  FileIsSafe
PROPERTIES
  RunEnds
CHECK_DEADLOCK FALSE

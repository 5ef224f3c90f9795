SPECIFICATION FairSpec
CONSTANTS
  p = p
  Nodes <- MCPair
  Deps <- MCPairDeps
  Kind <- MCPairKind
  MaxAttempts = 2
  MaxRows = 2
  Reconcilers = {p}
  NoDraft = NoDraft
PROPERTY
  ExecutionsEnd
CHECK_DEADLOCK FALSE

SPECIFICATION Spec
CONSTANTS
  p = p
  Nodes <- MCPair
  Deps <- MCPairDeps
  Kind <- MCPairKind
  MaxAttempts = 2
  MaxRows = 2
  Reconcilers = {p}
  NoDraft = NoDraft
PROPERTY
  ArchivedProjectsRestartNothing
CHECK_DEADLOCK FALSE

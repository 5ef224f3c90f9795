SPECIFICATION Spec
CONSTANTS
  p = p
  q = q
  Nodes <- MCNodes
  Deps <- MCDeps
  Kind <- MCKind
  MaxAttempts = 2
  MaxRows = 2
  Reconcilers = {p, q}
  NoDraft = NoDraft
SYMMETRY MCSymmetry
INVARIANTS
  WorkflowTypeOK
  OneRunPerNode
  NothingIsSkipped
  EndsAgree
  ArchivedIsQuiet
PROPERTIES
  ImplementsGraph
CHECK_DEADLOCK FALSE

SPECIFICATION Spec
CONSTANTS
  p = p
  q = q
  Nodes <- MCNodes
  Deps <- MCDeps
  Kind <- MCKind
  MaxAttempts = 2
  MaxRows = 2
  MaxVersions = 2
  Reconcilers = {p, q}
  NoDraft = NoDraft
SYMMETRY MCSymmetry
INVARIANTS
  PlanTypeOK
  OnlyReviewedPlansRun
  CompletedPlansAreWhole
CHECK_DEADLOCK FALSE

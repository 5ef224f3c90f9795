\* Three runs; a budget of depth 1 and fan-out 1, so that a third row and a grandchild are refused.
SPECIFICATION Spec
CONSTANTS
  r1 = r1  r2 = r2  r3 = r3
  Runs <- MCRuns
  NoRun = NoRun
  MaxDepth = 1
  MaxFanout = 1
  MaxConcurrency = 1
  MaxTurn = 2
  MaxExecutors = 2
  MaxIncidents = 2
INVARIANTS
  GroupTypeOK
  WaitersAreWoken
  DelegationsFollowTheirRuns
  TreeIsBounded
PROPERTY WakeUpsAreEarned
CHECK_DEADLOCK FALSE
SYMMETRY MCSymmetry

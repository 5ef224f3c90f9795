\* Two requests at once on three patches and two granted actions, one crash.
SPECIFICATION Spec
CONSTANTS
  p1 = p1  p2 = p2  p3 = p3
  f1 = f1  f2 = f2
  a1 = a1  a2 = a2
  narrow = narrow  again = again  wide = wide
  r1 = r1  r2 = r2
  Patches = {p1, p2, p3}
  Actions = {a1, a2}
  Queues <- MCQueues
  Files = {f1, f2}
  Present = {f1}
  Base = Base
  Absent = Absent
  Ops <- MCOps
  Grants = {narrow, again, wide}
  NoGrant = NoGrant
  Covers <- MCCovers
  Scope <- MCScope
  Rank <- MCRank
  MaxUses <- MCMaxUses
  Requests = {r1, r2}
  MaxCount = 1
  MaxCrashes = 1
INVARIANTS
  ProposalTypeOK
  OnlyAcceptedPatchesStand
  FilesFollowTheDecisions
  GrantsCountTheirUses
PROPERTY RevokedGrantsApproveNothing
CHECK_DEADLOCK FALSE
SYMMETRY MCSymmetry

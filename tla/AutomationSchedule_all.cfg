SPECIFICATION FairSpec
CONSTANTS
  scan = scan
  r1 = r1
  Nobody = Nobody
  Scanner = scan
  Requests = {r1}
  Configs <- MCConfigs
  NextSlot <- MCNextSlot
  MaxRuns = 2
  MaxTime = 2
  MaxCrashes = 1
INVARIANTS
  TypeOK
  RunsWithinBudget
  SlotsFireOnce
  ActiveIsScheduled
PROPERTY
  DueIsHandled

SPECIFICATION Spec
CONSTANTS
  scan = scan
  r1 = r1
  Nobody = Nobody
  Scanner = scan
  Requests = {r1}
  Configs <- MCConfigs
  NextSlot <- MCNextSlot
  MaxRuns = 2
  MaxTime = 3
  MaxCrashes = 1
INVARIANT
  NoSlotFiresTwice

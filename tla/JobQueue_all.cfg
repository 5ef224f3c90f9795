SPECIFICATION FairSpec
CONSTANTS
  j1 = j1
  j2 = j2
  w1 = w1
  w2 = w2
  NoWorker = NoWorker
  NoJob = NoJob
  Jobs = {j1, j2}
  Workers = {w1, w2}
  MaxAttempts <- MCMaxAttempts
INVARIANTS
  TypeOK
  OwnerHoldsCurrentClaim
  ExhaustionIsSound
PROPERTIES
  SettledIsFinal
  ImplementsLeases
  EveryJobSettles

SPECIFICATION ExecSpec
CONSTANTS
  w1 = w1
  c1 = c1
  c2 = c2
  j1 = j1
  j2 = j2
  Nobody = Nobody
  NoJob = NoJob
  Workers <- MCWorkers
  MaxAttempts = 2
  MaxRows = 3
  Clients <- MCOneClient
  Jobs <- MCOneJob
  JobMaxAttempts <- MCTwoTries
  MaxCrashes = 1
  MaxFaults = 1
INVARIANTS
  ExecTypeOK
  LatestAttemptMirrorsRun
  SupervisionIsRecorded
  LockFollowsExecutor
  ResultsLandOnTheirAttempt
  RunningRunsAreAttended
PROPERTIES
  RecSpec
  ReturnsAreDecided
  CancelledIsFinal

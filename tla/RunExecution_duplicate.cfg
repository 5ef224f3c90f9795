SPECIFICATION ExecSpec
CONSTANTS
  w1 = w1
  c1 = c1
  c2 = c2
  j1 = j1
  j2 = j2
  Nobody = Nobody
  NoJob = NoJob
  Workers <- MCWorkers
  MaxAttempts = 2
  MaxRows = 2
  Clients <- MCClients
  Jobs <- MCJobs
  JobMaxAttempts <- MCOneTry
  MaxCrashes = 0
  MaxFaults = 1
INVARIANT
  OneAdapterAtATime

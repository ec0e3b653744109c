SPECIFICATION FairSpec
CONSTANTS
  Workers = {w1}
  Handlers = {h1}
  None = None
  w1 = w1
  h1 = h1
  MaxJobs = 1
  MaxCrashes = 1
  MaxFaults = 2
  FailureLimit = 2
  Outputs = 1
  Timely = FALSE
INVARIANTS
  TypeOK
PROPERTIES
  QueuedIsClaimed
  RestartRecovers
  JobSettles

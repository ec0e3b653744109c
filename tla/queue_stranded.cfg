SPECIFICATION FairSpec
CONSTANTS
  Workers = {w1}
  Handlers = {}
  None = None
  w1 = w1
  MaxJobs = 1
  MaxCrashes = 1
  MaxFaults = 0
  FailureLimit = 5
  Outputs = 1
  Timely = TRUE
PROPERTIES
  StaleIsRequeued

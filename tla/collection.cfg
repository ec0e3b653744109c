SPECIFICATION CollectionSpec
CONSTANTS
  Jobs <- MCJobs
  MinCoverage <- MCMinCoverage
  Worlds <- WorldsOrNone
  MaturePeriods = 2
  BatchSize = 2
  MaxBatches = 2
  MinMetrics = 3
  MaxWorkerFaults = 1
  Daemons = {d1}
  Feeds = {f1, f2, f3}
  Unlicensed = {f3}
  None = None
  d1 = d1
  f1 = f1
  f2 = f2
  f3 = f3
  Batch = 1
  Lease = 1
  Interval = 1
  Retry = 1
  MaxVersions = 2
  MaxCrashes = 1
  MaxFaults = 1
  MaxRegistrations = 0
INVARIANTS
  CoverageIsTrue
PROPERTIES
  RerunsCollect
  VersionsArrive
CHECK_DEADLOCK FALSE

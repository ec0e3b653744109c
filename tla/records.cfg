SPECIFICATION RecordsSpec
CONSTANTS
  Workers = {w1, w2}
  Handlers = {}
  None = None
  w1 = w1
  w2 = w2
  MaxJobs = 2
  MaxCrashes = 1
  MaxFaults = 1
  FailureLimit = 5
  Outputs = 2
  Timely = TRUE
  Securities = {1, 2}
  Weekend = {3}
  NodeStarts <- MCStarts
  LastHour = 18
  Window = 2
  Overlap = 1
  MaxAttempts = 2
  MaxRefreshFaults = 1
  Executions = {1, 2, 3}
  Users = {1, 2}
  Reports <- FewReports
  MaxSaveFaults = 1
  Cases <- CasesOrNone
SYMMETRY Symmetry
INVARIANTS
  ExecutedOnce
  CompletedIsWhole
  SnapshotOnce
  RunningIsRecoverable
  NothingIsOutOfReach
  ChangesAreAlerted
  GatesAreSound
  ReportIsSupported
  ResultsAreStable
PROPERTIES
  ImplementsLifecycle
  SuccessIsTrue
CHECK_DEADLOCK FALSE

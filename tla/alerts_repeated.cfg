SPECIFICATION MonitorSpec
CONSTANTS
  Executions = {1, 2}
  Users = {u1}
  u1 = u1
  Reports <- MCReports
  MaxSaveFaults = 0
INVARIANTS
  AlertsAreMeaningful
CHECK_DEADLOCK FALSE

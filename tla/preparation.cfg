SPECIFICATION FairPrepSpec
CONSTANTS
  Procs = {p1}
  Jobs = {j1, j2}
  None = None
  p1 = p1
  p2 = p2
  j1 = j1
  j2 = j2
  j3 = j3
  Docs = {1, 2}
  CacheBar = 2
  Stocks <- SomeStocks
  MaxFaults = 1
INVARIANTS
  PrepInv
  ReportIsTrue
  AgentsSawWholeData
PROPERTIES
  PreparationEnds
CHECK_DEADLOCK FALSE

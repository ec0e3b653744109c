SPECIFICATION FairStreamSpec
CONSTANTS
  Workers = {w1, w2}
  Users = {u1, u2}
  Nobody = Nobody
  Gone = Gone
  w1 = w1
  w2 = w2
  u1 = u1
  u2 = u2
  Before <- OrderOfTwo
  Limit = 1
  Lease = 3
  Beat = 1
  Setup = 1
  Backoff = 1
  MaxStalls = 0
  MaxRestarts = 1
  MaxFaults = 2
  MaxToggles = 2
INVARIANTS
  StreamInv
PROPERTIES
  ActiveIsStreamed
  InactiveIsClosed

SPECIFICATION StreamSpec
CONSTANTS
  Workers = {w1, w2}
  Users = {u1}
  Nobody = Nobody
  Gone = Gone
  w1 = w1
  w2 = w2
  u1 = u1
  u2 = u2
  Before <- OrderOfTwo
  Limit = 1
  Lease = 9
  Beat = 3
  Setup = 5
  Backoff = 3
  MaxStalls = 0
  MaxRestarts = 0
  MaxFaults = 1
  MaxToggles = 1
INVARIANTS
  OneSocketPerUser
CHECK_DEADLOCK FALSE

SPECIFICATION SceneSpec
CONSTANTS
  Callers = {c1, c2}
  Users = {u1, u2}
  Busy = {u2}
  Events = {e1}
  None = None
  c1 = c1
  c2 = c2
  u1 = u1
  u2 = u2
  e1 = e1
  Order <- OrderOfTwo
  JobLimit = 2
  DeepLimit = 1
  EventLimit = 2
  MaxDays = 2
  MaxRequested = 3
  MaxCrashes = 1
  MaxFaults = 1
INVARIANTS
  DispatchInv
  NobodyIsSuppressed
  OverrunsAreSlips
  OnlyJobsAreCharged
PROPERTIES
  Delivered
CHECK_DEADLOCK FALSE

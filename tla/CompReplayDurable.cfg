SPECIFICATION Spec
CONSTANTS
  t1 = t1
  t2 = t2
  Threads <- OneThread
  MaxPuts = 1
  MaxFaults = 0
  MaxCrashes = 1
  MaxLapses = 0
  MaxDeletes = 0
INVARIANTS
  ReplayDurable
CHECK_DEADLOCK FALSE

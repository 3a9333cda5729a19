SPECIFICATION Spec
CONSTANTS
  t1 = t1
  t2 = t2
  Threads <- OneThread
  MaxPuts = 2
  MaxFaults = 1
  MaxCrashes = 1
  MaxLapses = 0
  MaxDeletes = 0
INVARIANTS
  NoBlindReplay
CHECK_DEADLOCK FALSE

SPECIFICATION Spec
CONSTANTS
  t1 = t1
  t2 = t2
  Threads <- OneThread
  BatchSize = 1
  Multiplier = 2
  PollLimit = 1
  FatalAfter = 2
  MaxPuts = 1
  MaxFaults = 0
  MaxSpawned = 1
PROPERTIES
  DeletedStaysDeleted
CHECK_DEADLOCK FALSE

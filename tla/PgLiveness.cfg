SPECIFICATION Spec
CONSTANTS
  t1 = t1
  t2 = t2
  Threads <- OneThread
  BatchSize = 1
  Multiplier = 2
  PollLimit = 2
  FatalAfter = 2
  MaxPuts = 3
  MaxFaults = 1
  MaxSpawned = 1

  
PROPERTIES
  EventuallyDurable 
CHECK_DEADLOCK FALSE

SPECIFICATION Spec
SYMMETRY Symmetry
CONSTANTS
  t1 = t1
  t2 = t2
  Threads <- TwoThreads
  BatchSize = 2
  Multiplier = 2
  PollLimit = 2
  FatalAfter = 2
  MaxPuts = 4
  MaxFaults = 1
  MaxSpawned = 1
INVARIANTS
  TypeOK NoLoss  FlushLockOwned
PROPERTIES
  StopPersists ImplementsWriteBehind
CHECK_DEADLOCK FALSE

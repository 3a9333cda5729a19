SPECIFICATION Spec
CONSTANTS
  t1 = t1
  t2 = t2
  Threads <- OneThread
  MaxPuts = 3
  MaxFaults = 1
  MaxCrashes = 1
  MaxLapses = 1
  MaxDeletes = 1
INVARIANTS
  TypeOK  BufferHidesNoRow
PROPERTIES
  RecoveryReconciles
CHECK_DEADLOCK FALSE

SPECIFICATION Spec
CONSTANTS
  a = a
  b = b
  Listeners <- TwoListeners
  Lines <- TwoLogs
  MaxBatch = 2
  MaxFaults = 1
INVARIANTS
   MarkerCovers
PROPERTIES
  NothingDropped TimerDrains
CHECK_DEADLOCK FALSE

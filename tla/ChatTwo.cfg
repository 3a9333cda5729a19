SPECIFICATION Spec
CONSTANTS
  Chats <- TwoChats
  Cancels <- OneRequest
  MaxIterations = 1
  MaxTools = 0
  CycleAfter = 2
  MaxFaults = 1
  MaxDisconnects = 0
INVARIANTS
  CancelsNoOlder
CHECK_DEADLOCK FALSE

SPECIFICATION Spec
CONSTANTS
  Chats <- OneChat
  Cancels <- OneRequest
  MaxIterations = 2
  MaxTools = 1
  CycleAfter = 3
  MaxFaults = 0
  MaxDisconnects = 1
INVARIANTS
  TabCloseCancels
CHECK_DEADLOCK FALSE

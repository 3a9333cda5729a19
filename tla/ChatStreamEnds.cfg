SPECIFICATION Spec
CONSTANTS
  Chats <- OneChat
  Cancels <- OneRequest
  MaxIterations = 2
  MaxTools = 1
  CycleAfter = 3
  MaxFaults = 0
  MaxDisconnects = 0
PROPERTIES
  StreamTerminates
CHECK_DEADLOCK FALSE

SPECIFICATION Spec
CONSTANTS
  Chats <- OneChat
  Cancels <- Requests
  MaxIterations = 3
  MaxTools = 2
  CycleAfter = 2
  MaxFaults = 1
  MaxDisconnects = 1
INVARIANTS
  TypeOK TerminalTruthful NoCancelLost
PROPERTIES
  NoCallAfterCancel EveryRunEnds
CHECK_DEADLOCK FALSE

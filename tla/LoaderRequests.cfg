SPECIFICATION RequestSpec
CONSTANTS
  MaxAsks = 3
  Loads <- MCLoads
  NoLoad = NoLoad
INVARIANTS
  RequestTypeOK
  NoLostWakeup
  InOrder
  SupersededIsStopped
  StoppedHasCause
PROPERTIES
  NewestIsAnswered
  CloseEndsTheWorker
CHECK_DEADLOCK FALSE

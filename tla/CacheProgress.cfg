SPECIFICATION Spec
CONSTANTS
  file1 = file1
  Decoder = Decoder
  UI = UI
  Files = {file1}
  MaxQueue = 1
  MaxWrites = 1
  MaxOps = 3
  MaxFails = 1
PROPERTIES
  QueuedIsTaken
  CloseEndsTheSaving
CHECK_DEADLOCK FALSE

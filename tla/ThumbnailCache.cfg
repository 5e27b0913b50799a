SPECIFICATION Spec
CONSTANTS
  file1 = file1
  file2 = file2
  Decoder = Decoder
  UI = UI
  Files = {file1, file2}
  MaxQueue = 1
  MaxWrites = 2
  MaxOps = 4
  MaxFails = 1
INVARIANTS
  TypeOK
  RowsAreTrue
  FoundIsNotOlder
  QueuedIsRemembered
PROPERTIES
  UpdateKeepsTheFile
  SavedUnlessDisturbed
SYMMETRY FilesSymmetry
CHECK_DEADLOCK FALSE

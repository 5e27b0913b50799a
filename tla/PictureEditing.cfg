\* Two files, one undo entry kept when a third is added, boxes two deep.
CONSTANTS
  Paths = {a, b}
  NoPath = NoPath
  NoPicture = NoPicture
  MaxUndo = 1
  MaxDepth = 2
  MaxAnswers = 1
  MaxPictures = 5
  MaxOps = 4
SPECIFICATION Spec
SYMMETRY PathSymmetry
INVARIANTS
  TypeOK
  UndoChain
  PictureStays
PROPERTIES
  AskedBeforeLost
  HidesChanges
CHECK_DEADLOCK FALSE

\* The window closes without asking on a picture that is not what its file holds.
CONSTANTS
  Paths = {a, b}
  NoPath = NoPath
  NoPicture = NoPicture
  MaxUndo = 1
  MaxDepth = 1
  MaxAnswers = 1
  MaxPictures = 5
  MaxOps = 5
SPECIFICATION Spec
SYMMETRY PathSymmetry
PROPERTY ExitPrompts
CHECK_DEADLOCK FALSE

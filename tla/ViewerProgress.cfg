SPECIFICATION Spec
CONSTANTS
  a = a
  b = b
  c = c
  d = d
  Paths = {a, b, c, d}
  Good = {c, d}
  Folders <- FiveFolders
  FileName <- Names
  NoPath = NoPath
  NoLoad = NoLoad
  MaxOps = 2
PROPERTIES
  Settles
  UsesTheLoader
CHECK_DEADLOCK FALSE

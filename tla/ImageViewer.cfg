SPECIFICATION Spec
CONSTANTS
  a = a
  b = b
  c = c
  d = d
  Paths = {a, b, c, d}
  Good = {c, d}
  Folders <- FiveFolders
  FileName <- Names
  NoPath = NoPath
  NoLoad = NoLoad
  MaxOps = 3
INVARIANTS
  TypeOK
  LastRequestWins
PROPERTIES
  OvertakenIsIgnored
  PauseHolds
CHECK_DEADLOCK FALSE

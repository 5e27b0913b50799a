SPECIFICATION Spec
CONSTANTS
  root = root
  a = a
  b = b
  c = c
  Folders = {root, a, b, c}
  Root = root
  Parent <- MCParent
  MaxHistory = 4
  MaxSize = 2
  MaxOps = 7
INVARIANTS
  TypeOK
  HistoryShowsFolder
  BackReturns
  FavouritesDiffer
PROPERTIES
  ImplementsBrowserHistory
CHECK_DEADLOCK FALSE

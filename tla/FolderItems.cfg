SPECIFICATION Spec
CONSTANTS
  a = a
  b = b
  c = c
  r = r
  Files = {a, b, c}
  Results = {r}
  Orders = {"name", "size"}
  Rank <- MCRank
  None = None
  MaxOps = 3
INVARIANT
  TypeOK
PROPERTIES
  NothingVanishes
  FocusStays
CHECK_DEADLOCK FALSE

SPECIFICATION Spec
CONSTANTS
  a = a
  b = b
  c = c
  r = r
  Files = {a, b, c}
  Results = {r}
  Orders = {"name", "size"}
  Rank <- MCRank
  None = None
  MaxOps = 3
PROPERTY
  RenamesTheItemShown
CHECK_DEADLOCK FALSE

SPECIFICATION Spec
CONSTANTS
  a = a
  b = b
  p = p
  q = q
  every = every
  some = some
  Files = {a, b}
  Dirs = {p, q}
  Listing <- MCListing
  Tree <- MCTree
  Specs = {every, some}
  NoSpec = NoSpec
  Matching <- MCMatching
  MaxWrites = 1
  MaxOps = 2
PROPERTIES
  ThumbsArrive
  CloseEndsTheThread
CHECK_DEADLOCK FALSE

SPECIFICATION Spec
CONSTANTS
  Threads = {t1, t2, t3}
  Roles <- AtMostOneOther
  Writes <- AnyWrite
  Keys = {1, 2, 3}
  MaxHeight = 2
  Initial <- OneList
  ReadOps = {"get", "contains", "next", "prev", "first", "last", "iter"}
  ClearOverlaps = FALSE
  MaxSpurious = 0
  Head = head
  Null = null
INVARIANTS LinksSound NoUseAfterFree
SYMMETRY Symmetry
PROPERTY ImplementsSet

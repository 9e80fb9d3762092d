SPECIFICATION FairSpec
CONSTANTS
  Threads = {t1, t2}
  Roles <- AllWrite
  Writes <- AnyWrite
  Keys = {1, 2, 3}
  MaxHeight = 2
  Initial <- AllLists
  ReadOps = {}
  ClearOverlaps = FALSE
  MaxSpurious = 1
  Head = head
  Null = null
INVARIANTS LenCounts
PROPERTY CallsReturn

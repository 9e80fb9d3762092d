SPECIFICATION Spec
CONSTANTS
  Threads = {t1, t2, t3}
  Roles <- AllWrite
  Writes <- TwoInsertionsOneRemoval
  Keys = {1, 2}
  MaxHeight = 3
  Initial <- EmptyList
  ReadOps = {}
  ClearOverlaps = FALSE
  MaxSpurious = 0
  Head = head
  Null = null
INVARIANT LevelsSorted

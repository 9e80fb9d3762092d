SPECIFICATION FairSpec
CONSTANTS
  Threads = {t1, t2, t3}
  Nodes = {n1, n2}
  Threshold = 0
INVARIANTS SafeUnlessOvertaken GarbageOnce OneAdvance
PROPERTY AdvanceEnds

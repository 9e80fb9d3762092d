SPECIFICATION LockFairSpec
CONSTANTS
  LockUsers = {t1, t2, t3}
  Retries = {0, 1}
  UsizeMax = 3
  MaxLocks = 2
INVARIANTS MutualExclusion NoLostUpdate
PROPERTY WaitersGoOn
CHECK_DEADLOCK FALSE

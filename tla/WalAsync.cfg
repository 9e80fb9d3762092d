SPECIFICATION Spec
CONSTANTS
  MinBlock = 2
  MaxBlock = 4
  MaxBulk = 8
  DefaultBlock = 2
  DefaultBulk = 4
  Args <- SomeConfigs
  RotBlocks = 1
  ManiEntries = 2
  RingSize = 2
  MaxLsn = 2
  MaxAskedLsn = 1
  MaxOpens = 2
INVARIANTS KeptOnce StreamsWhole BlocksFit
CHECK_DEADLOCK FALSE

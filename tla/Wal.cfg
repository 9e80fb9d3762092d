SPECIFICATION Spec
CONSTANTS
  BlockUnits = 3
  BufBlocks = 2
  RotBlocks = 2
  ManiEntries = 2
  RingSize = 2
  Sizes = {1, 5}
  Advancers = {a1}
  MaxLsn = 3
  MaxOpens = 2
INVARIANTS Durable RotationNames NoReuse ReadBack
CHECK_DEADLOCK FALSE

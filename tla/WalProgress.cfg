SPECIFICATION FairSpec
CONSTANTS
  BlockUnits = 3
  BufBlocks = 2
  RotBlocks = 2
  ManiEntries = 2
  RingSize = 2
  Sizes = {1, 5}
  Advancers = {a1}
  MaxLsn = 2
  MaxOpens = 1
PROPERTY AppendedPersists
CHECK_DEADLOCK FALSE

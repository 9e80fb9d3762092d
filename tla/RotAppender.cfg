SPECIFICATION Spec
CONSTANTS
  MaxRots = {0, 1, 2, 3}
  RotSize = 2
  Sizes = {2}
  MaxAppends = 5
  MaxOpens = 2
INVARIANTS InOrder AckedKept WriterListed LimitKept
CHECK_DEADLOCK FALSE

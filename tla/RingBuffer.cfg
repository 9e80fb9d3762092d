\* Four tickets on two cells: every cell is used twice, with two threads on
\* each side, in all four combinations of the entry points.
SPECIFICATION FairSpec
CONSTANTS
  Producers = {p1, p2}
  Consumers = {c1, c2}
  Size = 2
  MaxCalls = 2
  None = None
INVARIANTS
  CapacityBound
  ExclusiveCell
  TicketDelivery
  RingInv
PROPERTIES
  ImplementsFifo
  EmptyIsJustified
  FullIsJustified
  EveryClaimServed

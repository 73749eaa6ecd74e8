SPECIFICATION MCSpec
CONSTANTS
  Producers = {p1}
  Consumers = {c1}
  Capacity = 3
  Order = {o1, o2}
  NoOrder = NoOrder
  MaxPushes = 6
INVARIANTS
  Fifo
  NoDataRace
  RingInv
PROPERTY ImplementsFifo

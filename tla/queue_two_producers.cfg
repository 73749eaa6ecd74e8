SPECIFICATION MCSpec
CONSTANTS
  Producers = {p1, p2}
  Consumers = {c1}
  Capacity = 3
  Order = {o1, o2}
  NoOrder = NoOrder
  MaxPushes = 2
INVARIANT NoneLost

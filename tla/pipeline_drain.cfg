SPECIFICATION Spec
CONSTANTS
  p1 = p1
  p2 = p2
  c1 = c1
  c2 = c2
  Producers = {p1}
  Consumers = {c1}
  Capacity = 3
  Setups <- DrainSetups
  MaxParallel = 1
  NoOrder = NoOrder
INVARIANT DrainedOnExit

SPECIFICATION Spec
CONSTANTS
  Client = {c1, c2, c3}
  Capacity = 1
  None = None
PROPERTY EveryoneServed

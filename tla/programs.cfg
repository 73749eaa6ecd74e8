SPECIFICATION MCSpec
CONSTANTS
  Shapes <- MCShapes
  Price = {100, 101, 102}
  Quantity = {0, 1}
  Filled = {30}
  OrderId = {1, 2}
  Threshold = 100
  Lot = 50
  None = None
  MaxEvents = 5
  Id = {o1, o2}
  LevelPrice = {1, 2}
  LevelQuantity = {1, 2}
  Size = 3
  ListSizes = {1, 2, 3, 4}
  MaxHandled = 9
  Producers = {p1, p2}
  Consumers = {c1, c2, c3}
  NUM_OPERATIONS = 4
INVARIANTS
  Multiplies
  BookIsLastUpdate
  SellsOncePerTop
  FillsAccounted
  CopiesMatch
  KeepsLatest
  BenchInv
  CountsAccount
CHECK_DEADLOCK FALSE

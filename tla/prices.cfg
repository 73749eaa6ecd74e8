SPECIFICATION MCSpec
CONSTANTS
  Client = {c1, c2}
  Price = {1, 2, 3, 4, 5, 6, 7}
  Capacity = 2
  MaxPrices = 4
  Name = Name
  None = None
INVARIANTS
  PriceInv
  HitOnce
  OrdersKnown
  SentOncePerOwner
PROPERTY ImplementsStreams

SPECIFICATION Spec
CONSTANTS
  PoolSize = 3
  Id = {0, 1, 2, 3}
  Symbol = {AAPL}
  Price = {1, 2}
  Quantity = {1, 2, 3}
  Unused = Unused
  NumTicks = 4
INVARIANTS
  EngineInv
  NotCrossedAtRest
  LeavesWhenFilled
  TimePriority
  WithinLimits
PROPERTIES
  MatchReturns
  FullPoolIsFinal

CONSTANTS
  o1 = o1
  o2 = o2
  o3 = o3
  None = None
  Orders <- Three
  Prices = {1, 2}
  Quantities = {1, 2}
  Times = {1, 2}
  Types <- BothTypes
SPECIFICATION Spec
CONSTRAINT InOrder
CHECK_DEADLOCK FALSE
INVARIANTS
  TypeOK
  Uncrossed
  QuantityAccounted
  WithinLimits
  PriceTimePriority
  OpenOrdersRest
PROPERTIES
  ImplementsExchange
  MatchingEnds

CONSTANTS
  o1 = o1
  o2 = o2
  o3 = o3
  c1 = c1
  c2 = c2
  None = None
  Orders = {o1, o2, o3}
  Cancels = {c1}
  Portfolios <- AllBooks
  FaultSets = {
    {"reorder", "duplicate", "dbfail", "cancelfail", "unknown", "offsetfail", "restart"},
    {"reorder", "dbfail", "cancelfail", "unknown", "offsetfail", "rebalance", "restart"},
    {"reorder", "duplicate", "dbfail", "cancelfail", "unknown", "offsetfail", "rebalance"},
    {"duplicate", "unknown", "offsetfail", "rebalance", "restart"},
    {"duplicate", "dbfail", "unknown"},
    {"dbfail", "cancelfail", "unknown"}}
  MaxLog = 3
SPECIFICATION Spec
CONSTRAINT Scenario
CHECK_DEADLOCK FALSE
INVARIANTS
  BookIsOpenRows
  OpenOrdersKept
  NoCommandLostUnlessFailed
  OneCancelEvent
PROPERTIES
  CancelledStays
  EffectOnce

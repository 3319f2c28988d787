CONSTANTS
  w1 = w1
  w2 = w2
  None = None
  Workers = {w1, w2}
  MaxEvents = 2
  Limit = 2
  MaxAttempts = 2
  MaxSends = 3
  FaultSets = {{"unordered", "writefail", "recordfail", "dlqfail"}, {"restart"}}
SPECIFICATION Spec
CHECK_DEADLOCK FALSE
INVARIANTS
  ClaimsExclusive
  SentOnce
PROPERTIES
  ImplementsEventBus
  EventsDelivered

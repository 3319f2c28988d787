CONSTANTS
  w1 = w1
  w2 = w2
  None = None
  Workers = {w1, w2}
  MaxEvents = 2
  Limit = 2
  MaxAttempts = 2
  MaxSends = 3
  FaultSets = {
    {"unordered", "writefail", "ackfail", "markfail", "recordfail", "dlqfail", "slow", "restart"}}
SPECIFICATION Spec
CHECK_DEADLOCK FALSE
SYMMETRY Alike
INVARIANTS
  TypeOK
  MarkedIsSent

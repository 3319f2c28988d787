SPECIFICATION Spec
CONSTANTS
  Decimals = 2
  MaxInt = 1023
  Requests <- MCRequests
  MaxHops = 3
  None = None
  Refused = Refused
INVARIANTS
  OrderIsRequest
  RefusedAtFirst
  CostIsExact
CHECK_DEADLOCK FALSE

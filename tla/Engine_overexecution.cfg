CONSTANTS
  o1 = o1
  o2 = o2
  o3 = o3
  c1 = c1
  c2 = c2
  None = None
  Orders = {o1, o2}
  Cancels = {c1}
  Portfolios <- Pairs
  FaultSets = {{"restart"}}
  MaxLog = 4
SPECIFICATION Spec
CHECK_DEADLOCK FALSE
INVARIANTS
  NoOverExecution

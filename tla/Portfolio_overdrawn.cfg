CONSTANTS
  o1 = o1
  o2 = o2
  o3 = o3
  o4 = o4
  u1 = u1
  u2 = u2
  u3 = u3
  u4 = u4
  None = None
  Users = {u1, u2, u3, u4}
  Orders = {o1, o2, o3, o4}
  Replicas = {r1}
  Portfolios <- TwoPairs
  Endowment <- MCEndowment
  FaultSets = {{}}
  Scale = 2
SPECIFICATION Spec
CHECK_DEADLOCK FALSE
INVARIANTS
  ReservedIsOwned

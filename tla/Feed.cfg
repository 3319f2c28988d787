SPECIFICATION Spec
CONSTANTS
  trades = trades
  orders = orders
  t1 = t1
  t2 = t2
  o1 = o1
  o2 = o2
  Clients = {c1, c2}
  Topics <- MCTopics
  Ids <- MCIds
  MaxBacks = 1
  Scenarios <- MCScenarios
INVARIANTS OfferedToAll InOrderOnce NeverUndercounts
PROPERTIES BrokenClientsLeave EventsMarked
CHECK_DEADLOCK FALSE

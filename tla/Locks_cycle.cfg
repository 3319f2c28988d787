SPECIFICATION Spec
CONSTANTS
  b1 = b1
  s1 = s1
  b2 = b2
  s2 = s2
  Buys = {b1, b2}
  Sells = {s1, s2}
  NumUsers = 2
  Owner <- MCOwner
  Trades <- MCTrades
  Settlers = {t1, t2}
  Releasers = {r1}
  Handlers = {h1}
  Engine = engine
INVARIANT NoDeadlock

------------------------------- MODULE Exchange -------------------------------
(***************************************************************************)
(* What the order book of one symbol promises, without heaps, loops,       *)
(* snapshots or undo: an order executes against the book in one indivisible *)
(* step, by price-time priority, or not at all; an open order can be       *)
(* cancelled in one step.  OrderBook implements this specification.        *)
(***************************************************************************)
EXTENDS Integers, Functions

CONSTANTS Orders, None, Prices, Quantities, Times, Types

VARIABLES orders, remaining, status, filled

vars == <<orders, remaining, status, filled>>

Order == [side : {"BUY", "SELL"}, type : Types, price : Prices,
          qty : Quantities, at : Times]

Open(m) == orders[m] # None /\ status[m] \in {"NEW", "PARTIALLY_FILLED"}

\* The open orders that order may trade with.
Resting(order) ==
  {m \in Orders : /\ Open(m)
                  /\ orders[m].side # order.side
                  /\ \/ order.type = "MARKET"
                     \/ order.side = "BUY"  /\ order.price >= orders[m].price
                     \/ order.side = "SELL" /\ order.price <= orders[m].price}

\* Better price first, then the earlier order.
Precedes(p, m) ==
  \/ orders[m].side = "BUY"  /\ orders[p].price > orders[m].price
  \/ orders[m].side = "SELL" /\ orders[p].price < orders[m].price
  \/ orders[p].price = orders[m].price /\ orders[p].at < orders[m].at

\* fill is what price-time priority may give order from the book: no more than
\* each resting order has left, as much as order asks for or the book offers,
\* and nothing from an order while one that precedes it has quantity left.
FairFill(order, fill) ==
  LET book  == Resting(order)
      total == SumFunctionOnSet(fill, book)
  IN /\ \A m \in Orders \ book : fill[m] = 0
     /\ \A m \in book : fill[m] <= remaining[m]
     /\ total <= order.qty
     /\ total < order.qty => \A m \in book : fill[m] = remaining[m]
     /\ \A p, m \in book : Precedes(p, m) /\ fill[m] > 0 => fill[p] = remaining[p]

\* The status of an order of quantity q that was asked to trade and has r left.
StatusOf(q, r) ==
  IF r = 0 THEN "FILLED" ELSE IF r < q THEN "PARTIALLY_FILLED" ELSE "NEW"

Init ==
  /\ orders    = [o \in Orders |-> None]
  /\ remaining = [o \in Orders |-> 0]
  /\ status    = [o \in Orders |-> "NEW"]
  /\ filled    = [o \in Orders |-> 0]

\* order trades with the book and, if it is a limit order, rests.
Execute(o, order) ==
  /\ orders[o] = None
  /\ orders' = [orders EXCEPT ![o] = order]
  /\ \E fill \in {f \in [Orders -> 0 .. order.qty] : FairFill(order, f)} :
       LET total == SumFunctionOnSet(fill, Resting(order))
           left  == IF order.type = "MARKET" THEN 0 ELSE order.qty - total
       IN /\ remaining' = [m \in Orders |-> IF m = o THEN left ELSE remaining[m] - fill[m]]
          /\ filled'    = [m \in Orders |-> IF m = o THEN total ELSE filled[m] + fill[m]]
          /\ status'    = [m \in Orders |->
                             IF m = o THEN StatusOf(order.qty, left)
                             ELSE IF fill[m] > 0
                               THEN StatusOf(orders[m].qty, remaining[m] - fill[m])
                             ELSE status[m]]

Cancel(o) ==
  /\ Open(o)
  /\ remaining' = [remaining EXCEPT ![o] = 0]
  /\ status'    = [status EXCEPT ![o] = "CANCELLED"]
  /\ UNCHANGED <<orders, filled>>

Next ==
  \/ \E o \in Orders, order \in Order : Execute(o, order)
  \/ \E o \in Orders : Cancel(o)

Spec == Init /\ [][Next]_vars

=============================================================================

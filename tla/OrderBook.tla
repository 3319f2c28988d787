------------------------------ MODULE OrderBook ------------------------------
(***************************************************************************)
(* The matching engine's memory for one symbol: the map me.orders and the  *)
(* two heaps of services/matching-engine/orderbook, at the granularity of  *)
(* one iteration of the matching loop.  The only goroutine that changes    *)
(* this memory is the order consumer, so between the snapshot it takes     *)
(* before a create command and the outcome of its transaction no other     *)
(* operation runs; a cancel command is bracketed in the same way.          *)
(*                                                                         *)
(* A heap holds pointers to the objects of me.orders, so it is modelled as *)
(* the set of the orders that are in it.  Cancelling zeroes the object and *)
(* leaves the pointer in its heap, where the loop drops it when it gets to *)
(* the top.                                                                *)
(***************************************************************************)
EXTENDS Integers, FiniteSets

CONSTANTS
  Orders,       \* order ids (uuid)
  None,         \* no order / no pending operation
  Prices,       \* limit prices in minor units
  Quantities,   \* order quantities in minor units, all positive
  Times,        \* values of created_at; two orders may share one
  Types         \* order types, a subset of {"LIMIT", "MARKET"}

ASSUME OrdersAssumption == IsFiniteSet(Orders)
ASSUME NumbersAssumption == /\ Prices \subseteq Nat
                            /\ Quantities \subseteq Nat \ {0}
                            /\ Times \subseteq Int

VARIABLES
  orders,       \* me.orders: the immutable part of each order, or None
  remaining,    \* RemainingQuantity of each order
  status,       \* Status of each order
  heap,         \* the orders whose pointer is in one of the two heaps
  phase,        \* what the consumer goroutine is doing
  taker,        \* the order ProcessOrder was called with, or None
  trades,       \* the trades this ProcessOrder has returned so far
  saved,        \* the SymbolSnapshot taken before ProcessOrder, or None
  undo,         \* the values CancelOrder returned, or None
  filled        \* history: quantity each order has traded in all

vars == <<orders, remaining, status, heap, phase, taker, trades, saved, undo,
          filled>>

Sides    == {"BUY", "SELL"}
Statuses == {"NEW", "PARTIALLY_FILLED", "FILLED", "CANCELLED"}
Order    == [side : Sides, type : Types, price : Prices, qty : Quantities, at : Times]
Trade    == [buy : Orders, sell : Orders, price : Prices, qty : Nat]
Snapshot == [remaining : [Orders -> Nat], status : [Orders -> Statuses],
             filled : [Orders -> Nat]]
Undo     == [id : Orders, remaining : Nat, status : Statuses]

ASSUME NoneAssumption == None \notin (Orders \cup Order \cup Snapshot \cup Undo)

-----------------------------------------------------------------------------
(* Heap order and matching condition *)

\* Mutants of Less: the earlier order first, and the better price alone.
LessByTime(p, o) == orders[p].at < orders[o].at
LessByPrice(p, o) ==
  IF orders[o].side = "BUY" THEN orders[p].price > orders[o].price
  ELSE orders[p].price < orders[o].price

\* MaxHeap.Less for two buys, MinHeap.Less for two sells.
Less(p, o) ==
  IF orders[p].price = orders[o].price THEN orders[p].at < orders[o].at
  ELSE IF orders[o].side = "BUY" THEN orders[p].price > orders[o].price
  ELSE orders[p].price < orders[o].price

\* The heap the loop reads: the resting orders on the other side.
Makers == {m \in heap : orders[m].side # orders[taker].side}

\* m may be element 0 of that heap: nothing in it is less than m.
IsTop(m) == m \in Makers /\ \A p \in Makers : ~ Less(p, m)

\* The incoming order accepts m's price; a market order accepts every price.
Crosses(m) ==
  \/ orders[taker].type = "MARKET"
  \/ orders[taker].side = "BUY"  /\ orders[taker].price >= orders[m].price
  \/ orders[taker].side = "SELL" /\ orders[taker].price <= orders[m].price

\* Mutant of Smaller: the comparison the wrong way round.
Larger(a, b) == IF a < b THEN b ELSE a

Smaller(a, b) == IF a < b THEN a ELSE b

\* Mutant of NewTrade: the incoming order sets the price.
TakerPriced(m, q) ==
  [buy   |-> IF orders[m].side = "SELL" THEN taker ELSE m,
   sell  |-> IF orders[m].side = "SELL" THEN m ELSE taker,
   price |-> orders[taker].price,
   qty   |-> q]

\* createTrade: buyer and seller by side, always at the resting order's price.
NewTrade(m, q) ==
  [buy   |-> IF orders[m].side = "SELL" THEN taker ELSE m,
   sell  |-> IF orders[m].side = "SELL" THEN m ELSE taker,
   price |-> orders[m].price,
   qty   |-> q]

\* updateOrderStatus, with r the remaining quantity of o.
StatusAfter(o, r) ==
  IF status[o] = "CANCELLED" THEN "CANCELLED"
  ELSE IF r <= 0 THEN "FILLED"
  ELSE IF r < orders[o].qty THEN "PARTIALLY_FILLED"
  ELSE "NEW"

\* The orders ProcessOrder reports as changed.
Changed == {taker} \cup {t.buy : t \in trades} \cup {t.sell : t \in trades}

Open(o) == orders[o] # None /\ status[o] \in {"NEW", "PARTIALLY_FILLED"}

-----------------------------------------------------------------------------
Init ==
  /\ orders    = [o \in Orders |-> None]
  /\ remaining = [o \in Orders |-> 0]
  /\ status    = [o \in Orders |-> "NEW"]
  /\ heap      = {}
  /\ phase     = "idle"
  /\ taker     = None
  /\ trades    = {}
  /\ saved     = None
  /\ undo      = None
  /\ filled    = [o \in Orders |-> 0]

\* SnapshotSymbol, then ProcessOrder up to the matching loop.  The command
\* carries a new order, with its whole quantity remaining.
Accept(o, order) ==
  /\ phase = "idle"
  /\ orders[o] = None
  /\ saved'     = [remaining |-> remaining, status |-> status, filled |-> filled]
  /\ orders'    = [orders EXCEPT ![o] = order]
  /\ remaining' = [remaining EXCEPT ![o] = order.qty]
  /\ phase'     = "matching"
  /\ taker'     = o
  /\ UNCHANGED <<status, heap, trades, undo, filled>>

\* One iteration that trades with the top of the other heap.
MatchTop(m) ==
  /\ phase = "matching"
  /\ remaining[taker] > 0
  /\ IsTop(m)
  /\ Crosses(m)
  /\ remaining[m] > 0
  /\ LET q == Smaller(remaining[taker], remaining[m]) IN
       /\ trades'    = trades \cup {NewTrade(m, q)}
       /\ remaining' = [remaining EXCEPT ![taker] = @ - q, ![m] = @ - q]
       /\ filled'    = [filled EXCEPT ![taker] = @ + q, ![m] = @ + q]
       /\ heap'      = IF remaining[m] = q THEN heap \ {m} ELSE heap
  /\ UNCHANGED <<orders, status, phase, taker, saved, undo>>

\* Mutant of PopEmpty: the loop continues without the Pop.
SkipEmpty(m) ==
  /\ phase = "matching"
  /\ remaining[taker] > 0
  /\ IsTop(m)
  /\ Crosses(m)
  /\ remaining[m] = 0
  /\ UNCHANGED vars

\* One iteration that finds an emptied order on top and pops it.
PopEmpty(m) ==
  /\ phase = "matching"
  /\ remaining[taker] > 0
  /\ IsTop(m)
  /\ Crosses(m)
  /\ remaining[m] = 0
  /\ heap' = heap \ {m}
  /\ UNCHANGED <<orders, remaining, status, phase, taker, trades, saved, undo, filled>>

\* Mutant of EndMatching: a market order rests like a limit order.
EndRestingAny ==
  /\ phase = "matching"
  /\ \/ remaining[taker] = 0
     \/ Makers = {}
     \/ \E m \in Makers : IsTop(m) /\ ~ Crosses(m)
  /\ heap'      = IF remaining[taker] > 0 THEN heap \cup {taker} ELSE heap
  /\ status'    = [o \in Orders |->
                     IF o \in Changed THEN StatusAfter(o, remaining[o]) ELSE status[o]]
  /\ phase'     = "applied"
  /\ UNCHANGED <<orders, remaining, taker, trades, saved, undo, filled>>

\* The loop ends: nothing left to fill, nothing left to fill it with, or the
\* best price does not cross.  A limit order rests with what remains, a market
\* order drops it, and every changed order gets its status.
EndMatching ==
  LET left == IF orders[taker].type = "MARKET" THEN 0 ELSE remaining[taker] IN
  /\ phase = "matching"
  /\ \/ remaining[taker] = 0
     \/ Makers = {}
     \/ \E m \in Makers : IsTop(m) /\ ~ Crosses(m)
  /\ remaining' = [remaining EXCEPT ![taker] = left]
  /\ heap'      = IF left > 0 THEN heap \cup {taker} ELSE heap
  /\ status'    = [o \in Orders |->
                     IF o \in Changed THEN StatusAfter(o, remaining'[o]) ELSE status[o]]
  /\ phase'     = "applied"
  /\ UNCHANGED <<orders, taker, trades, saved, undo, filled>>

\* The transaction that stores trades and orders has committed.
Persisted ==
  /\ phase = "applied"
  /\ phase'  = "idle"
  /\ taker'  = None
  /\ trades' = {}
  /\ saved'  = None
  /\ UNCHANGED <<orders, remaining, status, heap, undo, filled>>

\* Mutants of RestoreSymbol: a snapshot that kept pointers instead of copies,
\* and orders put back without their heap entries.
RestoreShared ==
  /\ phase = "applied"
  /\ orders'    = [orders EXCEPT ![taker] = None]
  /\ remaining' = [remaining EXCEPT ![taker] = 0]
  /\ status'    = [status EXCEPT ![taker] = "NEW"]
  /\ filled'    = saved.filled
  /\ heap'      = {o \in heap \ {taker} : remaining[o] > 0}
  /\ phase'     = "idle"
  /\ taker'     = None
  /\ trades'    = {}
  /\ saved'     = None
  /\ UNCHANGED undo

RestoreOrdersOnly ==
  /\ phase = "applied"
  /\ orders'    = [orders EXCEPT ![taker] = None]
  /\ remaining' = saved.remaining
  /\ status'    = saved.status
  /\ filled'    = saved.filled
  /\ heap'      = heap \ {taker}
  /\ phase'     = "idle"
  /\ taker'     = None
  /\ trades'    = {}
  /\ saved'     = None
  /\ UNCHANGED undo

\* The transaction failed: RestoreSymbol puts copies of the snapshot's orders
\* back and rebuilds both heaps from the open ones.
RestoreSymbol ==
  /\ phase = "applied"
  /\ orders'    = [orders EXCEPT ![taker] = None]
  /\ remaining' = saved.remaining
  /\ status'    = saved.status
  /\ filled'    = saved.filled
  /\ heap'      = {o \in Orders : /\ orders'[o] # None
                                  /\ remaining'[o] > 0
                                  /\ status'[o] \notin {"CANCELLED", "FILLED"}}
  /\ phase'     = "idle"
  /\ taker'     = None
  /\ trades'    = {}
  /\ saved'     = None
  /\ UNCHANGED undo

\* CancelOrder, called by the consumer for an order whose row is still open.
CancelOrder(o) ==
  /\ phase = "idle"
  /\ Open(o)
  /\ remaining[o] > 0
  /\ undo'      = [id |-> o, remaining |-> remaining[o], status |-> status[o]]
  /\ remaining' = [remaining EXCEPT ![o] = 0]
  /\ status'    = [status EXCEPT ![o] = "CANCELLED"]
  /\ phase'     = "cancelling"
  /\ UNCHANGED <<orders, heap, taker, trades, saved, filled>>

\* The cancellation is stored.
CancelPersisted ==
  /\ phase = "cancelling"
  /\ phase' = "idle"
  /\ undo'  = None
  /\ UNCHANGED <<orders, remaining, status, heap, taker, trades, saved, filled>>

\* Storing it failed: RestoreOrder writes the returned values back.
RestoreOrder ==
  /\ phase = "cancelling"
  /\ remaining' = [remaining EXCEPT ![undo.id] = undo.remaining]
  /\ status'    = [status EXCEPT ![undo.id] = undo.status]
  /\ phase'     = "idle"
  /\ undo'      = None
  /\ UNCHANGED <<orders, heap, taker, trades, saved, filled>>

Next ==
  \/ \E o \in Orders, order \in Order : Accept(o, order)
  \/ \E m \in Orders : MatchTop(m)
  \/ \E m \in Orders : PopEmpty(m)
  \/ EndMatching
  \/ Persisted
  \/ RestoreSymbol
  \/ \E o \in Orders : CancelOrder(o)
  \/ CancelPersisted
  \/ RestoreOrder

\* Go keeps running the loop's goroutine: an iteration that can be made is made.
Fairness ==
  /\ WF_vars(\E m \in Orders : MatchTop(m))
  /\ WF_vars(\E m \in Orders : PopEmpty(m))
  /\ WF_vars(EndMatching)

Spec == Init /\ [][Next]_vars /\ Fairness

-----------------------------------------------------------------------------
(* Properties *)

\* Every variable keeps its type.
TypeOK ==
  /\ orders    \in [Orders -> Order \cup {None}]
  /\ remaining \in [Orders -> Nat]
  /\ status    \in [Orders -> Statuses]
  /\ heap      \subseteq Orders
  /\ phase     \in {"idle", "matching", "applied", "cancelling"}
  /\ taker     \in Orders \cup {None}
  /\ trades    \subseteq Trade
  /\ filled    \in [Orders -> Nat]
  /\ saved     \in Snapshot \cup {None}
  /\ undo      \in Undo \cup {None}

\* p has priority over o by the rule the engine documents: better price first,
\* then the earlier order.
Precedes(p, o) ==
  \/ orders[o].side = "BUY"  /\ orders[p].price > orders[o].price
  \/ orders[o].side = "SELL" /\ orders[p].price < orders[o].price
  \/ orders[p].price = orders[o].price /\ orders[p].at < orders[o].at

\* The book is never crossed: a resting buy with quantity left is priced below
\* every resting sell with quantity left, whatever was cancelled, rolled back
\* or dropped lazily before.
Uncrossed ==
  \A b, s \in {o \in heap : remaining[o] > 0} :
     orders[b].side = "BUY" /\ orders[s].side = "SELL"
       => orders[b].price < orders[s].price

\* No order trades more than its quantity; a limit order that was not cancelled
\* accounts for all of it, traded or remaining.
QuantityAccounted ==
  \A o \in Orders : orders[o] # None =>
    /\ filled[o] + remaining[o] <= orders[o].qty
    /\ orders[o].type = "LIMIT" /\ status[o] # "CANCELLED"
         => filled[o] + remaining[o] = orders[o].qty

\* A trade is never at a price its buyer or its seller (if a limit order) did
\* not accept.
WithinLimits ==
  \A t \in trades :
    /\ orders[t.buy].type  = "LIMIT" => t.price <= orders[t.buy].price
    /\ orders[t.sell].type = "LIMIT" => t.price >= orders[t.sell].price

\* No trade-through: while an incoming order is being matched, and until its
\* trades are stored, no resting order with quantity left has priority over an
\* order the incoming one has traded with.
PriceTimePriority ==
  \A t \in trades : \A m \in {t.buy, t.sell} \ {taker} : \A p \in heap \ {taker} :
    remaining[p] > 0 /\ orders[p].side = orders[m].side => ~ Precedes(p, m)

\* No open order is lost from the book: whatever rolled back or was undone, an
\* order with quantity left is in a heap (or is the one being matched).
OpenOrdersRest ==
  \A o \in Orders \ {taker} : Open(o) /\ remaining[o] > 0 => o \in heap

\* Matching stops: the loop neither spins on an emptied order nor waits.
MatchingEnds == phase = "matching" ~> phase = "applied"

-----------------------------------------------------------------------------
(* The book as an exchange.  An order whose ProcessOrder is not yet          *)
(* persisted has not happened: the promised book is the one the snapshot     *)
(* kept, until the transaction ends.  Likewise a cancellation happens when   *)
(* it is stored.                                                             *)

Deciding == phase \in {"matching", "applied"}

promisedOrders    == IF Deciding THEN [orders EXCEPT ![taker] = None] ELSE orders
promisedRemaining == IF Deciding THEN saved.remaining
                     ELSE IF phase = "cancelling"
                       THEN [remaining EXCEPT ![undo.id] = undo.remaining]
                     ELSE remaining
promisedStatus    == IF Deciding THEN saved.status
                     ELSE IF phase = "cancelling"
                       THEN [status EXCEPT ![undo.id] = undo.status]
                     ELSE status
promisedFilled    == IF Deciding THEN saved.filled ELSE filled

Promised == INSTANCE Exchange WITH
  orders    <- promisedOrders,
  remaining <- promisedRemaining,
  status    <- promisedStatus,
  filled    <- promisedFilled

\* The book does what Exchange promises: an order's trades take effect all
\* together with the transaction that stores them, by price-time priority, or
\* not at all; a cancellation that could not be stored never happened.
ImplementsExchange == Promised!Spec
=============================================================================

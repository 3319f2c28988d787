--------------------------- MODULE OrderBookProofs ---------------------------
(***************************************************************************)
(* The safety of OrderBook for every set of orders, prices, quantities,    *)
(* creation times and order types: type correctness and the five safety    *)
(* invariants, from one inductive invariant, the refinement of Exchange,   *)
(* and what makes the matching loop end.                                   *)
(***************************************************************************)
EXTENDS OrderBook, SumTheorems

\* Which variables are in use in which phase.
Control ==
  /\ Deciding <=> taker # None
  /\ Deciding <=> saved # None
  /\ phase = "cancelling" <=> undo # None
  /\ Deciding => orders[taker] # None
  /\ ~ Deciding => trades = {}

\* An id without an order is blank, in the book and in the snapshot.
Blank ==
  \A o \in Orders :
    /\ orders[o] = None => remaining[o] = 0 /\ status[o] = "NEW" /\ filled[o] = 0
    /\ Deciding /\ (orders[o] = None \/ o = taker)
         => saved.remaining[o] = 0 /\ saved.status[o] = "NEW" /\ saved.filled[o] = 0

\* Quantity left means open and in a heap; the order being matched waits
\* outside, an order being cancelled is still inside.
Live ==
  /\ heap \subseteq {o \in Orders : orders[o] # None}
  /\ phase = "matching" => taker \notin heap
  /\ \A o \in Orders : remaining[o] > 0 => status[o] \in {"NEW", "PARTIALLY_FILLED"}
  /\ \A o \in Orders : remaining[o] > 0 /\ (o # taker \/ phase = "applied") => o \in heap
  /\ phase = "cancelling" => /\ undo.id \in heap
                             /\ undo.status \in {"NEW", "PARTIALLY_FILLED"}
  /\ Deciding => \A o \in Orders :
       saved.remaining[o] > 0 => saved.status[o] \in {"NEW", "PARTIALLY_FILLED"}

\* No two orders of S are crossed.
NotCrossed(S) ==
  \A b, s \in S : orders[b].side = "BUY" /\ orders[s].side = "SELL"
                    => orders[b].price < orders[s].price

\* The orders that could trade, those an undo would bring back included.
Reviving == {o \in heap : remaining[o] > 0 \/ (phase = "cancelling" /\ o = undo.id)}

NeverCrossed ==
  /\ NotCrossed(Reviving)
  /\ Deciding => NotCrossed({o \in Orders : saved.remaining[o] > 0})

\* o accounts for its quantity, having traded f, with r left and status st.
Accounts(o, f, r, st) ==
  /\ f + r <= orders[o].qty
  /\ orders[o].type = "LIMIT" /\ st # "CANCELLED" => f + r = orders[o].qty

AllAccount ==
  /\ \A o \in Orders : orders[o] # None =>
       /\ Accounts(o, filled[o], remaining[o], status[o])
       /\ Deciding /\ o # taker
            => Accounts(o, saved.filled[o], saved.remaining[o], saved.status[o])
  /\ phase = "cancelling"
       => Accounts(undo.id, filled[undo.id], undo.remaining, undo.status)

\* Each trade is between the taker and one order of the other side.
TradesOfTaker ==
  \A t \in trades :
    /\ taker \in {t.buy, t.sell}
    /\ t.buy # t.sell
    /\ orders[t.buy] # None /\ orders[t.buy].side = "BUY"
    /\ orders[t.sell] # None /\ orders[t.sell].side = "SELL"

IInv ==
  /\ TypeOK
  /\ Control
  /\ Blank
  /\ Live
  /\ NeverCrossed
  /\ AllAccount
  /\ TradesOfTaker
  /\ WithinLimits
  /\ PriceTimePriority

USE NoneAssumption, NumbersAssumption DEF Snapshot, Undo

-----------------------------------------------------------------------------
LEMMA InitIInv == Init => IInv
BY DEF Init, IInv, TypeOK, Control, Deciding, Blank, Live, NeverCrossed, NotCrossed,
       Reviving, AllAccount, TradesOfTaker, WithinLimits, PriceTimePriority, Statuses

\* Types survive every action.
LEMMA StepTypeOK == TypeOK /\ Control /\ Live /\ [Next]_vars => TypeOK'
<1> SUFFICES ASSUME TypeOK, Control, Live, [Next]_vars PROVE TypeOK'
  OBVIOUS
<1> USE DEF TypeOK, Control, Deciding, Statuses
<1>1. ASSUME NEW o \in Orders, NEW order \in Order, Accept(o, order) PROVE TypeOK'
  BY <1>1 DEF Accept, Order
<1>2. ASSUME NEW m \in Orders, MatchTop(m) PROVE TypeOK'
  <2>1. /\ taker \in Orders /\ m \in Orders /\ taker # m
        /\ orders[m] \in Order
    BY <1>2 DEF MatchTop, IsTop, Makers, Live
  <2> DEFINE q == Smaller(remaining[taker], remaining[m])
  <2>2. q \in Nat /\ remaining[taker] - q \in Nat /\ remaining[m] - q \in Nat
    BY <1>2, <2>1 DEF Smaller
  <2>3. NewTrade(m, q) \in Trade
    BY <2>1, <2>2 DEF NewTrade, Trade, Order
  <2>4. QED
    BY <1>2, <2>1, <2>2, <2>3 DEF MatchTop
<1>3. ASSUME NEW m \in Orders, PopEmpty(m) PROVE TypeOK'
  BY <1>3 DEF PopEmpty
<1>4. ASSUME EndMatching PROVE TypeOK'
  BY <1>4 DEF EndMatching, StatusAfter
<1>5. ASSUME Persisted PROVE TypeOK'
  BY <1>5 DEF Persisted
<1>6. ASSUME RestoreSymbol PROVE TypeOK'
  BY <1>6 DEF RestoreSymbol
<1>7. ASSUME NEW o \in Orders, CancelOrder(o) PROVE TypeOK'
  BY <1>7 DEF CancelOrder
<1>8. ASSUME CancelPersisted PROVE TypeOK'
  BY <1>8 DEF CancelPersisted
<1>9. ASSUME RestoreOrder PROVE TypeOK'
  BY <1>9 DEF RestoreOrder
<1>10. ASSUME UNCHANGED vars PROVE TypeOK'
  BY <1>10 DEF vars
<1>11. QED
  BY <1>1, <1>2, <1>3, <1>4, <1>5, <1>6, <1>7, <1>8, <1>9, <1>10 DEF Next

\* Control: which variables each phase uses depends on the phase alone.
LEMMA StepControl == TypeOK /\ Control /\ TypeOK' /\ [Next]_vars => Control'
<1> SUFFICES ASSUME TypeOK, Control, TypeOK', [Next]_vars PROVE Control'
  OBVIOUS
<1> USE DEF TypeOK, Control, Deciding
<1>1. ASSUME NEW o \in Orders, NEW order \in Order, Accept(o, order) PROVE Control'
  BY <1>1 DEF Accept
<1>2. ASSUME NEW m \in Orders, MatchTop(m) PROVE Control'
  BY <1>2 DEF MatchTop, IsTop, Makers, Smaller, NewTrade
<1>3. ASSUME NEW m \in Orders, PopEmpty(m) PROVE Control'
  BY <1>3 DEF PopEmpty, IsTop, Makers
<1>4. ASSUME EndMatching PROVE Control'
  BY <1>4 DEF EndMatching, StatusAfter, Changed, IsTop, Makers
<1>5. ASSUME Persisted PROVE Control'
  BY <1>5 DEF Persisted
<1>6. ASSUME RestoreSymbol PROVE Control'
  BY <1>6 DEF RestoreSymbol
<1>7. ASSUME NEW o \in Orders, CancelOrder(o) PROVE Control'
  BY <1>7 DEF CancelOrder, Open
<1>8. ASSUME CancelPersisted PROVE Control'
  BY <1>8 DEF CancelPersisted
<1>9. ASSUME RestoreOrder PROVE Control'
  BY <1>9 DEF RestoreOrder
<1>10. ASSUME UNCHANGED vars PROVE Control'
  BY <1>10 DEF vars
<1>11. QED
  BY <1>1, <1>2, <1>3, <1>4, <1>5, <1>6, <1>7, <1>8, <1>9, <1>10 DEF Next

\* Blank: RestoreSymbol leaves nothing of the order it takes back.
LEMMA StepBlank == TypeOK /\ Control /\ Blank /\ Live /\ TradesOfTaker /\ TypeOK' /\ [Next]_vars => Blank'
<1> SUFFICES ASSUME TypeOK, Control, Blank, Live, TradesOfTaker, TypeOK', [Next]_vars PROVE Blank'
  OBVIOUS
<1> USE DEF TypeOK, Control, Deciding, Blank, Live, TradesOfTaker
<1>1. ASSUME NEW o \in Orders, NEW order \in Order, Accept(o, order) PROVE Blank'
  BY <1>1 DEF Accept
<1>2. ASSUME NEW m \in Orders, MatchTop(m) PROVE Blank'
  BY <1>2 DEF MatchTop, IsTop, Makers, Smaller, NewTrade
<1>3. ASSUME NEW m \in Orders, PopEmpty(m) PROVE Blank'
  BY <1>3 DEF PopEmpty, IsTop, Makers
<1>4. ASSUME EndMatching PROVE Blank'
  BY <1>4 DEF EndMatching, StatusAfter, Changed, IsTop, Makers
<1>5. ASSUME Persisted PROVE Blank'
  BY <1>5 DEF Persisted
<1>6. ASSUME RestoreSymbol PROVE Blank'
  BY <1>6 DEF RestoreSymbol
<1>7. ASSUME NEW o \in Orders, CancelOrder(o) PROVE Blank'
  BY <1>7 DEF CancelOrder, Open
<1>8. ASSUME CancelPersisted PROVE Blank'
  BY <1>8 DEF CancelPersisted
<1>9. ASSUME RestoreOrder PROVE Blank'
  BY <1>9 DEF RestoreOrder
<1>10. ASSUME UNCHANGED vars PROVE Blank'
  BY <1>10 DEF vars
<1>11. QED
  BY <1>1, <1>2, <1>3, <1>4, <1>5, <1>6, <1>7, <1>8, <1>9, <1>10 DEF Next

\* Live: an order leaves its heap only when it has nothing left.
LEMMA StepLive == TypeOK /\ Control /\ Blank /\ Live /\ TradesOfTaker /\ TypeOK' /\ [Next]_vars => Live'
<1> SUFFICES ASSUME TypeOK, Control, Blank, Live, TradesOfTaker, TypeOK', [Next]_vars PROVE Live'
  OBVIOUS
<1> USE DEF TypeOK, Control, Deciding, Blank, Live, TradesOfTaker
<1>1. ASSUME NEW o \in Orders, NEW order \in Order, Accept(o, order) PROVE Live'
  BY <1>1 DEF Accept
<1>2. ASSUME NEW m \in Orders, MatchTop(m) PROVE Live'
  BY <1>2 DEF MatchTop, IsTop, Makers, Smaller, NewTrade
<1>3. ASSUME NEW m \in Orders, PopEmpty(m) PROVE Live'
  BY <1>3 DEF PopEmpty, IsTop, Makers
<1>4. ASSUME EndMatching PROVE Live'
  BY <1>4 DEF EndMatching, StatusAfter, Changed, IsTop, Makers
<1>5. ASSUME Persisted PROVE Live'
  BY <1>5 DEF Persisted
<1>6. ASSUME RestoreSymbol PROVE Live'
  BY <1>6 DEF RestoreSymbol
<1>7. ASSUME NEW o \in Orders, CancelOrder(o) PROVE Live'
  BY <1>7 DEF CancelOrder, Open
<1>8. ASSUME CancelPersisted PROVE Live'
  BY <1>8 DEF CancelPersisted
<1>9. ASSUME RestoreOrder PROVE Live'
  BY <1>9 DEF RestoreOrder
<1>10. ASSUME UNCHANGED vars PROVE Live'
  BY <1>10 DEF vars
<1>11. QED
  BY <1>1, <1>2, <1>3, <1>4, <1>5, <1>6, <1>7, <1>8, <1>9, <1>10 DEF Next

\* AllAccount: a trade moves quantity from remaining to filled on both sides,
\* and the snapshot and the undo record account for what they would restore.
LEMMA StepAccount == TypeOK /\ Control /\ Blank /\ Live /\ AllAccount /\ TypeOK' /\ [Next]_vars => AllAccount'
<1> SUFFICES ASSUME TypeOK, Control, Blank, Live, AllAccount, TypeOK', [Next]_vars PROVE AllAccount'
  OBVIOUS
<1> USE DEF TypeOK, Control, Deciding, Blank, Live, AllAccount, Accounts, Order
<1>1. ASSUME NEW o \in Orders, NEW order \in Order, Accept(o, order) PROVE AllAccount'
  BY <1>1 DEF Accept
<1>2. ASSUME NEW m \in Orders, MatchTop(m) PROVE AllAccount'
  BY <1>2 DEF MatchTop, IsTop, Makers, Smaller, NewTrade
<1>3. ASSUME NEW m \in Orders, PopEmpty(m) PROVE AllAccount'
  BY <1>3 DEF PopEmpty, IsTop, Makers
<1>4. ASSUME EndMatching PROVE AllAccount'
  BY <1>4 DEF EndMatching, StatusAfter, Changed, IsTop, Makers
<1>5. ASSUME Persisted PROVE AllAccount'
  BY <1>5 DEF Persisted
<1>6. ASSUME RestoreSymbol PROVE AllAccount'
  BY <1>6 DEF RestoreSymbol
<1>7. ASSUME NEW o \in Orders, CancelOrder(o) PROVE AllAccount'
  BY <1>7 DEF CancelOrder, Open
<1>8. ASSUME CancelPersisted PROVE AllAccount'
  BY <1>8 DEF CancelPersisted
<1>9. ASSUME RestoreOrder PROVE AllAccount'
  BY <1>9 DEF RestoreOrder
<1>10. ASSUME UNCHANGED vars PROVE AllAccount'
  BY <1>10 DEF vars
<1>11. QED
  BY <1>1, <1>2, <1>3, <1>4, <1>5, <1>6, <1>7, <1>8, <1>9, <1>10 DEF Next

\* TradesOfTaker: NewTrade gives buyer and seller their sides.
LEMMA StepTrades == TypeOK /\ Control /\ Live /\ TradesOfTaker /\ TypeOK' /\ [Next]_vars => TradesOfTaker'
<1> SUFFICES ASSUME TypeOK, Control, Live, TradesOfTaker, TypeOK', [Next]_vars PROVE TradesOfTaker'
  OBVIOUS
<1> USE DEF TypeOK, Control, Deciding, Live, TradesOfTaker, Order, Sides
<1>1. ASSUME NEW o \in Orders, NEW order \in Order, Accept(o, order) PROVE TradesOfTaker'
  BY <1>1 DEF Accept
<1>2. ASSUME NEW m \in Orders, MatchTop(m) PROVE TradesOfTaker'
  BY <1>2 DEF MatchTop, IsTop, Makers, Smaller, NewTrade
<1>3. ASSUME NEW m \in Orders, PopEmpty(m) PROVE TradesOfTaker'
  BY <1>3 DEF PopEmpty, IsTop, Makers
<1>4. ASSUME EndMatching PROVE TradesOfTaker'
  BY <1>4 DEF EndMatching, StatusAfter, Changed, IsTop, Makers
<1>5. ASSUME Persisted PROVE TradesOfTaker'
  BY <1>5 DEF Persisted
<1>6. ASSUME RestoreSymbol PROVE TradesOfTaker'
  BY <1>6 DEF RestoreSymbol
<1>7. ASSUME NEW o \in Orders, CancelOrder(o) PROVE TradesOfTaker'
  BY <1>7 DEF CancelOrder, Open
<1>8. ASSUME CancelPersisted PROVE TradesOfTaker'
  BY <1>8 DEF CancelPersisted
<1>9. ASSUME RestoreOrder PROVE TradesOfTaker'
  BY <1>9 DEF RestoreOrder
<1>10. ASSUME UNCHANGED vars PROVE TradesOfTaker'
  BY <1>10 DEF vars
<1>11. QED
  BY <1>1, <1>2, <1>3, <1>4, <1>5, <1>6, <1>7, <1>8, <1>9, <1>10 DEF Next

\* WithinLimits: the price is the resting order's, which crosses the taker's.
LEMMA StepLimits == TypeOK /\ Control /\ Live /\ TradesOfTaker /\ WithinLimits /\ TypeOK' /\ [Next]_vars => WithinLimits'
<1> SUFFICES ASSUME TypeOK, Control, Live, TradesOfTaker, WithinLimits, TypeOK', [Next]_vars PROVE WithinLimits'
  OBVIOUS
<1> USE DEF TypeOK, Control, Deciding, Live, TradesOfTaker, WithinLimits, Order, Sides, Trade
<1>1. ASSUME NEW o \in Orders, NEW order \in Order, Accept(o, order) PROVE WithinLimits'
  BY <1>1 DEF Accept
<1>2. ASSUME NEW m \in Orders, MatchTop(m) PROVE WithinLimits'
  BY <1>2 DEF MatchTop, IsTop, Makers, Smaller, NewTrade, Crosses
<1>3. ASSUME NEW m \in Orders, PopEmpty(m) PROVE WithinLimits'
  BY <1>3 DEF PopEmpty, IsTop, Makers
<1>4. ASSUME EndMatching PROVE WithinLimits'
  BY <1>4 DEF EndMatching, StatusAfter, Changed, IsTop, Makers
<1>5. ASSUME Persisted PROVE WithinLimits'
  BY <1>5 DEF Persisted
<1>6. ASSUME RestoreSymbol PROVE WithinLimits'
  BY <1>6 DEF RestoreSymbol
<1>7. ASSUME NEW o \in Orders, CancelOrder(o) PROVE WithinLimits'
  BY <1>7 DEF CancelOrder, Open
<1>8. ASSUME CancelPersisted PROVE WithinLimits'
  BY <1>8 DEF CancelPersisted
<1>9. ASSUME RestoreOrder PROVE WithinLimits'
  BY <1>9 DEF RestoreOrder
<1>10. ASSUME UNCHANGED vars PROVE WithinLimits'
  BY <1>10 DEF vars
<1>11. QED
  BY <1>1, <1>2, <1>3, <1>4, <1>5, <1>6, <1>7, <1>8, <1>9, <1>10 DEF Next

\* PriceTimePriority: the top of a heap has priority over all of it.
LEMMA StepPriority == TypeOK /\ Control /\ Live /\ TradesOfTaker /\ PriceTimePriority /\ TypeOK' /\ [Next]_vars => PriceTimePriority'
<1> SUFFICES ASSUME TypeOK, Control, Live, TradesOfTaker, PriceTimePriority, TypeOK', [Next]_vars PROVE PriceTimePriority'
  OBVIOUS
<1> USE DEF TypeOK, Control, Deciding, Live, TradesOfTaker, PriceTimePriority, Precedes, Order, Sides
<1>1. ASSUME NEW o \in Orders, NEW order \in Order, Accept(o, order) PROVE PriceTimePriority'
  BY <1>1 DEF Accept
<1>2. ASSUME NEW m \in Orders, MatchTop(m) PROVE PriceTimePriority'
  BY <1>2, SMTT(30) DEF MatchTop, IsTop, Makers, Smaller, NewTrade, Less
<1>3. ASSUME NEW m \in Orders, PopEmpty(m) PROVE PriceTimePriority'
  BY <1>3 DEF PopEmpty, IsTop, Makers
<1>4. ASSUME EndMatching PROVE PriceTimePriority'
  BY <1>4 DEF EndMatching, StatusAfter, Changed, IsTop, Makers
<1>5. ASSUME Persisted PROVE PriceTimePriority'
  BY <1>5 DEF Persisted
<1>6. ASSUME RestoreSymbol PROVE PriceTimePriority'
  BY <1>6 DEF RestoreSymbol
<1>7. ASSUME NEW o \in Orders, CancelOrder(o) PROVE PriceTimePriority'
  BY <1>7 DEF CancelOrder, Open
<1>8. ASSUME CancelPersisted PROVE PriceTimePriority'
  BY <1>8 DEF CancelPersisted
<1>9. ASSUME RestoreOrder PROVE PriceTimePriority'
  BY <1>9 DEF RestoreOrder
<1>10. ASSUME UNCHANGED vars PROVE PriceTimePriority'
  BY <1>10 DEF vars
<1>11. QED
  BY <1>1, <1>2, <1>3, <1>4, <1>5, <1>6, <1>7, <1>8, <1>9, <1>10 DEF Next

\* NeverCrossed: an order rests only when the best price of the other side
\* does not cross it, hence no price of that side does.
LEMMA StepNeverCrossed == TypeOK /\ Control /\ Blank /\ Live /\ NeverCrossed /\ TypeOK' /\ [Next]_vars => NeverCrossed'
<1> SUFFICES ASSUME TypeOK, Control, Blank, Live, NeverCrossed, TypeOK', [Next]_vars PROVE NeverCrossed'
  OBVIOUS
<1> USE DEF TypeOK, Control, Deciding, Blank, Live, NeverCrossed, NotCrossed, Reviving, Order, Sides
<1>1. ASSUME NEW o \in Orders, NEW order \in Order, Accept(o, order) PROVE NeverCrossed'
  BY <1>1 DEF Accept
<1>2. ASSUME NEW m \in Orders, MatchTop(m) PROVE NeverCrossed'
  BY <1>2 DEF MatchTop, IsTop, Makers, Smaller, NewTrade
<1>3. ASSUME NEW m \in Orders, PopEmpty(m) PROVE NeverCrossed'
  BY <1>3 DEF PopEmpty, IsTop, Makers
<1>4. ASSUME EndMatching PROVE NeverCrossed'
  <2> DEFINE rests == orders[taker].type # "MARKET" /\ remaining[taker] > 0
  <2>1. rests => \A p \in Makers : ~Crosses(p)
    BY <1>4 DEF EndMatching, IsTop, Makers, Less, Crosses
  <2>2. UNCHANGED <<orders, saved, undo>> /\ Deciding
    BY <1>4 DEF EndMatching
  <2>3. Reviving' \subseteq Reviving \cup {taker}
    BY <1>4 DEF EndMatching
  <2>4. taker \in Reviving' => rests \/ taker \in Reviving
    BY <1>4 DEF EndMatching
  <2>5. ASSUME rests
        PROVE  \A p \in Makers : IF orders[taker].side = "BUY"
                                THEN orders[taker].price < orders[p].price
                                ELSE orders[p].price < orders[taker].price
    BY <2>1, <2>5, <1>4 DEF EndMatching, Makers, Crosses
  <2>6. QED
    BY <2>2, <2>3, <2>4, <2>5, <1>4 DEF EndMatching, Makers
<1>5. ASSUME Persisted PROVE NeverCrossed'
  BY <1>5 DEF Persisted
<1>6. ASSUME RestoreSymbol PROVE NeverCrossed'
  BY <1>6 DEF RestoreSymbol
<1>7. ASSUME NEW o \in Orders, CancelOrder(o) PROVE NeverCrossed'
  BY <1>7 DEF CancelOrder, Open
<1>8. ASSUME CancelPersisted PROVE NeverCrossed'
  BY <1>8 DEF CancelPersisted
<1>9. ASSUME RestoreOrder PROVE NeverCrossed'
  BY <1>9 DEF RestoreOrder
<1>10. ASSUME UNCHANGED vars PROVE NeverCrossed'
  BY <1>10 DEF vars
<1>11. QED
  BY <1>1, <1>2, <1>3, <1>4, <1>5, <1>6, <1>7, <1>8, <1>9, <1>10 DEF Next

LEMMA StepIInv == IInv /\ [Next]_vars => IInv'
<1> SUFFICES ASSUME IInv, [Next]_vars PROVE IInv'
  OBVIOUS
<1>1. TypeOK'
  BY StepTypeOK DEF IInv
<1>2. Control' /\ Blank' /\ Live'
  BY <1>1, StepControl, StepBlank, StepLive DEF IInv
<1>3. AllAccount' /\ TradesOfTaker'
  BY <1>1, StepAccount, StepTrades DEF IInv
<1>4. WithinLimits' /\ PriceTimePriority' /\ NeverCrossed'
  BY <1>1, StepLimits, StepPriority, StepNeverCrossed DEF IInv
<1>5. QED
  BY <1>1, <1>2, <1>3, <1>4 DEF IInv

\* The inductive invariant holds in every reachable state of the book.
THEOREM Inductive == Spec => []IInv
BY InitIInv, StepIInv, PTL DEF Spec

-----------------------------------------------------------------------------
\* The variables keep their types: matching never takes a remaining quantity
\* below zero, and a rollback never restores anything but a snapshot.
THEOREM TypeCorrect == Spec => []TypeOK
<1>1. IInv => TypeOK
  BY DEF IInv
<1>2. QED
  BY <1>1, Inductive, PTL

\* Whatever is matched, cancelled, rolled back and undone, no resting buy and
\* sell with quantity left cross (orderbook.go, matchBuyOrder, matchSellOrder).
THEOREM BookUncrossed == Spec => []Uncrossed
<1>1. IInv => Uncrossed
  BY DEF IInv, NeverCrossed, NotCrossed, Reviving, Uncrossed
<1>2. QED
  BY <1>1, Inductive, PTL

\* No order is over-filled, and an order that was not cancelled has traded or
\* still holds all of its quantity, through any rollback of the engine.
THEOREM NothingOverfilled == Spec => []QuantityAccounted
<1>1. IInv => QuantityAccounted
  BY DEF IInv, AllAccount, Accounts, QuantityAccounted
<1>2. QED
  BY <1>1, Inductive, PTL

\* createTrade never prices a trade outside the limit of its buyer or seller.
THEOREM PricesWithinLimits == Spec => []WithinLimits
<1>1. IInv => WithinLimits
  BY DEF IInv
<1>2. QED
  BY <1>1, Inductive, PTL

\* The heaps' order and the lazy removal of emptied orders give price-time
\* priority: nothing with priority over a traded order is left behind.
THEOREM NoTradeThrough == Spec => []PriceTimePriority
<1>1. IInv => PriceTimePriority
  BY DEF IInv
<1>2. QED
  BY <1>1, Inductive, PTL

\* RestoreSymbol and RestoreOrder lose no open order from the heaps.
THEOREM NoOrderLost == Spec => []OpenOrdersRest
<1>1. IInv => OpenOrdersRest
  BY DEF IInv, Live, OpenOrdersRest
<1>2. QED
  BY <1>1, Inductive, PTL

-----------------------------------------------------------------------------
(* The book implements Exchange *)

\* What each order has given to the taker since the snapshot.
Given == [m \in Orders |-> IF m = taker THEN 0 ELSE saved.remaining[m] - remaining[m]]

\* The orders of the other side whose price the taker accepts.
Opposite(m) == orders[m] # None /\ orders[m].side # orders[taker].side /\ Crosses(m)

\* Since the snapshot only the trades have changed the resting orders, and their
\* statuses only when the loop had ended.
SinceSnapshot ==
  Deciding => \A m \in Orders \ {taker} :
    /\ Given[m] \in Nat
    /\ filled[m] = saved.filled[m] + Given[m]
    /\ Given[m] > 0 <=> m \in Changed
    /\ Given[m] > 0 => Opposite(m)
    /\ status[m] = IF phase = "applied" /\ Given[m] > 0
                     THEN Promised!StatusOf(orders[m].qty, remaining[m])
                   ELSE saved.status[m]

\* The taker has what the others gave; it is filled, or they have nothing left.
TakerAccounts ==
  Deciding =>
    /\ filled[taker] = SumFunctionOnSet(Given, Orders)
    /\ filled[taker] <= orders[taker].qty
    /\ phase = "matching" => /\ filled[taker] + remaining[taker] = orders[taker].qty
                             /\ status[taker] = "NEW"
    /\ phase = "applied" =>
         /\ remaining[taker] = IF orders[taker].type = "MARKET" THEN 0
                               ELSE orders[taker].qty - filled[taker]
         /\ status[taker] = Promised!StatusOf(orders[taker].qty, remaining[taker])
         /\ filled[taker] < orders[taker].qty =>
              \A m \in Orders \ {taker} : Opposite(m) => remaining[m] = 0

Undoing == phase = "cancelling" => remaining[undo.id] = 0 /\ status[undo.id] = "CANCELLED"

RefInv == IInv /\ SinceSnapshot /\ TakerAccounts /\ Undoing

LEMMA InitRef == Init => SinceSnapshot /\ TakerAccounts /\ Undoing
BY DEF Init, SinceSnapshot, TakerAccounts, Undoing, Deciding

\* The snapshot is taken before anything is given.
LEMMA AcceptRef ==
  ASSUME RefInv, NEW o \in Orders, NEW order \in Order, Accept(o, order)
  PROVE  SinceSnapshot' /\ TakerAccounts' /\ Undoing'
<1> USE DEF IInv, TypeOK, Control, Deciding
<1>1. /\ TypeOK /\ Control /\ Blank /\ TypeOK'
      /\ phase = "idle" /\ phase' = "matching" /\ taker' = o /\ taker' # None
      /\ saved' = [remaining |-> remaining, status |-> status, filled |-> filled]
      /\ orders' = [orders EXCEPT ![o] = order] /\ orders[o] = None
      /\ remaining' = [remaining EXCEPT ![o] = order.qty]
      /\ UNCHANGED <<status, trades, filled>> /\ trades = {}
  BY StepTypeOK DEF RefInv, Accept, Next
<1>2. Given' = [m \in Orders |-> 0]
  <2>1. \A m \in Orders : Given'[m] = 0
    BY <1>1 DEF Given
  <2>2. Given' = [m \in Orders |-> Given'[m]]
    BY DEF Given
  <2>3. QED
    BY <2>1, <2>2
<1>3. Changed' = {o}
  BY <1>1 DEF Changed
<1>4. SinceSnapshot'
  BY <1>1, <1>2, <1>3 DEF SinceSnapshot
<1>5. TakerAccounts'
  <2>1. SumFunctionOnSet(Given', Orders) = 0
    BY <1>2, OrdersAssumption, SumZero
  <2>2. filled[o] = 0 /\ status[o] = "NEW"
    BY <1>1 DEF Blank
  <2>3. order.qty \in Nat
    BY DEF Order
  <2>4. QED
    BY <1>1, <2>1, <2>2, <2>3 DEF TakerAccounts
<1>6. QED
  BY <1>1, <1>4, <1>5 DEF Undoing

\* A trade moves the same quantity from the top of the heap to the taker.
LEMMA MatchRef ==
  ASSUME RefInv, NEW m \in Orders, MatchTop(m)
  PROVE  SinceSnapshot' /\ TakerAccounts' /\ Undoing'
<1> DEFINE q == Smaller(remaining[taker], remaining[m])
<1>1. /\ TypeOK /\ Control /\ Live /\ TypeOK'
      /\ Deciding /\ Deciding' /\ phase = "matching" /\ phase' = "matching"
      /\ UNCHANGED <<orders, status, taker, saved>>
      /\ saved \in Snapshot /\ orders[taker] \in Order
      /\ taker \in Orders /\ m # taker /\ orders[m] # None
  BY StepTypeOK DEF RefInv, IInv, TypeOK, Control, Deciding, Live, MatchTop, IsTop, Makers, Next
<1>2. q \in Nat /\ q > 0 /\ q <= remaining[taker] /\ q <= remaining[m]
  BY <1>1 DEF MatchTop, Smaller, TypeOK
<1>3. /\ remaining' = [remaining EXCEPT ![taker] = @ - q, ![m] = @ - q]
      /\ filled' = [filled EXCEPT ![taker] = @ + q, ![m] = @ + q]
      /\ trades' = trades \cup {NewTrade(m, q)}
      /\ Opposite(m)
  BY <1>1 DEF MatchTop, IsTop, Makers, Opposite
<1> HIDE DEF q
<1>4. /\ remaining \in [Orders -> Nat] /\ filled \in [Orders -> Nat]
      /\ saved.remaining \in [Orders -> Nat]
  BY <1>1 DEF TypeOK, Snapshot
<1>5. /\ remaining'[taker] = remaining[taker] - q /\ filled'[taker] = filled[taker] + q
      /\ \A x \in Orders \ {taker} :
           /\ remaining'[x] = IF x = m THEN remaining[x] - q ELSE remaining[x]
           /\ filled'[x] = IF x = m THEN filled[x] + q ELSE filled[x]
           /\ Given'[x] = IF x = m THEN Given[x] + q ELSE Given[x]
      /\ Given'[taker] = 0 /\ Given[taker] = 0
  <2>1. remaining'[taker] = remaining[taker] - q /\ filled'[taker] = filled[taker] + q
    BY <1>1, <1>3, <1>4
  <2>2. ASSUME NEW x \in Orders \ {taker}
        PROVE  /\ remaining'[x] = IF x = m THEN remaining[x] - q ELSE remaining[x]
               /\ filled'[x] = IF x = m THEN filled[x] + q ELSE filled[x]
    <3>1. CASE x = m
      BY <1>1, <1>3, <1>4, <3>1
    <3>2. CASE x # m
      BY <1>1, <1>3, <1>4, <3>2
    <3>3. QED
      BY <3>1, <3>2
  <2>3. Given'[taker] = 0 /\ Given[taker] = 0
    BY <1>1 DEF Given
  <2>4. ASSUME NEW x \in Orders \ {taker}
        PROVE  Given'[x] = IF x = m THEN Given[x] + q ELSE Given[x]
    <3>1. /\ Given'[x] = saved.remaining[x] - remaining'[x]
          /\ Given[x] = saved.remaining[x] - remaining[x]
      BY <1>1 DEF Given
    <3>2. remaining[x] \in Nat /\ saved.remaining[x] \in Nat
      BY <1>4
    <3>3. QED
      BY <1>2, <2>2, <3>1, <3>2
  <2>5. QED
    BY <2>1, <2>2, <2>3, <2>4
<1>6. Changed' = Changed \cup {m}
  <2>1. {NewTrade(m, q).buy, NewTrade(m, q).sell} = {taker, m}
    BY DEF NewTrade
  <2>2. QED
    BY <1>1, <1>3, <2>1 DEF Changed
<1>7. \A x \in Orders : Opposite(x)' <=> Opposite(x)
  BY <1>1 DEF Opposite, Crosses
<1>8. \A x \in Orders \ {taker} :
        /\ Given[x] \in Nat /\ filled[x] = saved.filled[x] + Given[x]
        /\ Given[x] > 0 <=> x \in Changed
        /\ Given[x] > 0 => Opposite(x)
        /\ status[x] = saved.status[x]
  BY <1>1 DEF RefInv, SinceSnapshot
<1>9. SinceSnapshot'
  <2>1. saved.filled \in [Orders -> Nat]
    BY <1>1 DEF Snapshot
  <2>2. \A x \in Orders \ {taker} :
          /\ Given'[x] \in Nat
          /\ filled'[x] = saved.filled[x] + Given'[x]
          /\ Given'[x] > 0 <=> x \in Changed'
          /\ Given'[x] > 0 => Opposite(x)'
    BY <1>2, <1>3, <1>4, <1>5, <1>6, <1>7, <1>8, <2>1
  <2>3. QED
    BY <1>1, <1>8, <2>2 DEF SinceSnapshot
<1>10. TakerAccounts'
  <2>1. \A x \in Orders : Given[x] \in Int /\ Given'[x] \in Int
    BY <1>2, <1>5, <1>8
  <2>2. SumFunctionOnSet(Given', Orders) = SumFunctionOnSet(Given, Orders) - Given[m] + Given'[m]
    <3>1. Values(Given, Orders) /\ Values(Given', Orders)
      BY <2>1 DEF Values
    <3>2. \A x \in Orders \ {m} : Given[x] = Given'[x]
      BY <1>5
    <3>3. QED
      BY <3>1, <3>2, OrdersAssumption, SumChange
  <2>3. SumFunctionOnSet(Given, Orders) \in Int
    BY <2>1, OrdersAssumption, SumInt DEF Values
  <2>4. /\ filled[taker] = SumFunctionOnSet(Given, Orders)
        /\ filled[taker] + remaining[taker] = orders[taker].qty
        /\ status[taker] = "NEW"
    BY <1>1 DEF RefInv, TakerAccounts
  <2>5. filled'[taker] = SumFunctionOnSet(Given', Orders)
    BY <1>1, <1>5, <2>1, <2>2, <2>3, <2>4, <1>2
  <2>6. orders[taker].qty \in Nat
    BY <1>1 DEF Order
  <2>7. /\ filled'[taker] + remaining'[taker] = orders[taker].qty
        /\ filled'[taker] <= orders[taker].qty
    BY <1>1, <1>2, <1>4, <1>5, <2>4, <2>6
  <2>8. QED
    BY <1>1, <2>4, <2>5, <2>7 DEF TakerAccounts
<1>11. QED
  BY <1>1, <1>9, <1>10 DEF Undoing

\* Dropping an emptied order changes no quantity.
LEMMA PopRef ==
  ASSUME RefInv, NEW m \in Orders, PopEmpty(m)
  PROVE  SinceSnapshot' /\ TakerAccounts' /\ Undoing'
<1>1. /\ UNCHANGED <<orders, remaining, status, phase, taker, trades, saved, filled>>
      /\ phase = "matching"
  BY DEF PopEmpty
<1>2. Given' = Given /\ Changed' = Changed /\ Deciding' = Deciding
  BY <1>1 DEF Given, Changed, Deciding
<1>3. \A x \in Orders : Opposite(x)' <=> Opposite(x)
  BY <1>1 DEF Opposite, Crosses
<1>4. SinceSnapshot'
  BY <1>1, <1>2, <1>3 DEF RefInv, SinceSnapshot
<1>5. TakerAccounts'
  BY <1>1, <1>2, <1>3 DEF RefInv, TakerAccounts
<1>6. QED
  BY <1>1, <1>4, <1>5 DEF Undoing

\* The loop ends when the order is filled or nothing it accepts is left, and
\* the orders that gave something get their status.
LEMMA EndRef ==
  ASSUME RefInv, EndMatching
  PROVE  SinceSnapshot' /\ TakerAccounts' /\ Undoing'
<1> DEFINE left == IF orders[taker].type = "MARKET" THEN 0 ELSE remaining[taker]
<1>1. /\ TypeOK /\ Control /\ Live /\ TypeOK'
      /\ Deciding /\ Deciding' /\ phase = "matching" /\ phase' = "applied"
      /\ UNCHANGED <<orders, taker, trades, saved, filled>>
      /\ saved \in Snapshot /\ orders[taker] \in Order /\ taker \in Orders
  BY StepTypeOK DEF RefInv, IInv, TypeOK, Control, Deciding, EndMatching, Next
<1>2. /\ remaining' = [remaining EXCEPT ![taker] = left]
      /\ status' = [o \in Orders |->
                      IF o \in Changed THEN StatusAfter(o, remaining'[o]) ELSE status[o]]
  BY DEF EndMatching
<1> HIDE DEF left
<1>3. /\ remaining \in [Orders -> Nat] /\ filled \in [Orders -> Nat]
      /\ saved.remaining \in [Orders -> Nat] /\ saved.status \in [Orders -> Statuses]
  BY <1>1 DEF TypeOK, Snapshot
<1>4. /\ remaining'[taker] = left
      /\ \A x \in Orders \ {taker} : remaining'[x] = remaining[x]
  BY <1>1, <1>2, <1>3
<1>5. Given' = Given
  BY <1>1, <1>4 DEF Given
<1>6. Changed' = Changed
  BY <1>1 DEF Changed
<1>7. \A x \in Orders : Opposite(x)' <=> Opposite(x)
  BY <1>1 DEF Opposite, Crosses
<1>8. \A x \in Orders \ {taker} :
        /\ Given[x] \in Nat /\ filled[x] = saved.filled[x] + Given[x]
        /\ Given[x] > 0 <=> x \in Changed
        /\ Given[x] > 0 => Opposite(x)
        /\ status[x] = saved.status[x]
  BY <1>1 DEF RefInv, SinceSnapshot
<1>9. SinceSnapshot'
  <2>1. ASSUME NEW x \in Orders \ {taker}
        PROVE  status'[x] = IF Given[x] > 0 THEN Promised!StatusOf(orders[x].qty, remaining[x])
                            ELSE saved.status[x]
    <3>1. CASE Given[x] > 0
      <4>1. x \in Changed /\ Given[x] = saved.remaining[x] - remaining[x]
        BY <1>8, <3>1 DEF Given
      <4>2. saved.remaining[x] > 0 /\ remaining[x] \in Nat
        BY <1>3, <3>1, <4>1
      <4>3. status[x] # "CANCELLED"
        BY <1>1, <1>8, <4>2 DEF Live
      <4>4. status'[x] = StatusAfter(x, remaining[x])
        BY <1>2, <1>4, <4>1
      <4>5. QED
        BY <3>1, <4>2, <4>3, <4>4 DEF StatusAfter, Promised!StatusOf
    <3>2. CASE ~ (Given[x] > 0)
      BY <1>2, <1>8, <3>2
    <3>3. QED
      BY <3>1, <3>2
  <2>2. QED
    BY <1>1, <1>4, <1>5, <1>6, <1>7, <1>8, <2>1 DEF SinceSnapshot
<1>10. TakerAccounts'
  <2>1. /\ filled[taker] = SumFunctionOnSet(Given, Orders)
        /\ filled[taker] <= orders[taker].qty
        /\ filled[taker] + remaining[taker] = orders[taker].qty
        /\ status[taker] = "NEW"
    BY <1>1 DEF RefInv, TakerAccounts
  <2>2. orders[taker].qty \in Nat /\ filled[taker] \in Nat /\ remaining[taker] \in Nat
    BY <1>1, <1>3 DEF Order
  <2>3. remaining'[taker] = IF orders[taker].type = "MARKET" THEN 0
                            ELSE orders[taker].qty - filled[taker]
    BY <1>4, <2>1, <2>2 DEF left
  <2>4. status'[taker] = Promised!StatusOf(orders[taker].qty, remaining'[taker])
    <3>1. status'[taker] = StatusAfter(taker, remaining'[taker])
      BY <1>1, <1>2 DEF Changed
    <3>2. remaining'[taker] \in Nat
      BY <1>1 DEF TypeOK
    <3>3. QED
      BY <2>1, <3>1, <3>2 DEF StatusAfter, Promised!StatusOf
  <2>5. ASSUME filled[taker] < orders[taker].qty, NEW x \in Orders \ {taker}, Opposite(x)
        PROVE  remaining[x] = 0
    <3>1. remaining[taker] # 0
      BY <2>1, <2>2, <2>5
    <3>2. CASE Makers = {}
      <4>1. x \notin heap
        BY <2>5, <3>2 DEF Makers, Opposite
      <4>2. QED
        BY <1>1, <1>3, <4>1 DEF Live
    <3>3. ASSUME NEW p \in Makers, IsTop(p), ~ Crosses(p)
          PROVE  remaining[x] = 0
      <4>1. x \notin Makers
        <5>1. ASSUME x \in Makers PROVE FALSE
          <6>1. ~ Less(x, p) /\ p \in heap /\ x \in heap /\ Crosses(x)
            BY <2>5, <3>3, <5>1 DEF IsTop, Makers, Opposite
          <6>2. /\ orders[x] \in Order /\ orders[p] \in Order
                /\ orders[x].side # orders[taker].side /\ orders[p].side # orders[taker].side
            BY <1>1, <5>1, <6>1 DEF Makers, Live, TypeOK
          <6>3. QED
            BY <1>1, <3>3, <6>1, <6>2 DEF Less, Crosses, Order, Sides
        <5>2. QED
          BY <5>1
      <4>2. x \notin heap
        BY <2>5, <4>1 DEF Makers, Opposite
      <4>3. QED
        BY <1>1, <1>3, <4>2 DEF Live
    <3>4. QED
      BY <3>1, <3>2, <3>3 DEF EndMatching
  <2>6. filled'[taker'] = SumFunctionOnSet(Given', Orders)
    BY <1>1, <1>5, <2>1
  <2>7. \A x \in Orders \ {taker'} :
          filled'[taker'] < orders'[taker'].qty /\ Opposite(x)' => remaining'[x] = 0
    BY <1>1, <1>4, <1>7, <2>5
  <2>8. QED
    BY <1>1, <2>1, <2>3, <2>4, <2>6, <2>7 DEF TakerAccounts
<1>11. QED
  BY <1>1, <1>9, <1>10 DEF Undoing

LEMMA InductiveRef == RefInv /\ [Next]_vars => RefInv'
<1> SUFFICES ASSUME RefInv, [Next]_vars
             PROVE  SinceSnapshot' /\ TakerAccounts' /\ Undoing'
  BY StepIInv DEF RefInv
<1>1. ASSUME NEW o \in Orders, NEW order \in Order, Accept(o, order)
      PROVE  SinceSnapshot' /\ TakerAccounts' /\ Undoing'
  BY <1>1, AcceptRef
<1>2. ASSUME NEW m \in Orders, MatchTop(m)
      PROVE  SinceSnapshot' /\ TakerAccounts' /\ Undoing'
  BY <1>2, MatchRef
<1>3. ASSUME NEW m \in Orders, PopEmpty(m)
      PROVE  SinceSnapshot' /\ TakerAccounts' /\ Undoing'
  BY <1>3, PopRef
<1>4. ASSUME EndMatching
      PROVE  SinceSnapshot' /\ TakerAccounts' /\ Undoing'
  BY <1>4, EndRef
<1>5. ASSUME Persisted \/ RestoreSymbol \/ CancelPersisted \/ RestoreOrder
      PROVE  SinceSnapshot' /\ TakerAccounts' /\ Undoing'
  BY <1>5 DEF Persisted, RestoreSymbol, CancelPersisted, RestoreOrder, SinceSnapshot,
              TakerAccounts, Undoing, Deciding
<1>6. ASSUME NEW o \in Orders, CancelOrder(o)
      PROVE  SinceSnapshot' /\ TakerAccounts' /\ Undoing'
  <2>1. TypeOK
    BY DEF RefInv, IInv
  <2>2. Undoing'
    BY <1>6, <2>1 DEF CancelOrder, Undoing, TypeOK
  <2>3. QED
    BY <1>6, <2>2 DEF CancelOrder, SinceSnapshot, TakerAccounts, Deciding
<1>7. ASSUME UNCHANGED vars
      PROVE  SinceSnapshot' /\ TakerAccounts' /\ Undoing'
  <2>1. Given' = Given /\ Changed' = Changed /\ Deciding' = Deciding
    BY <1>7 DEF vars, Given, Changed, Deciding
  <2>2. \A x \in Orders : Opposite(x)' <=> Opposite(x)
    BY <1>7 DEF vars, Opposite, Crosses
  <2>3. QED
    BY <1>7, <2>1, <2>2 DEF vars, RefInv, SinceSnapshot, TakerAccounts, Undoing
<1>8. QED
  BY <1>1, <1>2, <1>3, <1>4, <1>5, <1>6, <1>7 DEF Next

LEMMA SameSum ==
  ASSUME NEW f, NEW S
  PROVE  Promised!SumFunctionOnSet(f, S) = SumFunctionOnSet(f, S)
BY DEF Promised!SumFunctionOnSet, Promised!FoldFunctionOnSet, Promised!MapThenFoldSet,
       SumFunctionOnSet, FoldFunctionOnSet, MapThenFoldSet

\* Matching, a rollback and a cancellation that is not stored promise nothing.
LEMMA Hidden ==
  ASSUME RefInv,
         \/ \E o \in Orders, order \in Order : Accept(o, order)
         \/ \E m \in Orders : MatchTop(m) \/ PopEmpty(m)
         \/ EndMatching \/ RestoreSymbol \/ RestoreOrder
         \/ \E o \in Orders : CancelOrder(o)
         \/ UNCHANGED vars
  PROVE  UNCHANGED Promised!vars
<1>1. TypeOK /\ Control
  BY DEF RefInv, IInv
<1> USE DEF Promised!vars, promisedOrders, promisedRemaining, promisedStatus,
            promisedFilled, Deciding
<1>2. ASSUME NEW o \in Orders, NEW order \in Order, Accept(o, order)
      PROVE  UNCHANGED Promised!vars
  BY <1>1, <1>2 DEF Accept, TypeOK
<1>3. ASSUME NEW m \in Orders, MatchTop(m) \/ PopEmpty(m)
      PROVE  UNCHANGED Promised!vars
  BY <1>3 DEF MatchTop, PopEmpty
<1>4. CASE EndMatching
  BY <1>4 DEF EndMatching
<1>5. CASE RestoreSymbol
  BY <1>5 DEF RestoreSymbol
<1>6. CASE RestoreOrder
  BY <1>6 DEF RestoreOrder
<1>7. ASSUME NEW o \in Orders, CancelOrder(o)
      PROVE  UNCHANGED Promised!vars
  BY <1>1, <1>7 DEF CancelOrder, TypeOK
<1>8. CASE UNCHANGED vars
  BY <1>8 DEF vars
<1>9. QED
  BY <1>2, <1>3, <1>4, <1>5, <1>6, <1>7, <1>8

\* What the orders have given when the loop ends is what price-time priority
\* may give the incoming order from the promised book.
LEMMA GivenIsFair ==
  ASSUME RefInv, phase = "applied"
  PROVE  /\ Given \in [Orders -> 0 .. orders[taker].qty]
         /\ Promised!FairFill(orders[taker], Given)
         /\ filled[taker] = Promised!SumFunctionOnSet(Given, Promised!Resting(orders[taker]))
<1> DEFINE book == Promised!Resting(orders[taker])
           total == filled[taker]
<1>1. /\ TypeOK /\ Live /\ TradesOfTaker /\ Deciding /\ taker \in Orders
      /\ saved \in Snapshot /\ orders[taker] \in Order /\ taker # None
  BY DEF RefInv, IInv, TypeOK, Control, Deciding
<1>2. /\ promisedOrders[taker] = None
      /\ \A m \in Orders \ {taker} : promisedOrders[m] = orders[m]
      /\ promisedRemaining = saved.remaining /\ promisedStatus = saved.status
  BY <1>1 DEF promisedOrders, promisedRemaining, promisedStatus, TypeOK
<1>3. /\ remaining \in [Orders -> Nat] /\ saved.remaining \in [Orders -> Nat]
      /\ orders[taker].qty \in Nat
  BY <1>1 DEF TypeOK, Snapshot, Order
<1>4. /\ Given[taker] = 0
      /\ \A m \in Orders \ {taker} : Given[m] = saved.remaining[m] - remaining[m]
  BY <1>1 DEF Given
<1>5. /\ total = SumFunctionOnSet(Given, Orders) /\ total <= orders[taker].qty
      /\ total < orders[taker].qty =>
           \A m \in Orders \ {taker} : Opposite(m) => remaining[m] = 0
  BY <1>1 DEF RefInv, TakerAccounts
<1>6. \A m \in Orders \ {taker} :
        /\ Given[m] \in Nat
        /\ Given[m] > 0 <=> m \in Changed
        /\ Given[m] > 0 => Opposite(m)
  BY <1>1 DEF RefInv, SinceSnapshot
<1>7. \A m \in Orders : Given[m] \in Nat
  BY <1>4, <1>6
<1>8. \A m \in book : m \in Orders \ {taker} /\ Opposite(m)
  BY <1>1, <1>2 DEF Promised!Resting, Promised!Open, Opposite, Crosses
<1>9. ASSUME NEW m \in Orders \ book PROVE Given[m] = 0
  <2>1. ASSUME m # taker, Given[m] > 0 PROVE FALSE
    <3>1. saved.remaining[m] > 0
      BY <1>3, <1>4, <2>1
    <3>2. saved.status[m] \in {"NEW", "PARTIALLY_FILLED"}
      BY <1>1, <3>1 DEF Live
    <3>3. Opposite(m)
      BY <1>6, <2>1
    <3>4. m \in book
      BY <1>2, <2>1, <3>2, <3>3 DEF Promised!Resting, Promised!Open, Opposite, Crosses
    <3>5. QED
      BY <3>4
  <2>2. QED
    BY <1>4, <1>7, <2>1
<1> HIDE DEF book
<1>10. total = SumFunctionOnSet(Given, book)
  <2>1. book \in SUBSET Orders /\ Values(Given, book)
    BY <1>7, <1>8 DEF Values
  <2>2. QED
    BY <1>5, <1>9, <2>1, OrdersAssumption, SumSupport
<1>11. Given \in [Orders -> 0 .. orders[taker].qty]
  <2>1. total \in Nat /\ \A m \in Orders : Given[m] <= total
    BY <1>5, <1>7, OrdersAssumption, SumNat
  <2>2. \A m \in Orders : Given[m] \in 0 .. orders[taker].qty
    BY <1>3, <1>5, <1>7, <2>1
  <2>3. Given = [m \in Orders |-> Given[m]]
    BY DEF Given
  <2>4. QED
    BY <2>2, <2>3
<1>12. ASSUME NEW m \in book PROVE Given[m] <= saved.remaining[m]
  BY <1>3, <1>4, <1>8
<1>13. ASSUME total < orders[taker].qty, NEW m \in book
       PROVE  Given[m] = saved.remaining[m]
  BY <1>3, <1>4, <1>5, <1>8, <1>13
<1>14. ASSUME NEW p \in book, NEW m \in book, Promised!Precedes(p, m), Given[m] > 0
       PROVE  Given[p] = saved.remaining[p]
  <2>1. /\ p \in Orders \ {taker} /\ m \in Orders \ {taker}
        /\ Opposite(p) /\ Opposite(m)
    BY <1>8
  <2>2. PICK t \in trades : m \in {t.buy, t.sell}
    BY <1>6, <1>14, <2>1 DEF Changed
  <2>3. Precedes(p, m)
    BY <1>2, <1>14, <2>1 DEF Promised!Precedes, Precedes
  <2>4. /\ orders[p] \in Order /\ orders[m] \in Order
        /\ orders[p].side # orders[taker].side /\ orders[m].side # orders[taker].side
    BY <1>1, <2>1 DEF TypeOK, Opposite
  <2>5. orders[p].side = orders[m].side
    BY <1>1, <2>4 DEF Order, Sides
  <2>6. remaining[p] = 0
    <3>1. ASSUME remaining[p] > 0 PROVE FALSE
      <4>1. p \in heap \ {taker}
        BY <1>1, <2>1, <3>1 DEF Live
      <4>2. m \in {t.buy, t.sell} \ {taker}
        BY <2>1, <2>2
      <4>3. ~ Precedes(p, m)
        BY <2>5, <3>1, <4>1, <4>2 DEF RefInv, IInv, PriceTimePriority
      <4>4. QED
        BY <2>3, <4>3
    <3>2. QED
      BY <1>3, <2>1, <3>1
  <2>7. QED
    BY <1>3, <1>4, <2>1, <2>6
<1>15. Promised!FairFill(orders[taker], Given)
  <2>1. Promised!SumFunctionOnSet(Given, book) = total
    BY <1>10, SameSum
  <2>2. QED
    BY <1>2, <1>5, <1>9, <1>12, <1>13, <1>14, <2>1 DEF Promised!FairFill, book
<1>16. QED
  BY <1>10, <1>11, <1>15, SameSum DEF book

\* The commit is the step in which the incoming order executes.
LEMMA PersistedExecutes ==
  ASSUME RefInv, Persisted
  PROVE  Promised!Execute(taker, orders[taker])
<1> DEFINE order == orders[taker]
           left == IF order.type = "MARKET" THEN 0 ELSE order.qty - filled[taker]
<1>1. /\ phase = "applied" /\ phase' = "idle"
      /\ UNCHANGED <<orders, remaining, status, filled>>
  BY DEF Persisted
<1>2. /\ TypeOK /\ Deciding /\ taker \in Orders /\ taker # None /\ saved \in Snapshot
  BY <1>1 DEF RefInv, IInv, TypeOK, Control, Deciding
<1>3. /\ promisedOrders = [orders EXCEPT ![taker] = None]
      /\ promisedRemaining = saved.remaining /\ promisedStatus = saved.status
      /\ promisedFilled = saved.filled
      /\ promisedOrders' = orders /\ promisedRemaining' = remaining
      /\ promisedStatus' = status /\ promisedFilled' = filled
  BY <1>1, <1>2 DEF promisedOrders, promisedRemaining, promisedStatus, promisedFilled, Deciding
<1>4. /\ Given \in [Orders -> 0 .. order.qty] /\ Promised!FairFill(order, Given)
      /\ filled[taker] = Promised!SumFunctionOnSet(Given, Promised!Resting(order))
  BY <1>1, GivenIsFair
<1>5. promisedOrders[taker] = None /\ promisedOrders' = [promisedOrders EXCEPT ![taker] = order]
  BY <1>2, <1>3 DEF TypeOK
<1>6. /\ remaining[taker] = left /\ status[taker] = Promised!StatusOf(order.qty, left)
  BY <1>1, <1>2 DEF RefInv, TakerAccounts
<1>7. /\ remaining \in [Orders -> Nat] /\ saved.remaining \in [Orders -> Nat]
      /\ filled \in [Orders -> Nat] /\ status \in [Orders -> Statuses]
  BY <1>2 DEF TypeOK, Snapshot
<1>8. ASSUME NEW m \in Orders \ {taker}
      PROVE  /\ remaining[m] = saved.remaining[m] - Given[m]
             /\ filled[m] = saved.filled[m] + Given[m]
             /\ status[m] = IF Given[m] > 0
                              THEN Promised!StatusOf(promisedOrders[m].qty, saved.remaining[m] - Given[m])
                            ELSE saved.status[m]
  <2>1. Given[m] = saved.remaining[m] - remaining[m]
    BY DEF Given
  <2>2. remaining[m] = saved.remaining[m] - Given[m]
    BY <1>7, <2>1
  <2>3. promisedOrders[m] = orders[m]
    BY <1>2, <1>3 DEF TypeOK
  <2>4. QED
    BY <1>1, <1>2, <2>2, <2>3 DEF RefInv, SinceSnapshot
<1> HIDE DEF order, left
<1>9. remaining = [m \in Orders |-> IF m = taker THEN left ELSE saved.remaining[m] - Given[m]]
  BY <1>6, <1>7, <1>8
<1>10. filled = [m \in Orders |-> IF m = taker THEN filled[taker] ELSE saved.filled[m] + Given[m]]
  BY <1>7, <1>8
<1>11. status = [m \in Orders |->
                   IF m = taker THEN Promised!StatusOf(order.qty, left)
                   ELSE IF Given[m] > 0
                     THEN Promised!StatusOf(promisedOrders[m].qty, saved.remaining[m] - Given[m])
                   ELSE saved.status[m]]
  BY <1>6, <1>7, <1>8
<1>12. Promised!Execute(taker, order)
  <2> DEFINE total == Promised!SumFunctionOnSet(Given, Promised!Resting(order))
             rest == IF order.type = "MARKET" THEN 0 ELSE order.qty - total
  <2>1. total = filled[taker] /\ rest = left
    BY <1>4 DEF left
  <2>2. Given \in {f \in [Orders -> 0 .. order.qty] : Promised!FairFill(order, f)}
    BY <1>4
  <2> HIDE DEF total
  <2>3. /\ promisedRemaining' =
             [m \in Orders |-> IF m = taker THEN rest ELSE promisedRemaining[m] - Given[m]]
        /\ promisedFilled' =
             [m \in Orders |-> IF m = taker THEN total ELSE promisedFilled[m] + Given[m]]
        /\ promisedStatus' =
             [m \in Orders |->
                IF m = taker THEN Promised!StatusOf(order.qty, rest)
                ELSE IF Given[m] > 0
                  THEN Promised!StatusOf(promisedOrders[m].qty, promisedRemaining[m] - Given[m])
                ELSE promisedStatus[m]]
    <3> HIDE DEF rest
    <3>1. promisedRemaining' =
            [m \in Orders |-> IF m = taker THEN rest ELSE promisedRemaining[m] - Given[m]]
      BY <1>3, <1>9, <2>1
    <3>2. promisedFilled' =
            [m \in Orders |-> IF m = taker THEN total ELSE promisedFilled[m] + Given[m]]
      BY <1>3, <1>10, <2>1
    <3>3. promisedStatus' =
            [m \in Orders |->
               IF m = taker THEN Promised!StatusOf(order.qty, rest)
               ELSE IF Given[m] > 0
                 THEN Promised!StatusOf(promisedOrders[m].qty, promisedRemaining[m] - Given[m])
               ELSE promisedStatus[m]]
      BY <1>3, <1>11, <2>1
    <3>4. QED
      BY <3>1, <3>2, <3>3
  <2>4. QED
    BY <1>5, <2>2, <2>3, Zenon DEF Promised!Execute, total
<1>13. QED
  BY <1>12 DEF order

\* A cancellation that is stored is the step in which the order is cancelled.
LEMMA StoredCancels ==
  ASSUME RefInv, CancelPersisted
  PROVE  undo.id \in Orders /\ Promised!Cancel(undo.id)
<1>1. /\ phase = "cancelling" /\ phase' = "idle"
      /\ UNCHANGED <<orders, remaining, status, filled>>
  BY DEF CancelPersisted
<1>2. /\ TypeOK /\ undo \in Undo /\ undo.id \in Orders /\ orders[undo.id] # None
      /\ undo.status \in {"NEW", "PARTIALLY_FILLED"}
      /\ remaining[undo.id] = 0 /\ status[undo.id] = "CANCELLED"
  BY <1>1 DEF RefInv, IInv, TypeOK, Control, Live, Undoing
<1>3. /\ promisedOrders = orders /\ promisedFilled = filled
      /\ promisedRemaining = [remaining EXCEPT ![undo.id] = undo.remaining]
      /\ promisedStatus = [status EXCEPT ![undo.id] = undo.status]
      /\ promisedOrders' = orders /\ promisedRemaining' = remaining
      /\ promisedStatus' = status /\ promisedFilled' = filled
  BY <1>1 DEF promisedOrders, promisedRemaining, promisedStatus, promisedFilled, Deciding
<1>4. /\ remaining = [promisedRemaining EXCEPT ![undo.id] = 0]
      /\ status = [promisedStatus EXCEPT ![undo.id] = "CANCELLED"]
      /\ promisedStatus[undo.id] = undo.status
  BY <1>2, <1>3 DEF TypeOK
<1>5. QED
  BY <1>2, <1>3, <1>4 DEF Promised!Cancel, Promised!Open

LEMMA StepRefines ==
  ASSUME RefInv, [Next]_vars
  PROVE  [Promised!Next]_(Promised!vars)
<1>1. CASE Persisted
  <2>1. taker \in Orders /\ orders[taker] \in Order
    BY <1>1 DEF Persisted, RefInv, IInv, TypeOK, Control, Deciding
  <2>2. orders[taker] \in Promised!Order
    BY <2>1 DEF Order, Sides, Promised!Order
  <2>3. QED
    BY <1>1, <2>1, <2>2, PersistedExecutes DEF Promised!Next
<1>2. CASE CancelPersisted
  BY <1>2, StoredCancels DEF Promised!Next
<1>3. CASE ~ Persisted /\ ~ CancelPersisted
  BY <1>3, Hidden DEF Next
<1>4. QED
  BY <1>1, <1>2, <1>3

\* The heaps, the loop, the snapshot and the undo record together do what
\* Exchange promises: an order executes in one step by price-time priority when
\* its transaction commits, or never (ProcessOrder, RestoreSymbol, CancelOrder,
\* RestoreOrder).
THEOREM BookImplementsExchange == Spec => ImplementsExchange
<1>1. Init => Promised!Init
  BY DEF Init, Promised!Init, promisedOrders, promisedRemaining, promisedStatus,
         promisedFilled, Deciding
<1>2. Init => RefInv
  BY InitIInv, InitRef DEF RefInv
<1>3. QED
  BY <1>1, <1>2, InductiveRef, StepRefines, PTL DEF Spec, ImplementsExchange, Promised!Spec

-----------------------------------------------------------------------------
(* The matching loop.  That it ends needs fairness and is left to TLC; what  *)
(* makes it end is safety: it always has an iteration to make or a reason to *)
(* stop, and every iteration leaves less to do.                              *)

\* The guards of the three actions of the loop, of which one holds.
LoopGoesOn ==
  phase = "matching" =>
    \/ \E m \in Orders : remaining[taker] > 0 /\ IsTop(m) /\ Crosses(m)
    \/ remaining[taker] = 0
    \/ Makers = {}
    \/ \E m \in Makers : IsTop(m) /\ ~ Crosses(m)

\* What the loop still has to do: a quantity to fill and heaps to drain.
LeftToDo == remaining[taker] + Cardinality(heap)

\* An iteration trades a positive quantity or removes an order from its heap.
IterationsEnd == phase = "matching" /\ phase' = "matching" => LeftToDo' < LeftToDo

\* A heap that is not empty has a top: Less is a strict order on it.
LEMMA HeapHasTop ==
  ASSUME IInv, phase = "matching", Makers # {}
  PROVE  \E m \in Makers : IsTop(m)
<1> DEFINE R == {w \in Makers \X Makers : Less(w[1], w[2])}
<1>1. /\ Makers \subseteq Orders
      /\ \A m \in Makers : orders[m] \in Order
      /\ \A m, p \in Makers : orders[m].side = orders[p].side
  BY DEF IInv, TypeOK, Control, Deciding, Live, Makers, Order, Sides
<1>2. \A m \in Makers : orders[m].price \in Int /\ orders[m].at \in Int
  BY <1>1 DEF Order
<1>3. IsFiniteSet(Makers)
  BY <1>1, OrdersAssumption, FS_Subset
<1>4. \A x \in Makers : ~ Less(x, x)
  BY <1>2 DEF Less
<1>5. ASSUME NEW x \in Makers, NEW y \in Makers, NEW z \in Makers, Less(x, y), Less(y, z)
      PROVE  Less(x, z)
  BY <1>1, <1>2, <1>5 DEF Less
<1>6. \A x \in Makers : <<x, x>> \notin R
  BY <1>4
<1>7. \A x, y, z \in Makers : <<x, y>> \in R /\ <<y, z>> \in R => <<x, z>> \in R
  BY <1>5
<1> HIDE DEF R
<1>8. PICK m \in Makers : \A p \in Makers : <<p, m>> \notin R
  BY <1>3, <1>6, <1>7, MinimalElement
<1>9. \A p \in Makers : ~ Less(p, m)
  BY <1>8 DEF R
<1>10. QED
  BY <1>9 DEF IsTop

LEMMA IterationShrinks ==
  ASSUME IInv, [Next]_vars, ~ UNCHANGED vars
  PROVE  IterationsEnd
<1> SUFFICES ASSUME phase = "matching", phase' = "matching" PROVE LeftToDo' < LeftToDo
  BY DEF IterationsEnd
<1>1. taker \in Orders /\ heap \subseteq Orders /\ taker \notin heap
  BY DEF IInv, TypeOK, Control, Deciding, Live
<1>2. IsFiniteSet(heap) /\ Cardinality(heap) \in Nat
  BY <1>1, OrdersAssumption, FS_Subset, FS_CardinalityType
<1>3. remaining \in [Orders -> Nat]
  BY DEF IInv, TypeOK
<1>4. ASSUME NEW m \in Orders
      PROVE  /\ Cardinality(heap \ {m}) \in Nat
             /\ Cardinality(heap \ {m}) <= Cardinality(heap)
             /\ m \in heap => Cardinality(heap \ {m}) < Cardinality(heap)
  BY <1>2, FS_RemoveElement, FS_CardinalityType
<1>5. ASSUME NEW m \in Orders, MatchTop(m) PROVE LeftToDo' < LeftToDo
  <2>1. m \in heap /\ m # taker /\ taker' = taker
    BY <1>1, <1>5 DEF MatchTop, IsTop, Makers
  <2>2. PICK q : q = Smaller(remaining[taker], remaining[m])
    OBVIOUS
  <2>3. q \in Nat /\ 0 < q /\ q <= remaining[taker]
    BY <1>1, <1>3, <1>5, <2>2 DEF MatchTop, Smaller
  <2>4. remaining' = [remaining EXCEPT ![taker] = @ - q, ![m] = @ - q]
    BY <1>5, <2>2 DEF MatchTop
  <2>5. remaining'[taker] = remaining[taker] - q
    BY <1>1, <1>3, <2>1, <2>4
  <2>6. heap' = heap \/ heap' = heap \ {m}
    BY <1>5 DEF MatchTop
  <2>7. Cardinality(heap') \in Nat /\ Cardinality(heap') <= Cardinality(heap)
    BY <1>2, <1>4, <2>6
  <2>8. remaining[taker] \in Nat
    BY <1>1, <1>3
  <2>9. QED
    BY <1>2, <2>1, <2>3, <2>5, <2>7, <2>8 DEF LeftToDo
<1>6. ASSUME NEW m \in Orders, PopEmpty(m) PROVE LeftToDo' < LeftToDo
  <2>1. m \in heap /\ heap' = heap \ {m} /\ taker' = taker /\ remaining' = remaining
    BY <1>6 DEF PopEmpty, IsTop, Makers
  <2>2. remaining[taker] \in Nat
    BY <1>1, <1>3
  <2>3. QED
    BY <1>2, <1>4, <2>1, <2>2 DEF LeftToDo
<1>7. QED
  BY <1>5, <1>6
     DEF Next, Accept, EndMatching, Persisted, RestoreSymbol, CancelOrder, CancelPersisted,
         RestoreOrder

\* The loop is never stuck on a book it can neither use nor leave: as long as
\* it runs, there is a top order to trade with or to drop, or a reason to stop
\* (matchBuyOrder and matchSellOrder, whose heaps order by Less).
THEOREM LoopNeverStuck == Spec => []LoopGoesOn
<1>1. IInv => LoopGoesOn
  <2> SUFFICES ASSUME IInv, phase = "matching", remaining[taker] # 0, Makers # {}
               PROVE  \/ \E m \in Orders : remaining[taker] > 0 /\ IsTop(m) /\ Crosses(m)
                      \/ \E m \in Makers : IsTop(m) /\ ~ Crosses(m)
    BY DEF LoopGoesOn
  <2>1. PICK m \in Makers : IsTop(m)
    BY HeapHasTop
  <2>2. remaining[taker] \in Nat /\ m \in Orders
    BY DEF IInv, TypeOK, Control, Deciding, Makers
  <2>3. CASE Crosses(m)
    BY <2>1, <2>2, <2>3
  <2>4. CASE ~ Crosses(m)
    BY <2>1, <2>4
  <2>5. QED
    BY <2>3, <2>4
<1>2. QED
  BY <1>1, Inductive, PTL

\* No iteration is wasted: each one leaves less quantity to fill or fewer
\* orders in the heaps, so the loop makes at most remaining + |heap| of them;
\* this is where dropping an emptied order from the top matters.
THEOREM IterationsAreBounded == Spec => [][IterationsEnd]_vars
<1>1. IInv /\ [Next]_vars => [IterationsEnd]_vars
  BY IterationShrinks
<1>2. QED
  BY <1>1, Inductive, PTL DEF Spec
=============================================================================

--------------------------- MODULE PortfolioProofs ---------------------------
(***************************************************************************)
(* Safety of reservation and settlement for every set of users, orders and *)
(* replicas, every endowment and every choice of orders and faults: the    *)
(* types, the cover of open orders, the release of final ones, and the     *)
(* sums: the ledger and what the orders of a user reserve together.        *)
(***************************************************************************)
EXTENDS Portfolio, SumTheorems

\* An event is about stored orders, a trade between a buy and a sell, and a
\* cancelled order is closed; a consumer holds events that are in its topic.
EventsSound ==
  /\ \A i \in 1 .. Len(events["trades"]) :
       /\ terms[events["trades"][i].buy].side = "BUY"
       /\ terms[events["trades"][i].sell].side = "SELL"
       /\ events["trades"][i].buy \in Stored /\ events["trades"][i].sell \in Stored
  /\ \A i \in 1 .. Len(events["order-events"]) :
       /\ events["order-events"][i] \in Stored
       /\ row[events["order-events"][i]].remaining = 0
  /\ \A r \in Replicas, k \in Topics :
       worker[r][k] # None => /\ worker[r][k][1] = k
                              /\ worker[r][k][2] \in 1 .. Len(events[k])

\* The row is stored after the reservation, and released only without a row
\* unless the handler may take a stored row for a failed one.
HandlerFirst ==
  \A o \in Orders :
    /\ http[o] \in {"none", "validated", "reserved"} => row[o] = None
    /\ http[o] = "releasing" /\ "insertunknown" \notin faults => row[o] = None

CancelledIsClosed ==
  \A o \in Stored : row[o].status = "CANCELLED" => row[o].remaining = 0

\* An event of order o that is still to be applied.
TradeDue(o) ==
  \E i \in 1 .. Len(events["trades"]) :
    /\ <<"trades", i>> \notin applied
    /\ o \in {events["trades"][i].buy, events["trades"][i].sell}
CancelDue(o) ==
  \E i \in 1 .. Len(events["order-events"]) :
    /\ <<"order-events", i>> \notin applied
    /\ events["order-events"][i] = o

\* A final order that still reserves something has an event that will release it.
ReleaseDue ==
  \A o \in Stored \ Open : row[o].reserved = 0 \/ TradeDue(o) \/ CancelDue(o)

IInv ==
  /\ TypeOK
  /\ EventsSound
  /\ HandlerFirst
  /\ CancelledIsClosed
  /\ OrdersCovered
  /\ ReleaseDue

-----------------------------------------------------------------------------
(* Lemmas *)

LEMMA TermsTyped ==
  ASSUME TypeOK, NEW o \in Orders
  PROVE  /\ terms[o] \in Terms
         /\ Owner(o) \in Users
         /\ Asset(o) \in Assets
BY PortfoliosAssumption DEF TypeOK, Terms, Owner, Asset, Assets

LEMMA Product ==
  ASSUME NEW p \in Nat, NEW q \in Nat, NEW r \in Nat, q <= r
  PROVE  p * q \in Nat /\ p * q <= p * r
<1>1. PICK d \in Nat : r = q + d
  <2>1. r - q \in Nat /\ r = q + (r - q)
    OBVIOUS
  <2> QED
    BY <2>1
<1>2. p * q \in Nat /\ p * d \in Nat
  OBVIOUS
<1>3. p * r = p * q + p * d
  BY <1>1
<1> QED
  BY <1>2, <1>3

\* What an order needs grows with the quantity.
LEMMA NeedMonotone ==
  ASSUME TypeOK, NEW o \in Orders, NEW q \in Nat, NEW r \in Nat, q <= r
  PROVE  Need(o, q) \in Nat /\ Need(o, q) <= Need(o, r) /\ Need(o, r) \in Nat
<1>1. terms[o].price \in Nat
  BY TermsTyped DEF Terms
<1>2. /\ terms[o].price * q \in Nat
      /\ terms[o].price * r \in Nat
      /\ terms[o].price * q <= terms[o].price * r
  BY <1>1, Product
<1> QED
  BY <1>2 DEF Need

LEMMA NeedZero ==
  ASSUME TypeOK, NEW o \in Orders
  PROVE  Need(o, 0) = 0
<1>1. terms[o].price \in Nat
  BY TermsTyped DEF Terms
<1> QED
  BY <1>1 DEF Need

-----------------------------------------------------------------------------
(* Initial states *)

LEMMA InitIInv == Init => IInv
<1> SUFFICES ASSUME Init PROVE IInv
  OBVIOUS
<1>1. TypeOK
  BY EndowmentAssumption, PortfoliosAssumption
  DEF Init, TypeOK, Assets, Topics, Phases, Trades, Messages
<1>2. EventsSound /\ HandlerFirst
  BY DEF Init, EventsSound, HandlerFirst, Topics
<1>3. CancelledIsClosed /\ OrdersCovered /\ ReleaseDue
  BY DEF Init, CancelledIsClosed, OrdersCovered, ReleaseDue, Stored
<1> QED
  BY <1>1, <1>2, <1>3 DEF IInv

-----------------------------------------------------------------------------
(* Every step keeps the types *)

LEMMA RowTyped ==
  ASSUME TypeOK, NEW o \in Stored
  PROVE  /\ o \in Orders /\ row[o] \in Rows
         /\ row[o].remaining \in Nat /\ row[o].reserved \in Nat
         /\ Need(o, row[o].remaining) \in Nat
<1>1. o \in Orders /\ row[o] \in Rows
  BY DEF TypeOK, Stored
<1>2. row[o].remaining \in Nat /\ row[o].reserved \in Nat
  BY <1>1 DEF Rows
<1> QED
  BY <1>1, <1>2, NeedMonotone

LEMMA HandlerTypes ==
  ASSUME IInv, NEW o \in Orders, CreateOrder(o)
  PROVE  TypeOK'
<1> USE DEF IInv, TypeOK, consumer
<1>1. /\ Owner(o) \in Users /\ Asset(o) \in Assets
      /\ terms[o].qty \in Nat \ {0}
      /\ Need(o, terms[o].qty) \in Nat
      /\ held[Asset(o)][Owner(o)] \in Nat
  <2>1. terms[o].qty \in Nat \ {0}
    BY TermsTyped DEF Terms
  <2>2. Need(o, terms[o].qty) \in Nat
    BY <2>1, NeedMonotone
  <2> QED
    BY <2>1, <2>2, TermsTyped
<1>2. CASE Validate(o) \/ ReserveFails(o) \/ InsertFails(o) \/ ReleaseFails(o) \/ Crash(o)
  BY <1>2 DEF Validate, ReserveFails, InsertFails, ReleaseFails, Crash, Phases
<1>3. CASE Reserve(o)
  <2>1. held[Asset(o)][Owner(o)] + Need(o, terms[o].qty) \in Nat
    BY <1>1
  <2> QED
    BY <1>1, <1>3, <2>1 DEF Reserve, Phases
<1>4. CASE Insert(o)
  <2>1. [remaining |-> terms[o].qty, status |-> "OPEN",
         reserved  |-> Need(o, terms[o].qty)] \in Rows
    BY <1>1 DEF Rows
  <2> QED
    BY <1>4, <2>1 DEF Insert, Phases
<1>5. CASE Release(o)
  <2>1. ReleaseAmount(o) \in Nat
    BY <1>1, RowTyped DEF ReleaseAmount, Stored
  <2>2. held[Asset(o)][Owner(o)] - ReleaseAmount(o) \in Nat
    BY <1>1, <1>5, <2>1 DEF Release
  <2>3. row[o] # None => [row[o] EXCEPT !.reserved = 0] \in Rows
    BY RowTyped DEF Stored, Rows
  <2>4. row' \in [Orders -> Rows \cup {None}]
    BY <1>5, <2>3 DEF Release
  <2>5. held' \in [Assets -> [Users -> Nat]]
    BY <1>1, <1>5, <2>2 DEF Release
  <2> QED
    BY <1>5, <2>4, <2>5 DEF Release, Phases
<1> QED
  BY <1>2, <1>3, <1>4, <1>5 DEF CreateOrder

LEMMA EngineTypes ==
  ASSUME IInv, Engine
  PROVE  TypeOK'
<1> USE DEF IInv, TypeOK, consumer
<1>1. ASSUME NEW b \in Orders, NEW s \in Orders, NEW p, Match(b, s, p)
      PROVE  TypeOK'
  <2> DEFINE q == IF row[b].remaining < row[s].remaining
                  THEN row[b].remaining ELSE row[s].remaining
  <2>1. /\ b \in Stored /\ s \in Stored /\ b # s
        /\ row[b].remaining > 0 /\ row[s].remaining > 0
    BY <1>1 DEF Match, Open
  <2>2. /\ q \in Nat \ {0}
        /\ row[b].remaining - q \in Nat
        /\ row[s].remaining - q \in Nat
    BY <2>1, RowTyped
  <2>3. p \in Nat
    BY <1>1, TermsTyped DEF Match, Terms
  <2>4. /\ [row[b] EXCEPT !.remaining = @ - q] \in Rows
        /\ [row[s] EXCEPT !.remaining = @ - q] \in Rows
    BY <2>1, <2>2, RowTyped DEF Rows
  <2>5. row' \in [Orders -> Rows \cup {None}]
    BY <1>1, <2>1, <2>4 DEF Match
  <2>6. /\ events'["trades"] =
             Append(events["trades"], [buy |-> b, sell |-> s, price |-> p, qty |-> q])
        /\ events'["order-events"] = events["order-events"]
        /\ events' = [k \in Topics |-> events'[k]]
    BY <1>1 DEF Match, Topics
  <2>7. events'["trades"] \in Seq(Trades)
    BY <2>2, <2>3, <2>6 DEF Trades
  <2>8. \A m \in applied : m[2] <= Len(events'[m[1]])
    BY <2>6, <2>7 DEF Messages, Topics
  <2> QED
    BY <1>1, <2>5, <2>6, <2>7, <2>8 DEF Match
<1>2. ASSUME NEW o \in Orders, CancelOrder(o)
      PROVE  TypeOK'
  <2>1. o \in Stored
    BY <1>2 DEF CancelOrder, Open
  <2>2. [row[o] EXCEPT !.remaining = 0, !.status = "CANCELLED"] \in Rows
    BY <2>1, RowTyped DEF Rows
  <2>3. row' \in [Orders -> Rows \cup {None}]
    BY <1>2, <2>2 DEF CancelOrder
  <2>4. /\ events'["order-events"] = Append(events["order-events"], o)
        /\ events'["trades"] = events["trades"]
        /\ events' = [k \in Topics |-> events'[k]]
    BY <1>2 DEF CancelOrder, Topics
  <2>5. \A m \in applied : m[2] <= Len(events'[m[1]])
    BY <2>4 DEF Messages, Topics
  <2>6. UNCHANGED <<faults, terms, owned, held, http, next, applied, worker>>
    BY <1>2 DEF CancelOrder
  <2> QED
    BY <2>3, <2>4, <2>5, <2>6
<1> QED
  BY <1>1, <1>2 DEF Engine

\* The trade a consumer holds, and its two orders.
LEMMA TradeHeld ==
  ASSUME IInv, NEW r \in Replicas, worker[r]["trades"] # None,
         NEW t, t = Event(worker[r]["trades"])
  PROVE  /\ t \in Trades
         /\ worker[r]["trades"] \in Messages
         /\ worker[r]["trades"][1] = "trades"
         /\ worker[r]["trades"][2] \in 1 .. Len(events["trades"])
         /\ t = events["trades"][worker[r]["trades"][2]]
         /\ t.buy \in Stored /\ t.sell \in Stored /\ t.buy # t.sell
         /\ Asset(t.buy) = "cash" /\ Asset(t.sell) = "shares"
         /\ Value(t) \in Nat /\ t.qty \in Nat
<1>1. /\ worker[r]["trades"][1] = "trades"
      /\ worker[r]["trades"][2] \in 1 .. Len(events["trades"])
      /\ worker[r]["trades"] \in Messages
  BY DEF IInv, TypeOK, EventsSound, Topics
<1>2. t = events["trades"][worker[r]["trades"][2]]
  BY <1>1 DEF Event
<1>3. t \in Trades
  BY <1>1, <1>2 DEF IInv, TypeOK
<1>4. terms[t.buy].side = "BUY" /\ terms[t.sell].side = "SELL"
  BY <1>1, <1>2 DEF IInv, EventsSound
<1>5. /\ t.price \in Nat /\ t.qty \in Nat
      /\ t.buy \in Stored /\ t.sell \in Stored
  BY <1>1, <1>2, <1>3 DEF Trades, IInv, EventsSound
<1>6. Value(t) \in Nat
  BY <1>5, Product DEF Value
<1> QED
  BY <1>1, <1>2, <1>3, <1>4, <1>5, <1>6 DEF Asset

LEMMA CancelHeld ==
  ASSUME IInv, NEW r \in Replicas, worker[r]["order-events"] # None,
         NEW o, o = Event(worker[r]["order-events"])
  PROVE  /\ o \in Stored /\ row[o].remaining = 0
         /\ worker[r]["order-events"] \in Messages
         /\ worker[r]["order-events"][1] = "order-events"
         /\ worker[r]["order-events"][2] \in 1 .. Len(events["order-events"])
         /\ o = events["order-events"][worker[r]["order-events"][2]]
<1>1. /\ worker[r]["order-events"][1] = "order-events"
      /\ worker[r]["order-events"][2] \in 1 .. Len(events["order-events"])
      /\ worker[r]["order-events"] \in Messages
  BY DEF IInv, TypeOK, EventsSound, Topics
<1>2. o = events["order-events"][worker[r]["order-events"][2]]
  BY <1>1 DEF Event
<1> QED
  BY <1>1, <1>2 DEF IInv, EventsSound

LEMMA DeliverTypes ==
  ASSUME IInv, NEW r \in Replicas, NEW k \in Topics,
         NEW i \in 1 .. Len(events[k]), Deliver(r, k, i)
  PROVE  TypeOK'
<1>1. Len(events[k]) \in Nat
  BY DEF IInv, TypeOK, Topics
<1>2. <<k, i>> \in Messages /\ i \in Nat
  BY <1>1 DEF Messages
<1>3. worker' \in [Replicas -> [Topics -> Messages \cup {None}]]
  BY <1>2 DEF IInv, TypeOK, Deliver
<1>4. next' \in [Topics -> Nat]
  BY <1>2 DEF IInv, TypeOK, Deliver
<1> QED
  BY <1>3, <1>4 DEF IInv, TypeOK, Deliver

LEMMA SettleTypes ==
  ASSUME IInv, NEW r \in Replicas, SettleTrade(r)
  PROVE  TypeOK'
<1> DEFINE m == worker[r]["trades"]
           t == Event(m)
           buyer == Owner(t.buy)
           seller == Owner(t.sell)
<1>1. m # None /\ CanSettle(t)
  BY DEF SettleTrade
<1>2. /\ m \in Messages /\ m[1] = "trades" /\ m[2] \in 1 .. Len(events["trades"])
      /\ t.buy \in Stored /\ t.sell \in Stored /\ t.buy # t.sell
      /\ Asset(t.buy) = "cash" /\ Asset(t.sell) = "shares"
      /\ Value(t) \in Nat /\ t.qty \in Nat
  BY <1>1, TradeHeld
<1>3. buyer \in Users /\ seller \in Users
  BY <1>2, RowTyped, TermsTyped DEF IInv
<1>4. ASSUME NEW a \in Assets, NEW u \in Users
      PROVE  owned[a][u] + (IF u = (IF a = "cash" THEN seller ELSE buyer) THEN Gives(t, a) ELSE 0)
                         - (IF u = (IF a = "cash" THEN buyer ELSE seller) THEN Gives(t, a) ELSE 0)
             \in Nat
  <2>1. owned[a][u] \in Nat /\ Gives(t, a) \in Nat
    BY <1>2 DEF IInv, TypeOK, Gives
  <2>2. CASE a = "cash"
    <3>1. u = buyer => owned[a][u] >= Gives(t, a)
      BY <1>1, <2>2 DEF CanSettle, Gives
    <3> QED
      BY <2>1, <2>2, <3>1
  <2>3. CASE a = "shares"
    <3>1. u = seller => owned[a][u] >= Gives(t, a) \/ buyer = seller
      BY <1>1, <2>3 DEF CanSettle, Gives
    <3> QED
      BY <2>1, <2>3, <3>1
  <2> QED
    BY <2>2, <2>3 DEF Assets
<1>5. owned' \in [Assets -> [Users -> Nat]]
  BY <1>4 DEF SettleTrade
<1>6. /\ Releases(t.buy) \in Nat /\ Releases(t.sell) \in Nat
      /\ Need(t.buy, row[t.buy].remaining) \in Nat
      /\ Need(t.sell, row[t.sell].remaining) \in Nat
      /\ held["cash"][buyer] >= Releases(t.buy)
      /\ held["shares"][seller] >= Releases(t.sell)
  <2>1. CanSettle(t)
    BY <1>1
  <2>2. ASSUME NEW x \in {t.buy, t.sell}
        PROVE  /\ Releases(x) \in Nat /\ Need(x, row[x].remaining) \in Nat
               /\ row[x].reserved \in Nat
    <3>1. x \in Stored /\ TypeOK
      BY <1>2, <2>2 DEF IInv
    <3>2. row[x].reserved >= Need(x, row[x].remaining)
      BY <2>1, <2>2 DEF CanSettle
    <3>3. row[x].reserved \in Nat /\ Need(x, row[x].remaining) \in Nat
      BY <3>1, RowTyped
    <3> QED
      BY <3>2, <3>3 DEF Releases
  <2>3. held["cash"][buyer] >= Releases(t.buy) /\ held["shares"][seller] >= Releases(t.sell)
    <3>1. /\ held[Asset(t.buy)][buyer] >= Releases(t.buy)
          /\ held[Asset(t.sell)][seller] >= Releases(t.sell)
      BY <2>1 DEF CanSettle
    <3> HIDE DEF t, buyer, seller
    <3> QED
      BY <1>2, <3>1
  <2> QED
    BY <2>2, <2>3
<1>7. /\ held["cash"][buyer] \in Nat /\ held["shares"][seller] \in Nat
  BY <1>3 DEF IInv, TypeOK, Assets
<1>8. /\ held["cash"][buyer] - Releases(t.buy) \in Nat
      /\ held["shares"][seller] - Releases(t.sell) \in Nat
  BY <1>6, <1>7
<1>9. held' \in [Assets -> [Users -> Nat]]
  BY <1>3, <1>8 DEF SettleTrade, IInv, TypeOK, Assets
<1>10. row' \in [Orders -> Rows \cup {None}]
  <2>1. /\ row[t.buy] \in Rows /\ row[t.sell] \in Rows
        /\ t.buy \in Orders /\ t.sell \in Orders
    BY <1>2, RowTyped DEF IInv
  <2>2. /\ [row[t.buy] EXCEPT !.reserved = Need(t.buy, row[t.buy].remaining)] \in Rows
        /\ [row[t.sell] EXCEPT !.reserved = Need(t.sell, row[t.sell].remaining)] \in Rows
    BY <1>6, <2>1 DEF Rows
  <2> QED
    BY <1>2, <2>1, <2>2 DEF SettleTrade, IInv, TypeOK
<1>11. applied' \subseteq Messages /\ \A x \in applied' : x[2] <= Len(events[x[1]])
  <2>1. applied' = applied \cup {m} /\ m[2] <= Len(events[m[1]])
    <3>1. applied' = applied \cup {m}
      BY DEF SettleTrade
    <3>2. m[2] <= Len(events[m[1]])
      BY <1>2
    <3> QED
      BY <3>1, <3>2
  <2> HIDE DEF m
  <2> QED
    BY <1>2, <2>1 DEF IInv, TypeOK
<1>12. worker' \in [Replicas -> [Topics -> Messages \cup {None}]]
  BY DEF SettleTrade, IInv, TypeOK, Topics
<1>13. UNCHANGED <<faults, terms, http, events, next>>
  BY DEF SettleTrade
<1> QED
  BY <1>5, <1>9, <1>10, <1>11, <1>12, <1>13 DEF IInv, TypeOK

LEMMA ReleaseTypes ==
  ASSUME IInv, NEW r \in Replicas, ReleaseCancelled(r)
  PROVE  TypeOK'
<1> DEFINE m == worker[r]["order-events"]
           o == Event(m)
<1>1. m # None /\ CanRelease(o)
  BY DEF ReleaseCancelled
<1>2. /\ m \in Messages /\ m[1] = "order-events"
      /\ m[2] \in 1 .. Len(events["order-events"]) /\ o \in Stored
  BY <1>1, CancelHeld
<1>3. /\ o \in Orders /\ row[o] \in Rows /\ row[o].reserved \in Nat
      /\ Owner(o) \in Users /\ Asset(o) \in Assets
      /\ held[Asset(o)][Owner(o)] \in Nat
  BY <1>2, RowTyped, TermsTyped DEF IInv, TypeOK
<1>4. held[Asset(o)][Owner(o)] - row[o].reserved \in Nat
  BY <1>1, <1>3 DEF CanRelease
<1>5. held' \in [Assets -> [Users -> Nat]]
  BY <1>3, <1>4 DEF ReleaseCancelled, IInv, TypeOK
<1>6. [row[o] EXCEPT !.reserved = 0] \in Rows
  BY <1>3 DEF Rows
<1>7. row' \in [Orders -> Rows \cup {None}]
  BY <1>3, <1>6 DEF ReleaseCancelled, IInv, TypeOK
<1>8. applied' \subseteq Messages /\ \A x \in applied' : x[2] <= Len(events[x[1]])
  <2>1. applied' = applied \cup {m} /\ m[2] <= Len(events[m[1]])
    BY <1>2 DEF ReleaseCancelled
  <2> HIDE DEF m
  <2> QED
    BY <1>2, <2>1 DEF IInv, TypeOK
<1>9. worker' \in [Replicas -> [Topics -> Messages \cup {None}]]
  BY DEF ReleaseCancelled, IInv, TypeOK, Topics
<1> QED
  BY <1>5, <1>7, <1>8, <1>9 DEF ReleaseCancelled, IInv, TypeOK

LEMMA RollbackTypes ==
  ASSUME IInv, NEW r \in Replicas, NEW k \in Topics, Rollback(r, k)
  PROVE  TypeOK'
<1>1. worker' \in [Replicas -> [Topics -> Messages \cup {None}]]
  BY DEF Rollback, IInv, TypeOK
<1> QED
  BY <1>1 DEF Rollback, IInv, TypeOK

LEMMA StepTypeOK ==
  ASSUME IInv, [Next]_vars
  PROVE  TypeOK'
<1>1. CASE UNCHANGED vars
  BY <1>1 DEF vars, IInv, TypeOK
<1>2. CASE Next
  BY <1>2, HandlerTypes, EngineTypes, DeliverTypes, SettleTypes, ReleaseTypes,
     RollbackTypes DEF Next, Fetch, Consume
<1> QED
  BY <1>1, <1>2

-----------------------------------------------------------------------------
(* What a step does to one order row *)

\* A stored row stays; its remaining quantity never grows; its reserved amount
\* is kept, or becomes what the remaining quantity needs, or is taken back by a
\* handler that was told the row is not there.
RowStep(x) ==
  /\ row'[x] \in Rows
  /\ row'[x].remaining <= row[x].remaining
  /\ row'[x].status = "CANCELLED" => row[x].status = "CANCELLED" \/ row'[x].remaining = 0
  /\ \/ row'[x].reserved = row[x].reserved
     \/ row'[x].reserved = Need(x, row'[x].remaining)
     \/ row'[x].reserved = 0 /\ "insertunknown" \in faults

LEMMA RowKept ==
  ASSUME IInv, NEW x \in Stored, row'[x] = row[x]
  PROVE  RowStep(x)
BY RowTyped DEF RowStep, IInv

LEMMA RowSteps ==
  ASSUME IInv, [Next]_vars, NEW x \in Stored
  PROVE  RowStep(x)
<1>1. /\ x \in Orders /\ row[x] \in Rows /\ row[x] # None
      /\ row[x].remaining \in Nat /\ row[x].reserved \in Nat
  BY RowTyped DEF IInv, Stored
<1>2. row \in [Orders -> Rows \cup {None}]
  BY DEF IInv, TypeOK
<1>3. CASE UNCHANGED vars
  BY <1>3, RowKept DEF vars
<1>4. ASSUME NEW o \in Orders, CreateOrder(o)
      PROVE  RowStep(x)
  <2>1. CASE Insert(o)
    <3>1. row[o] = None
      BY <2>1 DEF Insert, IInv, HandlerFirst
    <3> QED
      BY <1>1, <1>2, <2>1, <3>1, RowKept DEF Insert
  <2>2. CASE Release(o)
    <3>1. CASE o = x
      <4>1. "insertunknown" \in faults
        BY <1>1, <2>2, <3>1 DEF Release, IInv, HandlerFirst
      <4>2. row'[x] = [row[x] EXCEPT !.reserved = 0]
        BY <1>1, <1>2, <2>2, <3>1 DEF Release
      <4> QED
        BY <1>1, <4>1, <4>2 DEF RowStep, Rows
    <3>2. CASE o # x
      BY <1>1, <1>2, <2>2, <3>2, RowKept DEF Release
    <3> QED
      BY <3>1, <3>2
  <2>3. CASE UNCHANGED row
    BY <2>3, RowKept
  <2> QED
    BY <1>4, <2>1, <2>2, <2>3
    DEF CreateOrder, Validate, Reserve, ReserveFails, InsertFails, ReleaseFails, Crash
<1>5. ASSUME NEW b \in Orders, NEW s \in Orders, NEW p, Match(b, s, p)
      PROVE  RowStep(x)
  <2> DEFINE q == IF row[b].remaining < row[s].remaining
                  THEN row[b].remaining ELSE row[s].remaining
  <2>1. /\ b \in Stored /\ s \in Stored /\ b # s
        /\ row' = [row EXCEPT ![b].remaining = @ - q, ![s].remaining = @ - q]
    BY <1>5 DEF Match, Open
  <2>2. /\ q \in Nat /\ row[b].remaining - q \in Nat /\ row[s].remaining - q \in Nat
    BY <2>1, RowTyped DEF IInv
  <2>3. CASE x \in {b, s}
    <3>1. row'[x] = [row[x] EXCEPT !.remaining = @ - q]
      BY <1>1, <1>2, <2>1, <2>3
    <3> HIDE DEF q
    <3> QED
      BY <1>1, <2>2, <2>3, <3>1 DEF RowStep, Rows
  <2>4. CASE x \notin {b, s}
    <3>1. row'[x] = row[x]
      BY <1>1, <1>2, <2>1, <2>4
    <3> QED
      BY <3>1, RowKept
  <2> QED
    BY <2>3, <2>4
<1>6. ASSUME NEW o \in Orders, CancelOrder(o)
      PROVE  RowStep(x)
  <2>1. CASE o = x
    <3>1. row'[x] = [row[x] EXCEPT !.remaining = 0, !.status = "CANCELLED"]
      BY <1>1, <1>2, <1>6, <2>1 DEF CancelOrder
    <3>2. row'[x] = [remaining |-> 0, reserved |-> row[x].reserved, status |-> "CANCELLED"]
      BY <1>1, <3>1 DEF Rows
    <3> QED
      BY <1>1, <3>2 DEF RowStep, Rows
  <2>2. CASE o # x
    BY <1>1, <1>2, <1>6, <2>2, RowKept DEF CancelOrder
  <2> QED
    BY <2>1, <2>2
<1>7. ASSUME NEW r \in Replicas, SettleTrade(r)
      PROVE  RowStep(x)
  <2> DEFINE t == Event(worker[r]["trades"])
  <2>1. /\ t.buy \in Stored /\ t.sell \in Stored /\ t.buy # t.sell
        /\ row' = [row EXCEPT ![t.buy].reserved  = Need(t.buy, row[t.buy].remaining),
                              ![t.sell].reserved = Need(t.sell, row[t.sell].remaining)]
    BY <1>7, TradeHeld DEF SettleTrade
  <2>2. CASE x \in {t.buy, t.sell}
    <3>1. row'[x] = [row[x] EXCEPT !.reserved = Need(x, row[x].remaining)]
      BY <1>1, <1>2, <2>1, <2>2
    <3>2. Need(x, row[x].remaining) \in Nat
      BY RowTyped DEF IInv
    <3> QED
      BY <1>1, <3>1, <3>2 DEF RowStep, Rows
  <2>3. CASE x \notin {t.buy, t.sell}
    <3>1. row'[x] = row[x]
      BY <1>1, <1>2, <2>1, <2>3
    <3> QED
      BY <3>1, RowKept
  <2> QED
    BY <2>2, <2>3
<1>8. ASSUME NEW r \in Replicas, ReleaseCancelled(r)
      PROVE  RowStep(x)
  <2> DEFINE o == Event(worker[r]["order-events"])
  <2>1. o \in Stored /\ row[o].remaining = 0 /\ row' = [row EXCEPT ![o].reserved = 0]
    BY <1>8, CancelHeld DEF ReleaseCancelled
  <2>2. CASE o = x
    <3>1. row'[x] = [row[x] EXCEPT !.reserved = 0]
      BY <1>1, <1>2, <2>1, <2>2
    <3>2. Need(x, 0) = 0
      BY <1>1, NeedZero DEF IInv
    <3> QED
      BY <1>1, <2>1, <2>2, <3>1, <3>2 DEF RowStep, Rows
  <2>3. CASE o # x
    BY <1>1, <1>2, <2>1, <2>3, RowKept
  <2> QED
    BY <2>2, <2>3
<1>9. CASE UNCHANGED row
  BY <1>9, RowKept
<1> QED
  BY <1>3, <1>4, <1>5, <1>6, <1>7, <1>8, <1>9
  DEF Next, Engine, Fetch, Consume, Deliver, Rollback

LEMMA TermsStay ==
  ASSUME [Next]_vars
  PROVE  terms' = terms /\ faults' = faults
<1>1. CASE UNCHANGED vars
  BY <1>1 DEF vars
<1>2. CASE Next
  BY <1>2 DEF Next, CreateOrder, Validate, Reserve, ReserveFails, Insert, InsertFails,
     Release, ReleaseFails, Crash, Engine, Match, CancelOrder, Fetch, Deliver,
     Consume, SettleTrade, ReleaseCancelled, Rollback
<1> QED
  BY <1>1, <1>2

\* Rows are stored as createOrderHandler stores them, and stay.
LEMMA NewRow ==
  ASSUME IInv, [Next]_vars, NEW x \in Stored', x \notin Stored
  PROVE  /\ row'[x] = [remaining |-> terms[x].qty, status |-> "OPEN",
                       reserved  |-> Need(x, terms[x].qty)]
         /\ Insert(x)
<1>1. x \in Orders /\ row[x] = None /\ row'[x] # None
  BY DEF Stored
<1>2. row \in [Orders -> Rows \cup {None}]
  BY DEF IInv, TypeOK
<1>3. row'[x] # row[x]
  BY <1>1
<1>4. CASE UNCHANGED vars
  BY <1>3, <1>4 DEF vars
<1>5. ASSUME NEW o \in Orders, CreateOrder(o)
      PROVE  o = x /\ Insert(x)
  BY <1>1, <1>2, <1>3, <1>5 DEF CreateOrder, Validate, Reserve, ReserveFails, Insert,
     InsertFails, Release, ReleaseFails, Crash
<1>6. ASSUME Engine
      PROVE  FALSE
  BY <1>1, <1>2, <1>3, <1>6 DEF Engine, Match, CancelOrder, Open, Stored
<1>7. ASSUME NEW r \in Replicas, Consume(r)
      PROVE  FALSE
  <2>1. CASE SettleTrade(r)
    BY <1>1, <1>2, <1>3, <2>1, TradeHeld DEF SettleTrade, Stored
  <2>2. CASE ReleaseCancelled(r)
    BY <1>1, <1>2, <1>3, <2>2, CancelHeld DEF ReleaseCancelled, Stored
  <2> QED
    BY <1>3, <1>7, <2>1, <2>2 DEF Consume, Rollback
<1>8. Insert(x)
  BY <1>3, <1>4, <1>5, <1>6, <1>7 DEF Next, Fetch, Deliver
<1> QED
  BY <1>1, <1>2, <1>8 DEF Insert

LEMMA RowsStay ==
  ASSUME IInv, [Next]_vars
  PROVE  Stored \subseteq Stored'
<1>1. ASSUME NEW x \in Stored
      PROVE  x \in Orders /\ row'[x] # None
  <2>1. x \in Orders /\ row'[x] \in Rows
    BY RowSteps DEF RowStep, Stored
  <2> QED
    BY <2>1, NoneAssumption
<1> QED
  BY <1>1 DEF Stored

LEMMA StepCovered ==
  ASSUME IInv, [Next]_vars
  PROVE  OrdersCovered'
<1> SUFFICES ASSUME NEW x \in Stored'
             PROVE  \/ row'[x].reserved >= Need(x, row'[x].remaining)
                    \/ "insertunknown" \in faults /\ row'[x].reserved = 0
  BY TermsStay DEF OrdersCovered, Need
<1>1. CASE x \in Stored
  <2>1. /\ x \in Orders /\ row[x].remaining \in Nat /\ row[x].reserved \in Nat
        /\ \/ row[x].reserved >= Need(x, row[x].remaining)
           \/ "insertunknown" \in faults /\ row[x].reserved = 0
    BY <1>1, RowTyped DEF IInv, OrdersCovered
  <2>2. /\ row'[x].remaining \in Nat /\ row'[x].remaining <= row[x].remaining
        /\ \/ row'[x].reserved = row[x].reserved
           \/ row'[x].reserved = Need(x, row'[x].remaining)
           \/ row'[x].reserved = 0 /\ "insertunknown" \in faults
    BY <1>1, RowSteps DEF RowStep, Rows
  <2>3. /\ Need(x, row'[x].remaining) \in Nat
        /\ Need(x, row[x].remaining) \in Nat
        /\ Need(x, row'[x].remaining) <= Need(x, row[x].remaining)
    BY <2>1, <2>2, NeedMonotone DEF IInv
  <2> QED
    BY <2>1, <2>2, <2>3
<1>2. CASE x \notin Stored
  <2>1. row'[x] = [remaining |-> terms[x].qty, status |-> "OPEN",
                   reserved  |-> Need(x, terms[x].qty)]
    BY <1>2, NewRow
  <2>2. row'[x].reserved = Need(x, terms[x].qty) /\ row'[x].remaining = terms[x].qty
    BY <2>1
  <2>3. terms[x].qty \in Nat
    BY TermsTyped DEF IInv, Terms, Stored
  <2>4. Need(x, terms[x].qty) \in Nat
    BY <2>3, NeedMonotone DEF IInv, Stored
  <2> QED
    BY <2>2, <2>4
<1> QED
  BY <1>1, <1>2

LEMMA StepHandler ==
  ASSUME IInv, [Next]_vars
  PROVE  HandlerFirst'
<1> SUFFICES ASSUME NEW x \in Orders
             PROVE  /\ http'[x] \in {"none", "validated", "reserved"} => row'[x] = None
                    /\ http'[x] = "releasing" /\ "insertunknown" \notin faults
                         => row'[x] = None
  BY TermsStay DEF HandlerFirst
<1>1. http \in [Orders -> Phases] /\ row \in [Orders -> Rows \cup {None}]
  BY DEF IInv, TypeOK
<1>2. ASSUME http'[x] = http[x]
      PROVE  row[x] # None \/ row'[x] = None
  <2>1. ~ Insert(x)
    BY <1>1, <1>2 DEF Insert, Phases
  <2> QED
    BY <2>1, NewRow DEF Stored
<1>3. CASE http'[x] = http[x]
  BY <1>2, <1>3 DEF IInv, HandlerFirst
<1>4. CASE http'[x] # http[x]
  <2>1. CreateOrder(x)
    <3>1. ASSUME NEW o \in Orders, CreateOrder(o), o # x
          PROVE  FALSE
      BY <1>1, <1>4, <3>1 DEF CreateOrder, Validate, Reserve, ReserveFails, Insert,
         InsertFails, Release, ReleaseFails, Crash
    <3>2. ~ UNCHANGED http
      BY <1>4
    <3> QED
      BY <3>1, <3>2 DEF Next, vars, Engine, Match, CancelOrder, Fetch,
         Deliver, Consume, SettleTrade, ReleaseCancelled, Rollback
  <2> QED
    BY <1>1, <1>4, <2>1 DEF CreateOrder, Validate, Reserve, ReserveFails, Insert,
       InsertFails, Release, ReleaseFails, Crash, IInv, HandlerFirst
<1> QED
  BY <1>3, <1>4

LEMMA StepClosed ==
  ASSUME IInv, [Next]_vars
  PROVE  CancelledIsClosed'
<1> SUFFICES ASSUME NEW x \in Stored', row'[x].status = "CANCELLED"
             PROVE  row'[x].remaining = 0
  BY DEF CancelledIsClosed
<1>1. CASE x \in Stored
  <2>1. /\ row[x].remaining \in Nat
        /\ row[x].status = "CANCELLED" => row[x].remaining = 0
    BY <1>1, RowTyped DEF IInv, CancelledIsClosed
  <2>2. /\ row'[x].remaining \in Nat /\ row'[x].remaining <= row[x].remaining
        /\ row[x].status = "CANCELLED" \/ row'[x].remaining = 0
    BY <1>1, RowSteps DEF RowStep, Rows
  <2> QED
    BY <2>1, <2>2
<1>2. CASE x \notin Stored
  <2>1. row'[x] = [remaining |-> terms[x].qty, status |-> "OPEN",
                   reserved  |-> Need(x, terms[x].qty)]
    BY <1>2, NewRow
  <2> QED
    BY <2>1
<1> QED
  BY <1>1, <1>2

\* The topics are only appended to.
LEMMA EventSteps ==
  ASSUME IInv, [Next]_vars
  PROVE  \/ events' = events
         \/ /\ applied' = applied /\ worker' = worker
            /\ events'["order-events"] = events["order-events"]
            /\ \E b, s \in Open, p \in Nat, q \in Nat :
                 /\ terms[b].side = "BUY" /\ terms[s].side = "SELL"
                 /\ events'["trades"] =
                      Append(events["trades"], [buy |-> b, sell |-> s, price |-> p, qty |-> q])
         \/ /\ applied' = applied /\ worker' = worker
            /\ events'["trades"] = events["trades"]
            /\ \E o \in Open :
                 /\ row'[o].remaining = 0
                 /\ events'["order-events"] = Append(events["order-events"], o)
<1>1. ASSUME NEW b \in Orders, NEW s \in Orders, NEW p, Match(b, s, p)
      PROVE  /\ applied' = applied /\ worker' = worker
             /\ events'["order-events"] = events["order-events"]
             /\ \E q \in Nat :
                  /\ b \in Open /\ s \in Open /\ p \in Nat
                  /\ terms[b].side = "BUY" /\ terms[s].side = "SELL"
                  /\ events'["trades"] =
                       Append(events["trades"], [buy |-> b, sell |-> s, price |-> p, qty |-> q])
  <2> DEFINE q == IF row[b].remaining < row[s].remaining
                  THEN row[b].remaining ELSE row[s].remaining
  <2>1. b \in Open /\ s \in Open /\ terms[b].side = "BUY" /\ terms[s].side = "SELL"
    BY <1>1 DEF Match
  <2>2. q \in Nat
    BY <2>1, RowTyped DEF Open, IInv
  <2>3. p \in Nat
    BY <1>1, TermsTyped DEF Match, Terms, IInv
  <2>4. /\ events'["trades"] =
             Append(events["trades"], [buy |-> b, sell |-> s, price |-> p, qty |-> q])
        /\ events'["order-events"] = events["order-events"]
        /\ applied' = applied /\ worker' = worker
    BY <1>1 DEF Match, consumer, IInv, TypeOK, Topics
  <2> HIDE DEF q
  <2> QED
    BY <2>1, <2>2, <2>3, <2>4
<1>2. ASSUME NEW o \in Orders, CancelOrder(o)
      PROVE  /\ applied' = applied /\ worker' = worker
             /\ events'["trades"] = events["trades"]
             /\ o \in Open /\ row'[o].remaining = 0
             /\ events'["order-events"] = Append(events["order-events"], o)
  <2>1. row[o] \in Rows /\ row \in [Orders -> Rows \cup {None}] /\ o \in Open
    BY <1>2, RowTyped DEF CancelOrder, Open, IInv, TypeOK
  <2>2. row'[o].remaining = 0
    BY <1>2, <2>1 DEF CancelOrder, Rows
  <2> QED
    BY <1>2, <2>1, <2>2 DEF CancelOrder, consumer, IInv, TypeOK, Topics
<1>3. CASE Engine
  <2>1. CASE \E b, s \in Orders : \E p \in {terms[b].price, terms[s].price} : Match(b, s, p)
    <3>1. PICK b \in Orders, s \in Orders : \E p \in {terms[b].price, terms[s].price} : Match(b, s, p)
      BY <2>1
    <3>2. PICK p : Match(b, s, p)
      BY <3>1
    <3>3. PICK q \in Nat : events'["trades"] =
            Append(events["trades"], [buy |-> b, sell |-> s, price |-> p, qty |-> q])
      BY <1>1, <3>2
    <3>4. /\ applied' = applied /\ worker' = worker
          /\ events'["order-events"] = events["order-events"]
          /\ b \in Open /\ s \in Open /\ p \in Nat
          /\ terms[b].side = "BUY" /\ terms[s].side = "SELL"
      BY <1>1, <3>2
    <3> QED
      BY <3>3, <3>4
  <2>2. CASE \E o \in Orders : CancelOrder(o)
    BY <1>2, <2>2
  <2> QED
    BY <1>3, <2>1, <2>2 DEF Engine
<1>4. CASE ~ Engine
  <2>1. events' = events
    BY <1>4 DEF vars, Next, CreateOrder, Validate, Reserve, ReserveFails, Insert, InsertFails,
       Release, ReleaseFails, Crash, Fetch, Deliver, Consume, SettleTrade,
       ReleaseCancelled, Rollback
  <2> QED
    BY <2>1
<1> QED
  BY <1>3, <1>4

LEMMA EventsStay ==
  ASSUME IInv, [Next]_vars, NEW k \in Topics
  PROVE  /\ Len(events[k]) \in Nat /\ Len(events'[k]) \in Nat
         /\ Len(events[k]) <= Len(events'[k])
         /\ \A i \in 1 .. Len(events[k]) : events'[k][i] = events[k][i]
<1>1. \E S : events[k] \in Seq(S)
  BY DEF IInv, TypeOK, Topics
<1>2. PICK S : events[k] \in Seq(S)
  BY <1>1
<1>3. CASE events'[k] = events[k]
  BY <1>2, <1>3
<1>4. CASE \E e : events'[k] = Append(events[k], e)
  <2>1. PICK e : events'[k] = Append(events[k], e)
    BY <1>4
  <2>2. /\ Len(Append(events[k], e)) = Len(events[k]) + 1
        /\ \A i \in 1 .. Len(events[k]) : Append(events[k], e)[i] = events[k][i]
    BY <1>2
  <2> QED
    BY <1>2, <2>1, <2>2
<1> QED
  BY <1>3, <1>4, EventSteps DEF Topics

LEMMA StepEvents ==
  ASSUME IInv, [Next]_vars
  PROVE  EventsSound'
<1>1. /\ terms' = terms /\ Stored \subseteq Stored'
      /\ \A x \in Stored : row[x].remaining = 0 => row'[x].remaining = 0
  <2>1. ASSUME NEW x \in Stored, row[x].remaining = 0
        PROVE  row'[x].remaining = 0
    BY <2>1, RowSteps DEF RowStep, Rows
  <2> QED
    BY <2>1, TermsStay, RowsStay
<1>2. ASSUME NEW i \in 1 .. Len(events'["trades"])
      PROVE  LET e == events'["trades"][i] IN
             /\ terms[e.buy].side = "BUY" /\ terms[e.sell].side = "SELL"
             /\ e.buy \in Stored /\ e.sell \in Stored
  <2>1. CASE i \in 1 .. Len(events["trades"])
    <3>1. events'["trades"][i] = events["trades"][i]
      BY <2>1, EventsStay DEF Topics
    <3> QED
      BY <2>1, <3>1 DEF IInv, EventsSound
  <2>2. CASE i \notin 1 .. Len(events["trades"])
    <3>1. events'["trades"] # events["trades"]
      BY <2>2
    <3>2. PICK b \in Open, s \in Open, p \in Nat, q \in Nat :
            /\ terms[b].side = "BUY" /\ terms[s].side = "SELL"
            /\ events'["trades"] =
                 Append(events["trades"], [buy |-> b, sell |-> s, price |-> p, qty |-> q])
      BY <3>1, EventSteps
    <3>3. events'["trades"][i] = [buy |-> b, sell |-> s, price |-> p, qty |-> q]
      BY <2>2, <3>2 DEF IInv, TypeOK
    <3> QED
      BY <3>2, <3>3 DEF Open
  <2> QED
    BY <2>1, <2>2
<1>3. ASSUME NEW i \in 1 .. Len(events'["order-events"])
      PROVE  LET o == events'["order-events"][i] IN
             o \in Stored /\ row'[o].remaining = 0
  <2>1. CASE i \in 1 .. Len(events["order-events"])
    <3>1. events'["order-events"][i] = events["order-events"][i]
      BY <2>1, EventsStay DEF Topics
    <3> QED
      BY <1>1, <2>1, <3>1 DEF IInv, EventsSound
  <2>2. CASE i \notin 1 .. Len(events["order-events"])
    <3>1. events'["order-events"] # events["order-events"]
      BY <2>2
    <3>2. PICK o \in Open : /\ row'[o].remaining = 0
                            /\ events'["order-events"] = Append(events["order-events"], o)
      BY <3>1, EventSteps
    <3>3. events'["order-events"][i] = o
      BY <2>2, <3>2 DEF IInv, TypeOK
    <3> QED
      BY <3>2, <3>3 DEF Open
  <2> QED
    BY <2>1, <2>2
<1>4. ASSUME NEW r \in Replicas, NEW k \in Topics, worker'[r][k] # None
      PROVE  worker'[r][k][1] = k /\ worker'[r][k][2] \in 1 .. Len(events'[k])
  <2>1. CASE worker'[r][k] = worker[r][k]
    <3>1. worker[r][k][1] = k /\ worker[r][k][2] \in 1 .. Len(events[k])
      BY <1>4, <2>1 DEF IInv, EventsSound
    <3> QED
      BY <2>1, <3>1, EventsStay
  <2>2. CASE \E i \in 1 .. Len(events[k]) : Deliver(r, k, i)
    <3>1. PICK i \in 1 .. Len(events[k]) : Deliver(r, k, i)
      BY <2>2
    <3>2. worker'[r][k] = <<k, i>> /\ events' = events
      BY <3>1 DEF Deliver, IInv, TypeOK
    <3> QED
      BY <3>2
  <2>3. CASE worker' = [worker EXCEPT ![r][k] = None]
    BY <1>4, <2>3 DEF IInv, TypeOK
  <2> QED
    <3>1. worker \in [Replicas -> [Topics -> Messages \cup {None}]]
      BY DEF IInv, TypeOK
    <3>2. CASE Fetch
      BY <2>1, <2>2, <3>1, <3>2 DEF Fetch, Deliver
    <3>3. ASSUME NEW x \in Replicas, Consume(x)
          PROVE  worker'[r][k] = None \/ worker'[r][k] = worker[r][k]
      <4>1. PICK q \in Topics : worker' = [worker EXCEPT ![x][q] = None]
        BY <3>3, Zenon DEF Consume, SettleTrade, ReleaseCancelled, Rollback, Topics
      <4> QED
        BY <3>1, <4>1
    <3>4. CASE \E x \in Replicas : Consume(x)
      BY <1>4, <2>1, <3>3, <3>4
    <3>5. CASE worker' = worker
      BY <2>1, <3>5
    <3> QED
      BY <3>2, <3>4, <3>5 DEF vars, Next, CreateOrder, Validate, Reserve, ReserveFails,
         Insert, InsertFails, Release, ReleaseFails, Crash, Engine, Match, CancelOrder,
         consumer
<1> QED
  BY <1>1, <1>2, <1>3, <1>4 DEF EventsSound

\* An event is applied by the transaction of the consumer that holds it.
LEMMA AppliedSteps ==
  ASSUME IInv, [Next]_vars, NEW m \in applied', m \notin applied
  PROVE  \E r \in Replicas : \/ SettleTrade(r) /\ m = worker[r]["trades"]
                             \/ ReleaseCancelled(r) /\ m = worker[r]["order-events"]
BY DEF vars, Next, CreateOrder, Validate, Reserve, ReserveFails, Insert, InsertFails,
   Release, ReleaseFails, Crash, Engine, Match, CancelOrder, Fetch, Deliver, Consume,
   SettleTrade, ReleaseCancelled, Rollback, consumer

\* Only a trade of it, or its cancellation, closes an open order.
LEMMA Closing ==
  ASSUME IInv, [Next]_vars, NEW x \in Open, x \notin Open'
  PROVE  \/ \E b, s \in Orders : \E p : Match(b, s, p) /\ x \in {b, s}
         \/ CancelOrder(x)
<1>1. /\ x \in Stored /\ x \in Orders /\ row[x] \in Rows
      /\ row \in [Orders -> Rows \cup {None}]
      /\ row[x].status = "OPEN" /\ row[x].remaining > 0
  BY RowTyped DEF Open, IInv, TypeOK
<1>2. x \in Stored'
  BY <1>1, RowsStay
<1>3. row'[x].status # row[x].status \/ row'[x].remaining # row[x].remaining
  BY <1>1, <1>2 DEF Open
<1>4. CASE UNCHANGED row
  BY <1>3, <1>4
<1>5. ASSUME NEW o \in Orders, CreateOrder(o)
      PROVE  FALSE
  <2>1. CASE Insert(o)
    BY <1>1, <1>3, <2>1 DEF Insert, IInv, HandlerFirst, Stored
  <2>2. CASE Release(o)
    <3>1. row'[x] = row[x] \/ row'[x] = [row[x] EXCEPT !.reserved = 0]
      BY <1>1, <2>2 DEF Release
    <3> QED
      BY <1>1, <1>3, <3>1 DEF Rows
  <2> QED
    BY <1>3, <1>5, <2>1, <2>2 DEF CreateOrder, Validate, Reserve, ReserveFails,
       InsertFails, ReleaseFails, Crash
<1>6. ASSUME NEW r \in Replicas, Consume(r)
      PROVE  FALSE
  <2>1. CASE SettleTrade(r)
    <3>1. row'[x] = row[x] \/ \E n : row'[x] = [row[x] EXCEPT !.reserved = n]
      BY <1>1, <2>1, TradeHeld DEF SettleTrade, Stored
    <3> QED
      BY <1>1, <1>3, <3>1 DEF Rows
  <2>2. CASE ReleaseCancelled(r)
    <3>1. row'[x] = row[x] \/ row'[x] = [row[x] EXCEPT !.reserved = 0]
      BY <1>1, <2>2 DEF ReleaseCancelled
    <3> QED
      BY <1>1, <1>3, <3>1 DEF Rows
  <2> QED
    BY <1>3, <1>6, <2>1, <2>2 DEF Consume, Rollback
<1>7. ASSUME NEW b \in Orders, NEW s \in Orders, NEW p, Match(b, s, p)
      PROVE  x \in {b, s}
  BY <1>1, <1>3, <1>7 DEF Match
<1>8. ASSUME NEW o \in Orders, CancelOrder(o)
      PROVE  o = x
  BY <1>1, <1>3, <1>8 DEF CancelOrder
<1> QED
  BY <1>3, <1>4, <1>5, <1>6, <1>7, <1>8 DEF Next, Engine, Fetch, Deliver, vars

LEMMA StepDue ==
  ASSUME IInv, [Next]_vars
  PROVE  ReleaseDue'
<1> SUFFICES ASSUME NEW x \in Stored', x \notin Open'
             PROVE  row'[x].reserved = 0 \/ TradeDue(x)' \/ CancelDue(x)'
  BY DEF ReleaseDue
<1>1. x \in Stored
  <2>1. SUFFICES ASSUME x \notin Stored PROVE FALSE
    OBVIOUS
  <2>2. row'[x] = [remaining |-> terms[x].qty, status |-> "OPEN",
                   reserved  |-> Need(x, terms[x].qty)]
    BY <2>1, NewRow
  <2>3. terms[x].qty \in Nat \ {0}
    BY TermsTyped DEF IInv, Terms, Stored
  <2> QED
    BY <2>2, <2>3 DEF Open
<1>2. \A m \in applied : m[2] <= Len(events[m[1]])
  BY DEF IInv, TypeOK
<1>3. CASE x \in Open
  <2>1. ASSUME NEW b \in Orders, NEW s \in Orders, NEW p, Match(b, s, p), x \in {b, s}
        PROVE  TradeDue(x)'
    <3> DEFINE n == Len(events["trades"]) + 1
    <3>1. PICK q : events'["trades"] =
            Append(events["trades"], [buy |-> b, sell |-> s, price |-> p, qty |-> q])
      BY <2>1 DEF Match, IInv, TypeOK, Topics
    <3>2. /\ Len(events'["trades"]) = n /\ n \in 1 .. n
          /\ events'["trades"][n] = [buy |-> b, sell |-> s, price |-> p, qty |-> q]
      BY <3>1 DEF IInv, TypeOK
    <3>3. <<"trades", n>> \notin applied'
      <4>1. applied' = applied
        BY <2>1 DEF Match, consumer
      <4>2. Len(events["trades"]) \in Nat
        BY DEF IInv, TypeOK
      <4> QED
        BY <1>2, <4>1, <4>2
    <3>4. x \in {events'["trades"][n].buy, events'["trades"][n].sell}
      BY <2>1, <3>2
    <3> HIDE DEF n
    <3> QED
      BY <3>2, <3>3, <3>4 DEF TradeDue
  <2>2. CASE CancelOrder(x)
    <3> DEFINE n == Len(events["order-events"]) + 1
    <3>1. events'["order-events"] = Append(events["order-events"], x)
      BY <2>2 DEF CancelOrder, IInv, TypeOK, Topics
    <3>2. /\ Len(events'["order-events"]) = n /\ n \in 1 .. n
          /\ events'["order-events"][n] = x
      BY <3>1 DEF IInv, TypeOK
    <3>3. <<"order-events", n>> \notin applied'
      <4>1. applied' = applied
        BY <2>2 DEF CancelOrder, consumer
      <4>2. Len(events["order-events"]) \in Nat
        BY DEF IInv, TypeOK
      <4> QED
        BY <1>2, <4>1, <4>2
    <3> HIDE DEF n
    <3> QED
      BY <3>2, <3>3 DEF CancelDue
  <2> QED
    BY <1>3, <2>1, <2>2, Closing
<1>4. CASE x \notin Open
  <2>1. /\ x \in Orders /\ row[x] \in Rows /\ row[x].remaining = 0
        /\ row \in [Orders -> Rows \cup {None}]
        /\ Need(x, row[x].remaining) = 0
    <3>1. x \in Orders /\ row[x] \in Rows /\ row \in [Orders -> Rows \cup {None}]
      BY <1>1, RowTyped DEF IInv, TypeOK
    <3>2. row[x].remaining = 0
      BY <1>1, <1>4, <3>1 DEF Open, Rows, IInv, CancelledIsClosed
    <3> QED
      BY <3>1, <3>2, NeedZero DEF IInv
  <2>2. row'[x].remaining = 0
    BY <1>1, <2>1, RowSteps DEF RowStep, Rows
  <2>3. CASE row[x].reserved = 0
    BY <1>1, <2>1, <2>2, <2>3, RowSteps, NeedZero DEF RowStep, IInv
  <2>4. CASE TradeDue(x)
    <3>1. PICK i \in 1 .. Len(events["trades"]) :
            /\ <<"trades", i>> \notin applied
            /\ x \in {events["trades"][i].buy, events["trades"][i].sell}
      BY <2>4 DEF TradeDue
    <3>2. i \in 1 .. Len(events'["trades"]) /\ events'["trades"][i] = events["trades"][i]
      BY EventsStay DEF Topics
    <3>3. CASE <<"trades", i>> \notin applied'
      BY <3>1, <3>2, <3>3 DEF TradeDue
    <3>4. ASSUME NEW r \in Replicas, SettleTrade(r), <<"trades", i>> = worker[r]["trades"]
          PROVE  row'[x].reserved = 0
      <4> DEFINE t == Event(worker[r]["trades"])
      <4>1. t = events["trades"][i] /\ t.buy \in Stored /\ t.sell \in Stored /\ t.buy # t.sell
        <5>1. worker[r]["trades"] # None
          BY <3>4 DEF SettleTrade
        <5>2. worker[r]["trades"][2] = i
          BY <3>4
        <5>3. QED
          BY <5>1, <5>2, TradeHeld, SMTT(30)
      <4>2. row' = [row EXCEPT ![t.buy].reserved  = Need(t.buy, row[t.buy].remaining),
                              ![t.sell].reserved = Need(t.sell, row[t.sell].remaining)]
        BY <3>4 DEF SettleTrade
      <4>3. row'[x] = [row[x] EXCEPT !.reserved = Need(x, row[x].remaining)]
        BY <2>1, <3>1, <4>1, <4>2
      <4> QED
        BY <2>1, <4>3 DEF Rows
    <3>5. CASE <<"trades", i>> \in applied'
      <4>1. PICK r \in Replicas :
              \/ SettleTrade(r) /\ <<"trades", i>> = worker[r]["trades"]
              \/ ReleaseCancelled(r) /\ <<"trades", i>> = worker[r]["order-events"]
        BY <3>1, <3>5, AppliedSteps
      <4>2. CASE ReleaseCancelled(r) /\ <<"trades", i>> = worker[r]["order-events"]
        <5>1. worker[r]["order-events"][1] = "order-events"
          BY <4>2, CancelHeld DEF ReleaseCancelled
        <5> QED
          BY <4>2, <5>1
      <4> QED
        BY <3>4, <4>1, <4>2
    <3> QED
      BY <3>3, <3>5
  <2>5. CASE CancelDue(x)
    <3>1. PICK i \in 1 .. Len(events["order-events"]) :
            <<"order-events", i>> \notin applied /\ events["order-events"][i] = x
      BY <2>5 DEF CancelDue
    <3>2. /\ i \in 1 .. Len(events'["order-events"])
          /\ events'["order-events"][i] = events["order-events"][i]
      BY EventsStay DEF Topics
    <3>3. CASE <<"order-events", i>> \notin applied'
      BY <3>1, <3>2, <3>3 DEF CancelDue
    <3>4. ASSUME NEW r \in Replicas, ReleaseCancelled(r),
                 <<"order-events", i>> = worker[r]["order-events"]
          PROVE  row'[x].reserved = 0
      <4>1. Event(worker[r]["order-events"]) = x
        BY <3>1, <3>4, CancelHeld DEF ReleaseCancelled
      <4>2. row' = [row EXCEPT ![x].reserved = 0]
        BY <3>4, <4>1 DEF ReleaseCancelled
      <4> QED
        BY <2>1, <4>2 DEF Rows
    <3>5. CASE <<"order-events", i>> \in applied'
      <4>1. PICK r \in Replicas :
              \/ SettleTrade(r) /\ <<"order-events", i>> = worker[r]["trades"]
              \/ ReleaseCancelled(r) /\ <<"order-events", i>> = worker[r]["order-events"]
        BY <3>1, <3>5, AppliedSteps
      <4>2. CASE SettleTrade(r) /\ <<"order-events", i>> = worker[r]["trades"]
        <5>1. worker[r]["trades"][1] = "trades"
          BY <4>2, TradeHeld DEF SettleTrade
        <5> QED
          BY <4>2, <5>1
      <4> QED
        BY <3>4, <4>1, <4>2
    <3> QED
      BY <3>3, <3>5
  <2> QED
    BY <1>1, <1>4, <2>3, <2>4, <2>5 DEF IInv, ReleaseDue
<1> QED
  BY <1>3, <1>4

-----------------------------------------------------------------------------
(* The ledger: what the settled trades have moved *)

Amounts(a) == [i \in DOMAIN events["trades"] |-> Gives(events["trades"][i], a)]
Party(t, a, gives) == Owner(IF (a = "cash") = gives THEN t.buy ELSE t.sell)

LEMMA MovedTyped ==
  ASSUME TypeOK, NEW u, NEW a, NEW gives
  PROVE  /\ IsFiniteSet(Applied(u, a, gives))
         /\ Values(Amounts(a), Applied(u, a, gives))
         /\ Moved(u, a, gives) = SumFunctionOnSet(Amounts(a), Applied(u, a, gives))
         /\ Moved(u, a, gives) \in Int
<1>1. events["trades"] \in Seq(Trades) /\ Len(events["trades"]) \in Nat
  BY DEF TypeOK
<1>2. DOMAIN events["trades"] = 1 .. Len(events["trades"])
  BY <1>1
<1>3. IsFiniteSet(1 .. Len(events["trades"]))
  BY <1>1, FS_Interval
<1>4. IsFiniteSet(Applied(u, a, gives))
  BY <1>2, <1>3, FS_Subset DEF Applied
<1>5. ASSUME NEW i \in DOMAIN events["trades"]
      PROVE  Amounts(a)[i] \in Int
  <2>1. events["trades"][i] \in Trades
    BY <1>1, <1>2
  <2>2. /\ events["trades"][i].price \in Nat /\ events["trades"][i].qty \in Nat
        /\ events["trades"][i].price * events["trades"][i].qty \in Nat
    BY <2>1, Product DEF Trades
  <2>3. QED
    BY <2>2 DEF Amounts, Gives, Value
<1>6. Values(Amounts(a), Applied(u, a, gives))
  BY <1>5 DEF Values, Applied
<1>7. Moved(u, a, gives) = SumFunctionOnSet(Amounts(a), Applied(u, a, gives))
  BY DEF Moved, Amounts
<1>8. QED
  BY <1>4, <1>6, <1>7, SumInt

\* A trade that is applied stays what it was.
LEMMA AmountsStay ==
  ASSUME IInv, [Next]_vars, NEW a, NEW i \in DOMAIN events["trades"]
  PROVE  i \in DOMAIN events'["trades"] /\ Amounts(a)'[i] = Amounts(a)[i]
<1>1. events["trades"] \in Seq(Trades)
  BY DEF IInv, TypeOK
<1>2. i \in 1 .. Len(events["trades"])
  BY <1>1
<1>3. events'["trades"][i] = events["trades"][i]
  BY <1>2, EventsStay DEF Topics
<1>4. i \in 1 .. Len(events'["trades"])
  BY <1>2, EventsStay DEF Topics
<1>5. i \in DOMAIN events'["trades"]
  <2>1. TypeOK'
    BY StepTypeOK
  <2>2. events'["trades"] \in Seq(Trades)
    BY <2>1 DEF TypeOK
  <2>3. QED
    BY <1>4, <2>2
<1>6. QED
  BY <1>3, <1>5 DEF Amounts, Gives, Value

\* Unless a trade is applied, nothing moves.
LEMMA NothingMoved ==
  ASSUME IInv, [Next]_vars, NEW u, NEW a, NEW gives,
         \A i \in Nat : <<"trades", i>> \in applied' <=> <<"trades", i>> \in applied
  PROVE  Moved(u, a, gives)' = Moved(u, a, gives)
<1>1. TypeOK /\ terms' = terms
  BY TermsStay DEF IInv
<1>2. /\ DOMAIN events["trades"] = 1 .. Len(events["trades"])
      /\ DOMAIN events'["trades"] = 1 .. Len(events'["trades"])
      /\ Len(events["trades"]) \in Nat
  BY <1>1, StepTypeOK DEF TypeOK
<1>3. ASSUME NEW i \in DOMAIN events'["trades"], <<"trades", i>> \in applied'
      PROVE  i \in DOMAIN events["trades"]
  <2>1. i \in Nat \ {0}
    <3>1. TypeOK'
      BY StepTypeOK
    <3>2. <<"trades", i>> \in Messages
      BY <1>3, <3>1 DEF TypeOK
    <3>3. QED
      BY <3>2 DEF Messages
  <2>2. <<"trades", i>> \in applied
    BY <1>3, <2>1
  <2>3. i <= Len(events["trades"])
    BY <1>1, <2>2 DEF TypeOK
  <2>4. QED
    BY <1>2, <2>1, <2>3
<1>4. ASSUME NEW i \in DOMAIN events["trades"]
      PROVE  /\ i \in DOMAIN events'["trades"] /\ events'["trades"][i] = events["trades"][i]
             /\ <<"trades", i>> \in applied' <=> <<"trades", i>> \in applied
  BY <1>2, AmountsStay, EventsStay DEF Topics
<1>5. Applied(u, a, gives)' = Applied(u, a, gives)
  BY <1>1, <1>3, <1>4 DEF Applied, Owner
<1>6. \A i \in Applied(u, a, gives) : Amounts(a)'[i] = Amounts(a)[i]
  BY AmountsStay DEF Applied
<1>7. Moved(u, a, gives)' = SumFunctionOnSet(Amounts(a)', Applied(u, a, gives)')
  BY DEF Moved, Amounts
<1>8. QED
  BY <1>1, <1>5, <1>6, <1>7, MovedTyped, SumSame

\* A trade that is applied moves its value and its quantity.
LEMMA TradeMoved ==
  ASSUME IInv, [Next]_vars, NEW r \in Replicas, SettleTrade(r), NEW u, NEW a, NEW gives,
         NEW t, t = Event(worker[r]["trades"])
  PROVE  Moved(u, a, gives)' = Moved(u, a, gives)
                                 + (IF u = Party(t, a, gives) THEN Gives(t, a) ELSE 0)
<1> DEFINE i == worker[r]["trades"][2]
<1>1. TypeOK /\ terms' = terms /\ events' = events
  BY TermsStay DEF IInv, SettleTrade
<1>2. /\ worker[r]["trades"] \in Messages /\ worker[r]["trades"][1] = "trades"
      /\ i \in 1 .. Len(events["trades"]) /\ t = events["trades"][i]
  BY TradeHeld DEF SettleTrade
<1>3. worker[r]["trades"] = <<"trades", i>>
  BY <1>2 DEF Messages
<1>4. <<"trades", i>> \notin applied /\ applied' = applied \cup {<<"trades", i>>}
  BY <1>3 DEF SettleTrade, Fresh
<1>5. i \in DOMAIN events["trades"]
  BY <1>1, <1>2 DEF TypeOK
<1> HIDE DEF i
<1>6. Moved(u, a, gives)' = SumFunctionOnSet(Amounts(a), Applied(u, a, gives)')
  BY <1>1 DEF Moved, Amounts, Gives, Value
<1>7. Amounts(a)[i] = Gives(t, a) /\ i \notin Applied(u, a, gives)
  BY <1>2, <1>4, <1>5 DEF Amounts, Applied
<1>8. CASE u = Party(t, a, gives)
  <2>1. Applied(u, a, gives)' = Applied(u, a, gives) \cup {i}
    <3>1. ASSUME NEW k
          PROVE  k \in Applied(u, a, gives)' <=> k \in Applied(u, a, gives) \/ k = i
      <4>1. CASE k = i
        <5>1. k \in Applied(u, a, gives)'
          BY <1>1, <1>2, <1>4, <1>5, <1>8, <4>1, Zenon DEF Applied, Party, Owner
        <5>2. QED
          BY <4>1, <5>1
      <4>2. CASE k # i
        <5>1. <<"trades", k>> \in applied' <=> <<"trades", k>> \in applied
          BY <1>4, <4>2
        <5>2. QED
          BY <1>1, <4>2, <5>1, Zenon DEF Applied, Owner
      <4>3. QED
        BY <4>1, <4>2
    <3>2. QED
      BY <3>1, Zenon
  <2>2. Gives(t, a) \in Int
    <3>1. Value(t) \in Nat /\ t.qty \in Nat
      BY TradeHeld DEF SettleTrade
    <3>2. QED
      BY <3>1 DEF Gives
  <2> DEFINE amounts == Amounts(a)
             before  == Applied(u, a, gives)
  <2>3. IsFiniteSet(before) /\ Values(amounts, before) /\ i \notin before /\ amounts[i] \in Int
    BY <1>1, <1>7, <2>2, MovedTyped
  <2>4. Moved(u, a, gives) = SumFunctionOnSet(amounts, before)
    BY <1>1, MovedTyped
  <2>5. Moved(u, a, gives)' = SumFunctionOnSet(amounts, before \cup {i})
    BY <1>6, <2>1
  <2>6. amounts[i] = Gives(t, a)
    BY <1>7
  <2> HIDE DEF amounts, before
  <2>7. SumFunctionOnSet(amounts, before \cup {i}) = SumFunctionOnSet(amounts, before) + amounts[i]
    BY <2>3, SumAdd
  <2>8. QED
    BY <1>8, <2>4, <2>5, <2>6, <2>7
<1>9. CASE u # Party(t, a, gives)
  <2>1. Applied(u, a, gives)' = Applied(u, a, gives)
    BY <1>1, <1>2, <1>4, <1>5, <1>9, Zenon DEF Applied, Party, Owner
  <2>2. QED
    BY <1>1, <1>6, <1>9, <2>1, MovedTyped
<1>10. QED
  BY <1>8, <1>9

\* What u has got of asset a, and given.
Got(u, a)   == Moved(u, a, FALSE)
Given(u, a) == Moved(u, a, TRUE)

LEMMA GotGiven ==
  ASSUME TypeOK, NEW u, NEW a
  PROVE  Got(u, a) \in Int /\ Given(u, a) \in Int
<1>1. \A gives : Moved(u, a, gives) \in Int
  BY MovedTyped
<1>2. QED
  BY <1>1, Zenon DEF Got, Given

LEMMA InitLedger == Init => LedgerIsSettledTrades
<1> SUFFICES ASSUME Init, NEW u \in Users, NEW a \in Assets
             PROVE  owned[a][u] = Endowment[a][u] + Got(u, a) - Given(u, a)
  BY DEF LedgerIsSettledTrades, Got, Given
<1>1. \A gives : Moved(u, a, gives) = 0
  <2>1. ASSUME NEW gives PROVE Applied(u, a, gives) = {}
    BY DEF Init, Applied
  <2>2. QED
    BY <2>1, SumEmpty DEF Moved
<1>2. Got(u, a) = 0 /\ Given(u, a) = 0
  BY <1>1, Zenon DEF Got, Given
<1>3. owned[a][u] = Endowment[a][u] /\ Endowment[a][u] \in Nat
  BY EndowmentAssumption DEF Init
<1>4. QED
  BY <1>2, <1>3

LEMMA StepLedger ==
  ASSUME IInv, LedgerIsSettledTrades, [Next]_vars
  PROVE  LedgerIsSettledTrades'
<1> SUFFICES ASSUME NEW u \in Users, NEW a \in Assets
             PROVE  owned'[a][u] = Endowment[a][u] + Got(u, a)' - Given(u, a)'
  BY DEF LedgerIsSettledTrades, Got, Given
<1>1. owned[a][u] = Endowment[a][u] + Got(u, a) - Given(u, a)
  BY DEF LedgerIsSettledTrades, Got, Given
<1>2. /\ Endowment[a][u] \in Nat
      /\ Got(u, a) \in Int /\ Given(u, a) \in Int
  BY EndowmentAssumption, GotGiven DEF IInv
<1>3. ASSUME NEW r \in Replicas, SettleTrade(r)
      PROVE  owned'[a][u] = Endowment[a][u] + Got(u, a)' - Given(u, a)'
  <2>1. PICK t : t = Event(worker[r]["trades"])
    OBVIOUS
  <2> DEFINE buyer  == Owner(t.buy)
             seller == Owner(t.sell)
             payee  == IF a = "cash" THEN seller ELSE buyer
             payer  == IF a = "cash" THEN buyer ELSE seller
             gain   == IF u = payee THEN Gives(t, a) ELSE 0
             loss   == IF u = payer THEN Gives(t, a) ELSE 0
  <2>2. \A gives : Moved(u, a, gives)' = Moved(u, a, gives)
                          + (IF u = Party(t, a, gives) THEN Gives(t, a) ELSE 0)
    BY <1>3, <2>1, TradeMoved
  <2>3. Party(t, a, FALSE) = payee /\ Party(t, a, TRUE) = payer
    BY Zenon DEF Party
  <2>4. Got(u, a)' = Got(u, a) + gain /\ Given(u, a)' = Given(u, a) + loss
    <3>1. /\ Got(u, a)' = Got(u, a) + (IF u = Party(t, a, FALSE) THEN Gives(t, a) ELSE 0)
          /\ Given(u, a)' = Given(u, a) + (IF u = Party(t, a, TRUE) THEN Gives(t, a) ELSE 0)
      BY <2>2, Zenon DEF Got, Given
    <3> HIDE DEF payee, payer
    <3>2. QED
      BY <2>3, <3>1, Zenon
  <2>5. owned'[a][u] = owned[a][u] + gain - loss
    BY <1>3, <2>1 DEF SettleTrade, Assets
  <2>6. gain \in Int /\ loss \in Int
    <3>1. Value(t) \in Nat /\ t.qty \in Nat
      BY <1>3, <2>1, TradeHeld DEF SettleTrade
    <3>2. QED
      BY <3>1 DEF Gives
  <2> HIDE DEF gain, loss
  <2>7. QED
    BY <1>1, <1>2, <2>4, <2>5, <2>6
<1>4. CASE \A r \in Replicas : ~ SettleTrade(r)
  <2>1. owned' = owned
    BY <1>4 DEF vars, Next, CreateOrder, Validate, Reserve, ReserveFails, Insert,
       InsertFails, Release, ReleaseFails, Crash, Engine, Match, CancelOrder, Fetch,
       Deliver, Consume, ReleaseCancelled, Rollback
  <2>2. applied \subseteq applied'
    BY <1>4 DEF vars, Next, CreateOrder, Validate, Reserve, ReserveFails, Insert,
       InsertFails, Release, ReleaseFails, Crash, Engine, Match, CancelOrder, Fetch,
       Deliver, Consume, ReleaseCancelled, Rollback, consumer
  <2>3. ASSUME NEW i \in Nat, <<"trades", i>> \in applied', <<"trades", i>> \notin applied
        PROVE  FALSE
    <3>1. PICK r \in Replicas : /\ ReleaseCancelled(r)
                                /\ <<"trades", i>> = worker[r]["order-events"]
      BY <1>4, <2>3, AppliedSteps
    <3>2. worker[r]["order-events"][1] = "order-events"
      BY <3>1, CancelHeld DEF ReleaseCancelled
    <3>3. QED
      BY <3>1, <3>2
  <2>4. \A gives : Moved(u, a, gives)' = Moved(u, a, gives)
    BY <2>2, <2>3, NothingMoved
  <2>5. Got(u, a)' = Got(u, a) /\ Given(u, a)' = Given(u, a)
    BY <2>4, Zenon DEF Got, Given
  <2>6. QED
    BY <1>1, <2>1, <2>5
<1>5. QED
  BY <1>3, <1>4

-----------------------------------------------------------------------------
(* The reserved amounts: what the orders claim to have reserved *)

\* What order o claims, stored or not.
Claim(o) ==
  IF Pending(o) THEN Need(o, terms[o].qty)
  ELSE IF row[o] = None THEN 0 ELSE row[o].reserved
Claims == [o \in Orders |-> Claim(o)]
Holders(u, a) == {o \in Orders : Owner(o) = u /\ Asset(o) = a}

LEMMA ClaimTyped ==
  ASSUME TypeOK, NEW o \in Orders
  PROVE  Claim(o) \in Nat /\ Claims[o] = Claim(o) /\ Need(o, terms[o].qty) \in Nat
<1>1. terms[o].qty \in Nat
  BY TermsTyped DEF Terms
<1>2. Need(o, terms[o].qty) \in Nat
  BY <1>1, NeedMonotone
<1>3. row[o] # None => row[o].reserved \in Nat
  BY DEF TypeOK, Rows
<1>4. QED
  BY <1>2, <1>3 DEF Claim, Claims

LEMMA ClaimTypedNext ==
  ASSUME IInv, [Next]_vars, NEW o \in Orders
  PROVE  Claim(o)' \in Nat /\ Claims'[o] = Claim(o)'
<1>1. Need(o, terms[o].qty)' \in Nat
  BY TermsStay, ClaimTyped DEF IInv, Need
<1>2. row'[o] # None => row'[o].reserved \in Nat
  BY StepTypeOK DEF TypeOK, Rows
<1>3. QED
  BY <1>1, <1>2 DEF Claim, Claims

LEMMA BackedTyped ==
  ASSUME TypeOK, NEW u, NEW a
  PROVE  /\ IsFiniteSet(Holders(u, a)) /\ Values(Claims, Holders(u, a))
         /\ Backed(u, a) = SumFunctionOnSet(Claims, Holders(u, a))
         /\ Backed(u, a) \in Nat
         /\ \A o \in Holders(u, a) : Claim(o) <= Backed(u, a)
<1>1. IsFiniteSet(Holders(u, a))
  BY OrdersAssumption, FS_Subset DEF Holders
<1>2. \A o \in Holders(u, a) : Claims[o] \in Nat /\ Claims[o] = Claim(o)
  BY ClaimTyped DEF Holders
<1>3. Backed(u, a) = SumFunctionOnSet(Claims, Holders(u, a))
  BY DEF Backed, Claims, Claim, Holders
<1>4. QED
  BY <1>1, <1>2, <1>3, SumNat DEF Values

\* What a step does to the claims of at most one order of u for asset a, it does
\* to their sum.
LEMMA BackedStep ==
  ASSUME IInv, [Next]_vars, NEW u, NEW a, NEW x,
         \A o \in Orders \ {x} : Asset(o) = a => Claim(o)' = Claim(o)
  PROVE  Backed(u, a)' = Backed(u, a)
           + (IF x \in Holders(u, a) THEN Claim(x)' - Claim(x) ELSE 0)
<1>1. TypeOK /\ terms' = terms
  BY TermsStay DEF IInv
<1>2. Holders(u, a)' = Holders(u, a)
  BY <1>1 DEF Holders, Owner, Asset
<1>3. Backed(u, a)' = SumFunctionOnSet(Claims', Holders(u, a))
  <2>1. Backed(u, a)' = SumFunctionOnSet(Claims', Holders(u, a)')
    BY DEF Backed, Claims, Claim, Holders
  <2>2. QED
    BY <1>2, <2>1
<1>4. \A o \in Holders(u, a) : o \in Orders /\ Asset(o) = a
  BY DEF Holders
<1>5. Values(Claims', Holders(u, a))
  BY <1>4, ClaimTypedNext DEF Values
<1>6. \A o \in Holders(u, a) \ {x} : Claims'[o] = Claims[o]
  BY <1>1, <1>4, ClaimTyped, ClaimTypedNext
<1>7. CASE x \in Holders(u, a)
  <2>1. Backed(u, a)' = Backed(u, a) - Claims[x] + Claims'[x]
    BY <1>1, <1>3, <1>5, <1>6, <1>7, BackedTyped, SumChange
  <2>2. /\ Claims[x] = Claim(x) /\ Claims'[x] = Claim(x)' /\ Backed(u, a) \in Nat
        /\ Claim(x) \in Nat /\ Claim(x)' \in Nat
    BY <1>1, <1>4, <1>7, ClaimTyped, ClaimTypedNext, BackedTyped
  <2>3. QED
    BY <1>7, <2>1, <2>2
<1>8. CASE x \notin Holders(u, a)
  <2>1. Backed(u, a)' = Backed(u, a)
    BY <1>1, <1>3, <1>6, <1>8, BackedTyped, SumSame
  <2>2. Backed(u, a) \in Nat
    BY <1>1, BackedTyped
  <2>3. QED
    BY <1>8, <2>1, <2>2
<1>9. QED
  BY <1>7, <1>8

LEMMA ClaimsStay ==
  ASSUME IInv, [Next]_vars, NEW u \in Users, NEW a \in Assets, held' = held,
         \A o \in Orders : Claim(o)' = Claim(o)
  PROVE  Backed(u, a)' = Backed(u, a) /\ held'[a][u] = held[a][u]
<1>1. Backed(u, a)' = Backed(u, a)
           + (IF None \in Holders(u, a) THEN Claim(None)' - Claim(None) ELSE 0)
  BY BackedStep
<1>2. Backed(u, a) \in Nat
  BY BackedTyped DEF IInv
<1>3. None \in Holders(u, a) => Claim(None)' = Claim(None) /\ Claim(None) \in Nat
  BY ClaimTyped DEF Holders, IInv
<1>4. QED
  BY <1>1, <1>2, <1>3

\* The reservations of asset a are accounted for: a stored sale that is taken for
\* a failed insert may be released twice.
Accounted(a) == a = "cash" \/ Never({"insertunknown"})

\* A handler changes its order's claim and the owner's reserved amount alike.
LEMMA HandlerClaims ==
  ASSUME IInv, NEW o \in Orders, CreateOrder(o), Accounted(Asset(o))
  PROVE  /\ \A y \in Orders \ {o} : Claim(y)' = Claim(y)
         /\ \A a \in Assets, u \in Users :
              a # Asset(o) \/ u # Owner(o) => held'[a][u] = held[a][u]
         /\ held'[Asset(o)][Owner(o)] - Claim(o)' = held[Asset(o)][Owner(o)] - Claim(o)
<1> DEFINE need == Need(o, terms[o].qty)
           h == held[Asset(o)][Owner(o)]
           n == held'[Asset(o)][Owner(o)]
           c == Claim(o)
           d == Claim(o)'
<1>1. /\ http \in [Orders -> Phases] /\ row \in [Orders -> Rows \cup {None}]
      /\ held \in [Assets -> [Users -> Nat]] /\ terms' = terms
      /\ Owner(o) \in Users /\ Asset(o) \in Assets /\ h \in Nat
      /\ need \in Nat /\ c \in Nat
  <2>1. terms' = terms
    BY DEF CreateOrder, Validate, Reserve, ReserveFails, Insert, InsertFails,
       Release, ReleaseFails, Crash
  <2>2. Owner(o) \in Users /\ Asset(o) \in Assets /\ need \in Nat /\ Claim(o) \in Nat
    BY TermsTyped, ClaimTyped DEF IInv
  <2>3. QED
    BY <2>1, <2>2 DEF IInv, TypeOK
<1>2. ASSUME NEW y \in Orders \ {o} PROVE Claim(y)' = Claim(y)
  <2>1. http'[y] = http[y] /\ row'[y] = row[y]
    BY <1>1 DEF CreateOrder, Validate, Reserve, ReserveFails, Insert, InsertFails,
       Release, ReleaseFails, Crash
  <2>2. QED
    BY <1>1, <2>1 DEF Claim, Pending, Need
<1>3. \A a \in Assets, u \in Users :
        a # Asset(o) \/ u # Owner(o) => held'[a][u] = held[a][u]
  BY <1>1 DEF CreateOrder, Validate, Reserve, ReserveFails, Insert, InsertFails,
     Release, ReleaseFails, Crash
<1>4. /\ http[o] \in {"none", "validated", "reserved"} => row[o] = None
      /\ http[o] = "releasing" /\ Asset(o) # "cash" => row[o] = None
      /\ Need(o, terms[o].qty)' = need
  BY <1>1 DEF IInv, HandlerFirst, Accounted, Never, Need
<1>5. ASSUME row'[o] = None
      PROVE  d = IF http'[o] \in {"reserved", "releasing", "lost"} THEN need ELSE 0
  BY <1>4, <1>5 DEF Claim, Pending
<1>6. ASSUME row[o] = None
      PROVE  c = IF http[o] \in {"reserved", "releasing", "lost"} THEN need ELSE 0
  BY <1>6 DEF Claim, Pending
<1>7. ASSUME row' = row,
             http'[o] \in {"reserved", "releasing", "lost"}
               <=> http[o] \in {"reserved", "releasing", "lost"}
      PROVE  d = c
  BY <1>1, <1>7 DEF Claim, Pending, Need
<1> HIDE DEF need, h, n, c, d
<1> SUFFICES n - d = h - c
  BY <1>2, <1>3 DEF h, n, c, d
<1>8. CASE Validate(o) \/ ReserveFails(o)
  <2>1. /\ row' = row /\ n = h
        /\ http[o] \notin {"reserved", "releasing", "lost"}
        /\ http'[o] \notin {"reserved", "releasing", "lost"}
    BY <1>1, <1>8 DEF Validate, ReserveFails, h, n
  <2>2. QED
    BY <1>1, <1>7, <2>1
<1>9. CASE Reserve(o)
  <2>1. /\ row[o] = None /\ row' = row /\ n = h + need
        /\ http[o] = "validated" /\ http'[o] \in {"reserved", "lost"}
    BY <1>1, <1>4, <1>9 DEF Reserve, need, h, n
  <2>2. c = 0 /\ d = need
    BY <1>5, <1>6, <2>1
  <2>3. QED
    BY <1>1, <2>1, <2>2
<1>10. CASE Insert(o)
  <2>1. /\ row[o] = None /\ n = h /\ http[o] = "reserved"
        /\ row'[o] = [remaining |-> terms[o].qty, status |-> "OPEN", reserved |-> need]
    BY <1>1, <1>4, <1>10 DEF Insert, need, h, n
  <2>2. c = need
    BY <1>6, <2>1
  <2>3. row'[o] # None
    <3>1. [remaining |-> terms[o].qty, status |-> "OPEN", reserved |-> need] \in Rows
      BY <1>1, TermsTyped DEF Rows, Terms, IInv
    <3>2. QED
      BY <2>1, <3>1, NoneAssumption
  <2>4. d = need
    BY <2>1, <2>3 DEF Claim, Pending, d
  <2>5. QED
    BY <1>1, <2>1, <2>2, <2>4
<1>11. CASE InsertFails(o) \/ ReleaseFails(o) \/ Crash(o)
  <2>1. /\ row' = row /\ n = h
        /\ http'[o] \in {"reserved", "releasing", "lost"}
             <=> http[o] \in {"reserved", "releasing", "lost"}
    BY <1>1, <1>11 DEF InsertFails, ReleaseFails, Crash, h, n
  <2>2. QED
    BY <1>1, <1>7, <2>1
<1>12. CASE Release(o)
  <2>1. /\ http[o] = "releasing" /\ http'[o] = "done"
        /\ n = h - ReleaseAmount(o)
    BY <1>1, <1>12 DEF Release, h, n
  <2>2. CASE row[o] = None
    <3>1. row' = row /\ ReleaseAmount(o) = need
      BY <1>12, <2>2 DEF Release, ReleaseAmount, need
    <3>2. c = need /\ d = 0
      BY <1>5, <1>6, <2>1, <2>2, <3>1
    <3>3. QED
      BY <1>1, <2>1, <3>1, <3>2
  <2>3. CASE row[o] # None
    <3>1. row[o] \in Rows /\ terms[o].side # "SELL"
      BY <1>1, <1>4, <2>1, <2>3 DEF Asset
    <3>2. ReleaseAmount(o) = row[o].reserved /\ c = row[o].reserved
      BY <2>3, <3>1 DEF ReleaseAmount, c, Claim, Pending
    <3>3. row'[o] = [row[o] EXCEPT !.reserved = 0]
      BY <1>1, <1>12, <2>3 DEF Release
    <3>4. row'[o] \in Rows /\ row'[o].reserved = 0
      BY <3>1, <3>3 DEF Rows
    <3>5. d = 0
      BY <3>4, NoneAssumption DEF d, Claim, Pending
    <3>6. QED
      BY <1>1, <2>1, <3>2, <3>5
  <2>4. QED
    BY <2>2, <2>3
<1>13. QED
  BY <1>8, <1>9, <1>10, <1>11, <1>12 DEF CreateOrder

\* Settling a trade takes what its orders no longer need from claim and amount.
LEMMA SettleClaims ==
  ASSUME IInv, [Next]_vars, NEW r \in Replicas, SettleTrade(r),
         NEW u \in Users, NEW a \in Assets
  PROVE  held'[a][u] - Backed(u, a)' = held[a][u] - Backed(u, a)
<1>1. PICK t : t = Event(worker[r]["trades"])
  OBVIOUS
<1> DEFINE x == IF a = "cash" THEN t.buy ELSE t.sell
<1>2. /\ t.buy \in Stored /\ t.sell \in Stored /\ t.buy # t.sell
      /\ Asset(t.buy) = "cash" /\ Asset(t.sell) = "shares"
  BY <1>1, TradeHeld DEF SettleTrade
<1>3. /\ row \in [Orders -> Rows \cup {None}] /\ row' \in [Orders -> Rows \cup {None}]
      /\ held \in [Assets -> [Users -> Nat]] /\ TypeOK /\ terms' = terms /\ http' = http
  BY StepTypeOK, TermsStay DEF IInv, TypeOK, SettleTrade
<1>4. x \in Stored /\ x \in Orders /\ Asset(x) = a
  BY <1>2 DEF Assets, Stored
<1>5. row' = [row EXCEPT ![t.buy].reserved  = Need(t.buy, row[t.buy].remaining),
                         ![t.sell].reserved = Need(t.sell, row[t.sell].remaining)]
  BY <1>1 DEF SettleTrade
<1>6. row'[x] = [row[x] EXCEPT !.reserved = Need(x, row[x].remaining)]
  BY <1>2, <1>3, <1>5 DEF Stored
<1>7. ASSUME NEW y \in Orders \ {x}, Asset(y) = a
      PROVE  Claim(y)' = Claim(y)
  <2>1. y # t.buy /\ y # t.sell
    BY <1>2, <1>7 DEF Assets
  <2>2. row'[y] = row[y]
    BY <1>3, <1>5, <2>1
  <2>3. QED
    BY <1>3, <2>2 DEF Claim, Pending, Need
<1>8. Claim(x) = row[x].reserved /\ Claim(x)' = Need(x, row[x].remaining)
  <2>1. row[x] # None /\ row[x] \in Rows
    BY <1>3, <1>4 DEF Stored
  <2>2. row'[x] \in Rows /\ row'[x] # None
    BY <1>4, RowSteps, NoneAssumption DEF RowStep
  <2>3. row'[x].reserved = Need(x, row[x].remaining)
    BY <1>6, <2>1 DEF Rows
  <2>4. QED
    BY <2>1, <2>2, <2>3 DEF Claim, Pending
<1>9. held'[a][u] = IF Owner(x) = u THEN held[a][u] - Releases(x) ELSE held[a][u]
  BY <1>1, <1>3 DEF SettleTrade, Assets
<1>10. Claim(x) \in Nat /\ Claim(x)' \in Nat /\ held[a][u] \in Nat /\ Backed(u, a) \in Nat
  BY <1>3, <1>4, ClaimTyped, ClaimTypedNext, BackedTyped
<1>11. x \in Holders(u, a) <=> Owner(x) = u
  BY <1>4 DEF Holders
<1>12. Releases(x) = Claim(x) - Claim(x)'
  BY <1>8 DEF Releases
<1> HIDE DEF x
<1>13. Backed(u, a)' = Backed(u, a)
           + (IF x \in Holders(u, a) THEN Claim(x)' - Claim(x) ELSE 0)
  BY <1>7, BackedStep
<1>14. QED
  BY <1>9, <1>10, <1>11, <1>12, <1>13

\* Releasing a cancelled order takes its claim and the amount alike.
LEMMA ReleaseClaims ==
  ASSUME IInv, [Next]_vars, NEW r \in Replicas, ReleaseCancelled(r),
         NEW u \in Users, NEW a \in Assets
  PROVE  held'[a][u] - Backed(u, a)' = held[a][u] - Backed(u, a)
<1>1. PICK x : x = Event(worker[r]["order-events"])
  OBVIOUS
<1>2. x \in Stored /\ x \in Orders
  BY <1>1, CancelHeld DEF ReleaseCancelled, Stored
<1>3. /\ row \in [Orders -> Rows \cup {None}] /\ row' \in [Orders -> Rows \cup {None}]
      /\ held \in [Assets -> [Users -> Nat]] /\ TypeOK /\ terms' = terms /\ http' = http
  BY StepTypeOK, TermsStay DEF IInv, TypeOK, ReleaseCancelled
<1>4. row' = [row EXCEPT ![x].reserved = 0]
  BY <1>1 DEF ReleaseCancelled
<1>5. ASSUME NEW y \in Orders \ {x}
      PROVE  Claim(y)' = Claim(y)
  BY <1>3, <1>4 DEF Claim, Pending, Need
<1>6. Claim(x) = row[x].reserved /\ Claim(x)' = 0
  <2>1. row[x] # None /\ row[x] \in Rows
    BY <1>2, <1>3 DEF Stored
  <2>2. row'[x] \in Rows /\ row'[x] # None
    BY <1>2, RowSteps, NoneAssumption DEF RowStep
  <2>3. row'[x].reserved = 0
    BY <1>2, <1>3, <1>4, <2>1 DEF Rows
  <2>4. QED
    BY <2>1, <2>2, <2>3 DEF Claim, Pending
<1>7. held'[a][u] = IF Asset(x) = a /\ Owner(x) = u
                    THEN held[a][u] - row[x].reserved ELSE held[a][u]
  BY <1>1, <1>3 DEF ReleaseCancelled
<1>8. Claim(x) \in Nat /\ held[a][u] \in Nat /\ Backed(u, a) \in Nat
  BY <1>2, <1>3, ClaimTyped, BackedTyped
<1>9. x \in Holders(u, a) <=> Asset(x) = a /\ Owner(x) = u
  BY <1>2 DEF Holders
<1>10. Backed(u, a)' = Backed(u, a)
           + (IF x \in Holders(u, a) THEN Claim(x)' - Claim(x) ELSE 0)
  BY <1>5, BackedStep
<1>11. QED
  BY <1>6, <1>7, <1>8, <1>9, <1>10

\* The engine and the fetch of an event touch no claim.
LEMMA OtherClaims ==
  ASSUME IInv, [Next]_vars,
         \A o \in Orders : ~ CreateOrder(o),
         \A r \in Replicas : ~ SettleTrade(r) /\ ~ ReleaseCancelled(r)
  PROVE  held' = held /\ \A o \in Orders : Claim(o)' = Claim(o)
<1>1. /\ row \in [Orders -> Rows \cup {None}] /\ row' \in [Orders -> Rows \cup {None}]
      /\ terms' = terms
  BY StepTypeOK, TermsStay DEF IInv, TypeOK
<1>2. held' = held /\ http' = http
  BY DEF vars, Next, Engine, Match, CancelOrder, Fetch, Deliver, Consume, Rollback
<1>3. ASSUME NEW o \in Orders
      PROVE  Claim(o)' = Claim(o)
  <2>1. CASE row'[o] = row[o]
    BY <1>1, <1>2, <2>1 DEF Claim, Pending, Need
  <2>2. CASE row[o] # None /\ row'[o] # None /\ row'[o].reserved = row[o].reserved
    BY <2>2 DEF Claim, Pending
  <2>3. ASSUME NEW b \in Orders, NEW s \in Orders, NEW p, Match(b, s, p)
        PROVE  row'[o] = row[o] \/ (row[o] # None /\ row'[o].reserved = row[o].reserved)
    <3>1. CASE o \notin {b, s}
      BY <1>1, <2>3, <3>1 DEF Match
    <3>2. CASE o \in {b, s}
      <4>1. row[o] # None /\ row[o] \in Rows /\ b # s
        BY <1>1, <2>3, <3>2 DEF Match, Open, Stored
      <4>2. \E n : row'[o] = [row[o] EXCEPT !.remaining = n]
        BY <1>1, <2>3, <3>2, <4>1 DEF Match
      <4>3. QED
        BY <4>1, <4>2 DEF Rows
    <3>3. QED
      BY <3>1, <3>2
  <2>4. ASSUME NEW x \in Orders, CancelOrder(x)
        PROVE  row'[o] = row[o] \/ (row[o] # None /\ row'[o].reserved = row[o].reserved)
    <3>1. CASE o # x
      BY <1>1, <2>4, <3>1 DEF CancelOrder
    <3>2. CASE o = x
      <4>1. row[o] # None /\ row[o] \in Rows
        BY <1>1, <2>4, <3>2 DEF CancelOrder, Open, Stored
      <4>2. row'[o].reserved = row[o].reserved
        BY <1>1, <2>4, <3>2, <4>1 DEF CancelOrder, Rows
      <4>3. QED
        BY <4>1, <4>2
    <3>3. QED
      BY <3>1, <3>2
  <2>5. row[o] # None => row'[o] # None
    BY RowsStay DEF Stored
  <2>6. CASE UNCHANGED row
    BY <2>1, <2>6
  <2>7. CASE Engine
    BY <2>1, <2>2, <2>3, <2>4, <2>5, <2>7 DEF Engine
  <2>8. QED
    BY <2>6, <2>7 DEF vars, Next, Fetch, Deliver, Consume, Rollback
<1>4. QED
  BY <1>2, <1>3

LEMMA StepReserved ==
  ASSUME IInv, [Next]_vars, NEW u \in Users, NEW a \in Assets, Accounted(a)
  PROVE  held[a][u] = Backed(u, a) => held'[a][u] = Backed(u, a)'
<1> DEFINE h == held[a][u]
           n == held'[a][u]
           claimed == Backed(u, a)
           claims  == Backed(u, a)'
<1>1. h \in Nat /\ n \in Nat /\ claimed \in Nat /\ claims \in Int
  <2>1. claimed \in Nat /\ TypeOK /\ held \in [Assets -> [Users -> Nat]]
    BY BackedTyped DEF IInv, TypeOK
  <2>2. held' \in [Assets -> [Users -> Nat]]
    BY StepTypeOK DEF TypeOK
  <2>3. claims \in Int
    <3>1. IsFiniteSet(Holders(u, a)')
      BY OrdersAssumption, FS_Subset DEF Holders
    <3>2. Values(Claims', Holders(u, a)')
      BY ClaimTypedNext DEF Values, Holders
    <3>3. claims = SumFunctionOnSet(Claims', Holders(u, a)')
      BY DEF Backed, Claims, Claim, Holders
    <3>4. QED
      BY <3>1, <3>2, <3>3, SumInt
  <2>4. QED
    BY <2>1, <2>2, <2>3
<1> SUFFICES n - claims = h - claimed
  BY <1>1
<1>2. CASE \E r \in Replicas : SettleTrade(r) \/ ReleaseCancelled(r)
  BY <1>2, SettleClaims, ReleaseClaims
<1>3. CASE /\ \A o \in Orders : ~ CreateOrder(o)
           /\ \A r \in Replicas : ~ SettleTrade(r) /\ ~ ReleaseCancelled(r)
  <2>1. held' = held /\ \A o \in Orders : Claim(o)' = Claim(o)
    BY <1>3, OtherClaims
  <2>2. n = h /\ claims = claimed
    BY <2>1, ClaimsStay
  <2> HIDE DEF n, claims, h, claimed
  <2>3. QED
    BY <2>2
<1>4. ASSUME NEW o \in Orders, CreateOrder(o)
      PROVE  n - claims = h - claimed
  <2>1. Claim(o) \in Nat /\ Claim(o)' \in Nat
    BY ClaimTyped, ClaimTypedNext DEF IInv
  <2>2. CASE Asset(o) = a
    <3>1. /\ \A y \in Orders \ {o} : Claim(y)' = Claim(y)
          /\ u # Owner(o) => n = h
          /\ u = Owner(o) => n - Claim(o)' = h - Claim(o)
      BY <1>4, <2>2, HandlerClaims
    <3>2. claims = claimed + (IF o \in Holders(u, a) THEN Claim(o)' - Claim(o) ELSE 0)
      BY <3>1, BackedStep
    <3>3. o \in Holders(u, a) <=> u = Owner(o)
      BY <2>2 DEF Holders
    <3> HIDE DEF n, claims, h, claimed
    <3>4. CASE u = Owner(o)
      <4>1. claims = claimed + (Claim(o)' - Claim(o)) /\ n - Claim(o)' = h - Claim(o)
        BY <3>1, <3>2, <3>3, <3>4
      <4>2. QED
        BY <1>1, <2>1, <4>1
    <3>5. CASE u # Owner(o)
      <4>1. claims = claimed + 0 /\ n = h
        BY <3>1, <3>2, <3>3, <3>5
      <4>2. QED
        BY <1>1, <4>1
    <3>6. QED
      BY <3>4, <3>5
  <2>3. CASE Asset(o) # a
    <3>1. http' = [http EXCEPT ![o] = http'[o]] /\ row' = [row EXCEPT ![o] = row'[o]]
          /\ terms' = terms /\ n = h
      <4>1. /\ http \in [Orders -> Phases] /\ row \in [Orders -> Rows \cup {None}]
            /\ held \in [Assets -> [Users -> Nat]]
        BY DEF IInv, TypeOK
      <4>2. QED
        BY <1>4, <2>3, <4>1 DEF CreateOrder, Validate, Reserve, ReserveFails, Insert,
           InsertFails, Release, ReleaseFails, Crash
    <3>2. \A y \in Orders \ {o} : Claim(y)' = Claim(y)
      <4>1. \A y \in Orders \ {o} : http'[y] = http[y] /\ row'[y] = row[y]
        BY <3>1 DEF IInv, TypeOK
      <4>2. QED
        BY <3>1, <4>1 DEF Claim, Pending, Need
    <3>3. claims = claimed + (IF o \in Holders(u, a) THEN Claim(o)' - Claim(o) ELSE 0)
      BY <3>2, BackedStep
    <3>4. o \notin Holders(u, a)
      BY <2>3 DEF Holders
    <3> HIDE DEF n, claims, h, claimed
    <3>5. QED
      BY <1>1, <3>1, <3>3, <3>4
  <2>4. QED
    BY <2>2, <2>3
<1>5. QED
  BY <1>2, <1>3, <1>4

LEMMA InitReservations == Init => ReservationsExact
<1> SUFFICES ASSUME Init, NEW u \in Users, NEW a \in Assets
             PROVE  held[a][u] = 0 /\ Backed(u, a) = 0
  BY DEF ReservationsExact
<1>1. held[a][u] = 0
  BY DEF Init
<1>2. TypeOK
  BY InitIInv DEF IInv
<1>3. \A o \in Orders : Claims[o] = 0
  BY DEF Init, Claims, Claim, Pending
<1>4. \A o \in Holders(u, a) : Claims[o] = 0
  BY <1>3 DEF Holders
<1>5. Backed(u, a) = 0
  BY <1>2, <1>4, BackedTyped, SumZero
<1>6. QED
  BY <1>1, <1>5

LEMMA StepReservations ==
  ASSUME IInv, ReservationsExact, [Next]_vars
  PROVE  ReservationsExact'
<1>1. \A a : Accounted(a)' <=> Accounted(a)
  BY TermsStay DEF Accounted, Never
<1>2. ASSUME NEW u \in Users, NEW a \in Assets, Accounted(a)
      PROVE  held'[a][u] = Backed(u, a)'
  BY <1>2, StepReserved DEF ReservationsExact, Accounted
<1>3. QED
  BY <1>1, <1>2 DEF ReservationsExact, Accounted

-----------------------------------------------------------------------------
(* Who may leave more reserved than owned *)

LEMMA StepOverdraws ==
  ASSUME IInv, [Next]_vars, NEW u \in Users, NEW a \in Assets,
         held'[a][u] > owned'[a][u],
         held'[a][u] - owned'[a][u] > held[a][u] - owned[a][u]
  PROVE  Applied(u, a, TRUE)' # Applied(u, a, TRUE)
<1>1. /\ held \in [Assets -> [Users -> Nat]] /\ held' \in [Assets -> [Users -> Nat]]
      /\ owned \in [Assets -> [Users -> Nat]] /\ owned' \in [Assets -> [Users -> Nat]]
      /\ row \in [Orders -> Rows \cup {None}]
  BY StepTypeOK DEF IInv, TypeOK
<1>2. /\ held[a][u] \in Nat /\ held'[a][u] \in Nat
      /\ owned[a][u] \in Nat /\ owned'[a][u] \in Nat
  BY <1>1
<1>3. ASSUME held'[a][u] <= held[a][u], owned'[a][u] >= owned[a][u]
      PROVE  FALSE
  BY <1>2, <1>3
<1>4. ASSUME NEW o \in Orders, Reserve(o)
      PROVE  FALSE
  <2>1. /\ Available(o) >= Need(o, terms[o].qty) /\ owned' = owned
        /\ held' = [held EXCEPT ![Asset(o)][Owner(o)] = @ + Need(o, terms[o].qty)]
    BY <1>4 DEF Reserve
  <2>2. /\ Owner(o) \in Users /\ Asset(o) \in Assets /\ Need(o, terms[o].qty) \in Nat
    BY TermsTyped, ClaimTyped DEF IInv
  <2>3. CASE a = Asset(o) /\ u = Owner(o)
    <3>1. held'[a][u] = held[a][u] + Need(o, terms[o].qty)
      BY <1>1, <2>1, <2>2, <2>3
    <3>2. owned[a][u] - held[a][u] >= Need(o, terms[o].qty)
      BY <2>1, <2>3 DEF Available
    <3>3. QED
      BY <1>2, <2>1, <2>2, <3>1, <3>2
  <2>4. CASE a # Asset(o) \/ u # Owner(o)
    <3>1. held'[a][u] = held[a][u]
      BY <1>1, <2>1, <2>4
    <3>2. QED
      BY <1>2, <1>3, <2>1, <3>1
  <2>5. QED
    BY <2>3, <2>4
<1>5. ASSUME NEW o \in Orders, Release(o)
      PROVE  FALSE
  <2>1. /\ owned' = owned
        /\ held' = [held EXCEPT ![Asset(o)][Owner(o)] = @ - ReleaseAmount(o)]
    BY <1>5 DEF Release
  <2>2. ReleaseAmount(o) \in Nat
    BY ClaimTyped, RowTyped DEF IInv, ReleaseAmount, Stored
  <2>3. held'[a][u] = held[a][u] \/ held'[a][u] = held[a][u] - ReleaseAmount(o)
    BY <1>1, <2>1
  <2>4. QED
    BY <1>2, <1>3, <2>1, <2>2, <2>3
<1>6. ASSUME NEW r \in Replicas, ReleaseCancelled(r)
      PROVE  FALSE
  <2>1. PICK x : x = Event(worker[r]["order-events"])
    OBVIOUS
  <2>2. x \in Stored /\ row[x].reserved \in Nat
    BY <1>6, <2>1, CancelHeld, RowTyped DEF ReleaseCancelled, IInv
  <2>3. /\ owned' = owned
        /\ held' = [held EXCEPT ![Asset(x)][Owner(x)] = @ - row[x].reserved]
    BY <1>6, <2>1 DEF ReleaseCancelled
  <2>4. held'[a][u] = held[a][u] \/ held'[a][u] = held[a][u] - row[x].reserved
    BY <1>1, <2>3
  <2>5. QED
    BY <1>2, <1>3, <2>2, <2>3, <2>4
<1>7. ASSUME NEW r \in Replicas, SettleTrade(r)
      PROVE  Applied(u, a, TRUE)' # Applied(u, a, TRUE)
  <2>1. PICK m, t : m = worker[r]["trades"] /\ t = Event(m)
    OBVIOUS
  <2>2. PICK i : i = m[2]
    OBVIOUS
  <2>3. /\ m = <<"trades", i>> /\ i \in DOMAIN events["trades"] /\ t = events["trades"][i]
        /\ t.buy \in Stored /\ t.sell \in Stored
        /\ Asset(t.buy) = "cash" /\ Asset(t.sell) = "shares"
        /\ Value(t) \in Nat /\ t.qty \in Nat
    <3>1. m # None
      BY <1>7, <2>1 DEF SettleTrade
    <3>2. /\ m \in Messages /\ m[1] = "trades" /\ i \in 1 .. Len(events["trades"])
          /\ t = events["trades"][i]
          /\ t.buy \in Stored /\ t.sell \in Stored
          /\ Asset(t.buy) = "cash" /\ Asset(t.sell) = "shares"
          /\ Value(t) \in Nat /\ t.qty \in Nat
      BY <2>1, <2>2, <3>1, TradeHeld
    <3>3. m = <<m[1], m[2]>>
      BY <3>2 DEF Messages
    <3>4. DOMAIN events["trades"] = 1 .. Len(events["trades"])
      BY DEF IInv, TypeOK
    <3>5. QED
      BY <2>2, <3>2, <3>3, <3>4
  <2>4. /\ m \notin applied /\ applied' = applied \cup {m} /\ events' = events
        /\ terms' = terms
    BY <1>7, <2>1 DEF SettleTrade, Fresh
  <2>5. CASE u = Owner(IF a = "cash" THEN t.buy ELSE t.sell)
    <3>1. i \notin Applied(u, a, TRUE)
      BY <2>3, <2>4 DEF Applied
    <3>2. i \in Applied(u, a, TRUE)'
      BY <2>3, <2>4, <2>5 DEF Applied, Owner
    <3>3. QED
      BY <3>1, <3>2
  <2>6. CASE u # Owner(IF a = "cash" THEN t.buy ELSE t.sell)
    <3>1. /\ held' = [held EXCEPT !["cash"][Owner(t.buy)]    = @ - Releases(t.buy),
                                  !["shares"][Owner(t.sell)] = @ - Releases(t.sell)]
          /\ owned' = [b \in Assets |-> [v \in Users |->
                 LET payer == IF b = "cash" THEN Owner(t.buy) ELSE Owner(t.sell)
                     payee == IF b = "cash" THEN Owner(t.sell) ELSE Owner(t.buy)
                 IN owned[b][v] + (IF v = payee THEN Gives(t, b) ELSE 0)
                                - (IF v = payer THEN Gives(t, b) ELSE 0)]]
      BY <1>7, <2>1 DEF SettleTrade
    <3>2. held'[a][u] = held[a][u]
      BY <1>1, <2>6, <3>1 DEF Assets
    <3>3. Gives(t, a) \in Nat
      BY <2>3 DEF Gives
    <3>4. owned'[a][u] = owned[a][u] \/ owned'[a][u] = owned[a][u] + Gives(t, a)
      <4>1. PICK payee : payee = IF a = "cash" THEN Owner(t.sell) ELSE Owner(t.buy)
        OBVIOUS
      <4>2. owned'[a][u] = owned[a][u] + (IF u = payee THEN Gives(t, a) ELSE 0) - 0
        BY <2>6, <3>1, <4>1
      <4>3. QED
        BY <1>2, <3>3, <4>2
    <3>5. QED
      BY <1>2, <1>3, <3>2, <3>3, <3>4
  <2>7. QED
    BY <2>5, <2>6
<1>8. ASSUME held' = held, owned' = owned
      PROVE  FALSE
  BY <1>2, <1>3, <1>8
<1>9. QED
  BY <1>4, <1>5, <1>6, <1>7, <1>8
  DEF vars, Next, CreateOrder, Validate, ReserveFails, Insert, InsertFails, ReleaseFails, Crash,
      Engine, Match, CancelOrder, Fetch, Deliver, Consume, Rollback

-----------------------------------------------------------------------------
(* Theorems *)

LEMMA StepIInv == IInv /\ [Next]_vars => IInv'
BY StepTypeOK, StepEvents, StepHandler, StepClosed, StepCovered, StepDue DEF IInv

LEMMA ReservationInductive == Spec => []IInv
BY InitIInv, StepIInv, PTL DEF Spec

Strengthened == IInv /\ LedgerIsSettledTrades /\ ReservationsExact

LEMMA SumsInductive == Spec => []Strengthened
<1>1. Init => Strengthened
  BY InitIInv, InitLedger, InitReservations DEF Strengthened
<1>2. Strengthened /\ [Next]_vars => Strengthened'
  BY StepIInv, StepLedger, StepReservations DEF Strengthened
<1>3. QED
  BY <1>1, <1>2, PTL DEF Spec

\* Balances, reservations and remaining quantities stay natural numbers whatever
\* fails and whatever is delivered twice (main.go, database/db.go).
THEOREM LedgerTypeCorrect == Spec => []TypeOK
<1>1. IInv => TypeOK
  BY DEF IInv
<1> QED
  BY <1>1, ReservationInductive, PTL

\* An order always holds what its remaining quantity may cost, so that the checks
\* of the reserved amount in ApplyBuyerTrade and ApplySellerTrade do not fail; or
\* nothing, once createOrderHandler has taken its row for a failed insert.
THEOREM OpenOrdersCovered == Spec => []OrdersCovered
<1>1. IInv => OrdersCovered
  BY DEF IInv
<1> QED
  BY <1>1, ReservationInductive, PTL

\* A filled or cancelled order whose events are all applied reserves nothing,
\* whatever the order in which the two topics delivered them.
THEOREM FinalReservationsReleased == Spec => []FinalOrdersReleased
<1>1. IInv => FinalOrdersReleased
  <2> SUFFICES ASSUME IInv, NEW o \in Stored \ Open, EventsOf(o) \subseteq applied
               PROVE  row[o].reserved = 0
    BY DEF FinalOrdersReleased
  <2>1. /\ DOMAIN events["trades"] = 1 .. Len(events["trades"])
        /\ DOMAIN events["order-events"] = 1 .. Len(events["order-events"])
    BY DEF IInv, TypeOK
  <2>2. ASSUME NEW i \in 1 .. Len(events["trades"]),
               o \in {events["trades"][i].buy, events["trades"][i].sell}
        PROVE  <<"trades", i>> \in applied
    BY <2>1, <2>2 DEF EventsOf
  <2>3. ASSUME NEW i \in 1 .. Len(events["order-events"]), events["order-events"][i] = o
        PROVE  <<"order-events", i>> \in applied
    BY <2>1, <2>3 DEF EventsOf
  <2>4. ~ TradeDue(o) /\ ~ CancelDue(o)
    BY <2>2, <2>3 DEF TradeDue, CancelDue
  <2> QED
    BY <2>4 DEF IInv, ReleaseDue
<1> QED
  BY <1>1, ReservationInductive, PTL

\* What a user owns is what the user began with and what the trades marked as
\* processed have moved: a duplicate, two replicas on one trade or a rollback
\* halfway leaves no trace in users and positions (ApplyTrade,
\* MarkEventProcessed).
THEOREM LedgerHolds == Spec => []LedgerIsSettledTrades
<1>1. Strengthened => LedgerIsSettledTrades
  BY DEF Strengthened
<1> QED
  BY <1>1, SumsInductive, PTL

\* reserved_balance and reserved_quantity are exactly what the user's order rows
\* and the reservations without a row claim: requests that time out, die or cannot
\* release leave theirs behind, and nothing else is ever left or taken.  For shares
\* no handler may take a stored sale for a failed insert (releaseHandler).
THEOREM ReservationsMatch == Spec => []ReservationsExact
<1>1. Strengthened => ReservationsExact
  BY DEF Strengthened
<1> QED
  BY <1>1, SumsInductive, PTL

\* Concurrent requests of a user reserve no more than there is: only the settlement
\* of a trade in which the user gives can leave more reserved than owned
\* (reserveHandler, ApplyBuyerTrade, ApplySellerTrade).
THEOREM SettlementOverdraws == Spec => OnlySettlementOverdraws
<1>1. IInv /\ [Next]_vars =>
        [\A u \in Users, a \in Assets :
           /\ held'[a][u] > owned'[a][u]
           /\ held'[a][u] - owned'[a][u] > held[a][u] - owned[a][u]
           => Applied(u, a, TRUE)' # Applied(u, a, TRUE)]_vars
  BY StepOverdraws
<1> QED
  BY <1>1, ReservationInductive, PTL DEF Spec, OnlySettlementOverdraws
=============================================================================

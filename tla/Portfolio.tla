------------------------------ MODULE Portfolio ------------------------------
(***************************************************************************)
(* Reservation and settlement of one symbol: the order-service handler     *)
(* that validates, reserves, stores the order and releases when storing    *)
(* fails; the portfolio-service handlers it calls; and the two portfolio   *)
(* consumers that settle trades and release cancelled orders.              *)
(*                                                                         *)
(* Cash and shares are handled alike: an order holds the asset it may have *)
(* to give away.  owned and held are users.balance / reserved_balance for  *)
(* cash and positions.quantity / reserved_quantity for shares.             *)
(*                                                                         *)
(* A transaction locks the rows it reads before it uses them, so it is one *)
(* step; the read of processed_events that precedes the locks is a step of *)
(* its own.  The matching engine is reduced to what it stores: Match and   *)
(* CancelOrder change remaining_quantity and enqueue an event.             *)
(*                                                                         *)
(* Cash is counted in units of 1/Scale of a minor unit, so a cost is the   *)
(* product of price and quantity; money.CostFor refuses a product that is  *)
(* not a whole number of minor units.                                      *)
(***************************************************************************)
EXTENDS Integers, Sequences, FiniteSets, Functions

CONSTANTS
  Users, Orders,
  Replicas,    \* portfolio-service processes
  None,
  Portfolios,  \* initial choices of the orders' terms: functions on Orders
  Endowment,   \* what each user owns at first: [Assets -> [Users -> Nat]]
  FaultSets,   \* initial choices of the faults that may happen
  Scale        \* minor units in one (10^8 in the code)

Assets == {"cash", "shares"}
Topics == {"trades", "order-events"}
AllFaults ==
  {"timeout",        \* a reserve request commits after the client has given up
   "insertfail",     \* the order row is not stored
   "insertunknown",  \* the order row is stored but the handler gets an error
   "releasefail",    \* the release request fails
   "crash",          \* the order-service dies inside a handler
   "redeliver"}      \* a rebalance, a consumer restart or a relay that
                     \* publishes twice: an old event is delivered again

Terms == [owner : Users, side : {"BUY", "SELL"}, price : Nat, qty : Nat \ {0}]
Rows  == [remaining : Nat, reserved : Nat, status : {"OPEN", "CANCELLED"}]

ASSUME OrdersAssumption     == IsFiniteSet(Orders)
ASSUME FaultsAssumption     == FaultSets \subseteq SUBSET AllFaults
ASSUME EndowmentAssumption  == Endowment \in [Assets -> [Users -> Nat]]
ASSUME PortfoliosAssumption == Portfolios \subseteq [Orders -> Terms]
ASSUME ScaleAssumption      == Scale \in Nat \ {0}
ASSUME NoneAssumption       == None \notin Rows

VARIABLES
  faults,   \* the faults that may happen in this behaviour
  terms,    \* owner, side, price and quantity of each order
  owned,    \* balance and quantity of each user
  held,     \* reserved_balance and reserved_quantity of each user
  row,      \* the orders table: remaining and reserved quantity, or None
  http,     \* where createOrderHandler is for each order
  events,   \* the partition of each topic
  next,     \* events of each topic delivered so far
  applied,  \* processed_events: <<topic, index>>
  worker    \* the event each consumer goroutine is handling, or None

vars     == <<faults, terms, owned, held, row, http, events, next, applied, worker>>
consumer == <<next, applied, worker>>

Trades == [buy : Orders, sell : Orders, price : Nat, qty : Nat \ {0}]
Messages == Topics \X (Nat \ {0})
Phases == {"none", "validated", "reserved", "releasing", "done",
           "lost"}   \* done, and nobody will release what it has reserved

-----------------------------------------------------------------------------
Asset(o) == IF terms[o].side = "BUY" THEN "cash" ELSE "shares"
Owner(o) == terms[o].owner

\* What order o must hold to trade quantity q: calculateReservedAmount.
Need(o, q) == IF terms[o].side = "BUY" THEN terms[o].price * q ELSE q

\* CostFor can represent the cost of quantity q at price p.
Exact(p, q) == (p * q) % Scale = 0

Stored == {o \in Orders : row[o] # None}
Open   == {o \in Stored : row[o].status = "OPEN" /\ row[o].remaining > 0}

Available(o) == owned[Asset(o)][Owner(o)] - held[Asset(o)][Owner(o)]

\* Mutant of Releases: a trade frees the whole reservation.
ReleasesAll(o) == row[o].reserved

\* The trade of an event, its value, and what it frees of an order's
\* reservation: all that the quantity remaining now does not need.
Event(m) == events[m[1]][m[2]]
Value(t) == t.price * t.qty
Releases(o) == row[o].reserved - Need(o, row[o].remaining)
Gives(t, a) == IF a = "cash" THEN Value(t) ELSE t.qty

-----------------------------------------------------------------------------
Init ==
  /\ faults \in FaultSets
  /\ terms \in Portfolios
  /\ owned   = Endowment
  /\ held    = [a \in Assets |-> [u \in Users |-> 0]]
  /\ row     = [o \in Orders |-> None]
  /\ http    = [o \in Orders |-> "none"]
  /\ events  = [k \in Topics |-> <<>>]
  /\ next    = [k \in Topics |-> 0]
  /\ applied = {}
  /\ worker  = [r \in Replicas |-> [k \in Topics |-> None]]

-----------------------------------------------------------------------------
(* createOrderHandler and the handlers it calls *)

\* calculateReservedAmount refuses a buy whose cost is not exact.  Then
\* validateHandler: a read that locks nothing; the answer may be stale when
\* the reservation is made.
Validate(o) ==
  /\ http[o] = "none"
  /\ http' = [http EXCEPT ![o] =
                IF /\ terms[o].side = "BUY" => Exact(terms[o].price, terms[o].qty)
                   /\ Available(o) >= Need(o, terms[o].qty)
                THEN "validated" ELSE "done"]
  /\ UNCHANGED <<faults, terms, owned, held, row, events, consumer>>

\* Mutant of Reserve: the check is left to validateHandler.
ReserveUnchecked(o) ==
  /\ http[o] = "validated"
  /\ held' = [held EXCEPT ![Asset(o)][Owner(o)] = @ + Need(o, terms[o].qty)]
  /\ \/ http' = [http EXCEPT ![o] = "reserved"]
     \/ "timeout" \in faults /\ http' = [http EXCEPT ![o] = "lost"]
  /\ UNCHANGED <<faults, terms, owned, row, events, consumer>>

\* reserveHandler: the check is repeated under the row's lock.
Reserve(o) ==
  /\ http[o] = "validated"
  /\ Available(o) >= Need(o, terms[o].qty)
  /\ held' = [held EXCEPT ![Asset(o)][Owner(o)] = @ + Need(o, terms[o].qty)]
  /\ \/ http' = [http EXCEPT ![o] = "reserved"]
     \/ "timeout" \in faults /\ http' = [http EXCEPT ![o] = "lost"]
  /\ UNCHANGED <<faults, terms, owned, row, events, consumer>>

ReserveFails(o) ==
  /\ http[o] = "validated"
  /\ "timeout" \in faults \/ Available(o) < Need(o, terms[o].qty)
  /\ http' = [http EXCEPT ![o] = "done"]
  /\ UNCHANGED <<faults, terms, owned, held, row, events, consumer>>

\* InsertOrderWithOutbox, whose source is missing: as the handler uses it, the
\* row with the amounts of the order it is given, or an error.
Insert(o) ==
  /\ http[o] = "reserved"
  /\ row' = [row EXCEPT ![o] = [remaining |-> terms[o].qty, status |-> "OPEN",
                                reserved  |-> Need(o, terms[o].qty)]]
  /\ \/ http' = [http EXCEPT ![o] = "done"]
     \/ "insertunknown" \in faults /\ http' = [http EXCEPT ![o] = "releasing"]
  /\ UNCHANGED <<faults, terms, owned, held, events, consumer>>

\* Mutant of InsertFails: the handler returns without a release.
InsertFailsUnnoticed(o) ==
  /\ "insertfail" \in faults
  /\ http[o] = "reserved"
  /\ http' = [http EXCEPT ![o] = "done"]
  /\ UNCHANGED <<faults, terms, owned, held, row, events, consumer>>

InsertFails(o) ==
  /\ "insertfail" \in faults
  /\ http[o] = "reserved"
  /\ http' = [http EXCEPT ![o] = "releasing"]
  /\ UNCHANGED <<faults, terms, owned, held, row, events, consumer>>

\* What releaseHandler takes back: the amount in the row when there is one,
\* the amount of the request when not; for a sale, the quantity of the request
\* also when the row holds nothing.
ReleaseAmount(o) ==
  IF row[o] = None \/ (terms[o].side = "SELL" /\ row[o].reserved = 0)
  THEN Need(o, terms[o].qty) ELSE row[o].reserved

\* releaseHandler.
Release(o) ==
  /\ http[o] = "releasing"
  /\ held[Asset(o)][Owner(o)] >= ReleaseAmount(o)
  /\ held' = [held EXCEPT ![Asset(o)][Owner(o)] = @ - ReleaseAmount(o)]
  /\ row' = IF row[o] = None THEN row ELSE [row EXCEPT ![o].reserved = 0]
  /\ http' = [http EXCEPT ![o] = "done"]
  /\ UNCHANGED <<faults, terms, owned, events, consumer>>

ReleaseFails(o) ==
  /\ http[o] = "releasing"
  /\ "releasefail" \in faults \/ held[Asset(o)][Owner(o)] < ReleaseAmount(o)
  /\ http' = [http EXCEPT ![o] = "lost"]
  /\ UNCHANGED <<faults, terms, owned, held, row, events, consumer>>

\* The order-service dies: nothing remembers the reservation.
Crash(o) ==
  /\ "crash" \in faults
  /\ http[o] \in {"validated", "reserved", "releasing"}
  /\ http' = [http EXCEPT ![o] = IF @ = "validated" THEN "done" ELSE "lost"]
  /\ UNCHANGED <<faults, terms, owned, held, row, events, consumer>>

-----------------------------------------------------------------------------
(* The matching engine, as far as its database shows *)

\* Two open orders trade at the price of the one that rested.
Match(b, s, p) ==
  LET q == IF row[b].remaining < row[s].remaining
           THEN row[b].remaining ELSE row[s].remaining IN
  /\ {b, s} \subseteq Open
  /\ terms[b].side = "BUY" /\ terms[s].side = "SELL"
  /\ terms[s].price <= terms[b].price
  /\ p \in {terms[b].price, terms[s].price}
  /\ row' = [row EXCEPT ![b].remaining = @ - q, ![s].remaining = @ - q]
  /\ events' = [events EXCEPT !["trades"] =
                  Append(@, [buy |-> b, sell |-> s, price |-> p, qty |-> q])]
  /\ UNCHANGED <<faults, terms, owned, held, http, consumer>>

\* Mutants of CancelOrder: the quantity stays, and no event is enqueued.
CancelStatusOnly(o) ==
  /\ o \in Open
  /\ row' = [row EXCEPT ![o].status = "CANCELLED"]
  /\ events' = [events EXCEPT !["order-events"] = Append(@, o)]
  /\ UNCHANGED <<faults, terms, owned, held, http, consumer>>

CancelWithoutEvent(o) ==
  /\ o \in Open
  /\ row' = [row EXCEPT ![o].remaining = 0, ![o].status = "CANCELLED"]
  /\ UNCHANGED <<faults, terms, owned, held, http, events, consumer>>

CancelOrder(o) ==
  /\ o \in Open
  /\ row' = [row EXCEPT ![o].remaining = 0, ![o].status = "CANCELLED"]
  /\ events' = [events EXCEPT !["order-events"] = Append(@, o)]
  /\ UNCHANGED <<faults, terms, owned, held, http, consumer>>

-----------------------------------------------------------------------------
(* StartTradeConsumer and StartOrderEventConsumer *)

\* FetchMessage, then IsEventProcessed finds nothing.  One replica owns the
\* partition and takes the events in order, unless something redelivers.
Deliver(r, k, i) ==
  LET again == "redeliver" \in faults IN
  /\ worker[r][k] = None
  /\ i \in 1 .. Len(events[k])
  /\ i = next[k] + 1 \/ (again /\ i <= next[k])
  /\ again \/ \A x \in Replicas : worker[x][k] = None
  /\ <<k, i>> \notin applied
  /\ worker' = [worker EXCEPT ![r][k] = <<k, i>>]
  /\ next' = [next EXCEPT ![k] = IF i > @ THEN i ELSE @]
  /\ UNCHANGED <<faults, terms, owned, held, row, http, events, applied>>

\* Mutant of Fresh: the insert's row count is ignored.
MarkIgnored(m) == TRUE

\* MarkEventProcessed inserts the event unless a row is there.
Fresh(m) == m \notin applied

\* Mutants of CanSettle: the balance and the quantity are not checked; a balance
\* that the trade uses up is refused.
SettlesUnfunded(t) ==
  \A o \in {t.buy, t.sell} :
    /\ row[o].reserved >= Need(o, row[o].remaining)
    /\ held[Asset(o)][Owner(o)] >= Releases(o)

SettlesWithRest(t) ==
  /\ \A o \in {t.buy, t.sell} :
       /\ row[o].reserved >= Need(o, row[o].remaining)
       /\ held[Asset(o)][Owner(o)] >= Releases(o)
  /\ Exact(t.price, t.qty)
  /\ Exact(terms[t.buy].price, row[t.buy].remaining)
  /\ owned["cash"][Owner(t.buy)] > Value(t)
  /\ \/ owned["shares"][Owner(t.sell)] >= t.qty
     \/ Owner(t.buy) = Owner(t.sell)

\* The conditions ApplyBuyerTrade and ApplySellerTrade put on the rows: the cost
\* of the trade and of what the buy has remaining are exact, and nothing becomes
\* negative.  The buyer's shares are added before the seller's are checked.
CanSettle(t) ==
  /\ \A o \in {t.buy, t.sell} :
       /\ row[o].reserved >= Need(o, row[o].remaining)
       /\ held[Asset(o)][Owner(o)] >= Releases(o)
  /\ Exact(t.price, t.qty)
  /\ Exact(terms[t.buy].price, row[t.buy].remaining)
  /\ owned["cash"][Owner(t.buy)] >= Value(t)
  /\ \/ owned["shares"][Owner(t.sell)] >= t.qty
     \/ Owner(t.buy) = Owner(t.sell)

\* ApplyTrade, MarkEventProcessed and the commit.
SettleTrade(r) ==
  LET m == worker[r]["trades"]  t == Event(m)
      buyer == Owner(t.buy)  seller == Owner(t.sell) IN
  /\ m # None
  /\ Fresh(m)
  /\ CanSettle(t)
  /\ owned' = [a \in Assets |-> [u \in Users |->
                 LET payer == IF a = "cash" THEN buyer ELSE seller
                     payee == IF a = "cash" THEN seller ELSE buyer
                 IN owned[a][u] + (IF u = payee THEN Gives(t, a) ELSE 0)
                                - (IF u = payer THEN Gives(t, a) ELSE 0)]]
  /\ held' = [held EXCEPT !["cash"][buyer]    = @ - Releases(t.buy),
                          !["shares"][seller] = @ - Releases(t.sell)]
  /\ row' = [row EXCEPT ![t.buy].reserved  = Need(t.buy, row[t.buy].remaining),
                        ![t.sell].reserved = Need(t.sell, row[t.sell].remaining)]
  /\ applied' = applied \cup {m}
  /\ worker' = [worker EXCEPT ![r]["trades"] = None]
  /\ UNCHANGED <<faults, terms, http, events, next>>

\* Mutant of CanRelease: an exact release is refused.
CanReleaseAbove(o) == held[Asset(o)][Owner(o)] > row[o].reserved

\* ApplyOrderEvent of an ORDER_CANCELLED event, MarkEventProcessed, commit.
CanRelease(o) == held[Asset(o)][Owner(o)] >= row[o].reserved

ReleaseCancelled(r) ==
  LET m == worker[r]["order-events"]  o == Event(m) IN
  /\ m # None
  /\ Fresh(m)
  /\ CanRelease(o)
  /\ held' = [held EXCEPT ![Asset(o)][Owner(o)] = @ - row[o].reserved]
  /\ row' = [row EXCEPT ![o].reserved = 0]
  /\ applied' = applied \cup {m}
  /\ worker' = [worker EXCEPT ![r]["order-events"] = None]
  /\ UNCHANGED <<faults, terms, owned, http, events, next>>

\* The transaction rolls back: a condition fails, MarkEventProcessed finds the
\* event already applied, or the process dies.  The consumer goes on with the
\* next event.
Rollback(r, k) ==
  LET m == worker[r][k] IN
  /\ m # None
  /\ \/ ~Fresh(m)
     \/ k = "trades" /\ ~CanSettle(Event(m))
     \/ k = "order-events" /\ ~CanRelease(Event(m))
     \/ "redeliver" \in faults
  /\ worker' = [worker EXCEPT ![r][k] = None]
  /\ UNCHANGED <<faults, terms, owned, held, row, http, events, next, applied>>

-----------------------------------------------------------------------------
CreateOrder(o) == \/ Validate(o) \/ Reserve(o) \/ ReserveFails(o)
                  \/ Insert(o) \/ InsertFails(o)
                  \/ Release(o) \/ ReleaseFails(o) \/ Crash(o)

Engine == \/ \E b, s \in Orders : \E p \in {terms[b].price, terms[s].price} : Match(b, s, p)
          \/ \E o \in Orders : CancelOrder(o)

Consume(r) == \/ SettleTrade(r) \/ ReleaseCancelled(r)
              \/ \E k \in Topics : Rollback(r, k)

Fetch == \E r \in Replicas, k \in Topics : \E i \in 1 .. Len(events[k]) : Deliver(r, k, i)

Next == \/ \E o \in Orders : CreateOrder(o)
        \/ Engine
        \/ Fetch
        \/ \E r \in Replicas : Consume(r)

\* The consumers are loops and their transactions end; a handler answers.
\* Nothing makes a user send an order or two orders meet.
Fairness == /\ WF_vars(Fetch)
            /\ \A r \in Replicas : WF_vars(Consume(r))
            /\ \A o \in Orders : WF_vars(http[o] # "none" /\ CreateOrder(o))

Spec == Init /\ [][Next]_vars /\ Fairness

-----------------------------------------------------------------------------
(* Properties *)

\* What a property needs not to happen is part of the property.
Never(F) == faults \cap F = {}

\* Every variable has its type; in particular no balance, no reservation and no
\* remaining quantity is ever negative, whatever is redelivered or fails.
TypeOK ==
  /\ faults \in FaultSets
  /\ terms \in Portfolios
  /\ owned \in [Assets -> [Users -> Nat]]
  /\ held  \in [Assets -> [Users -> Nat]]
  /\ row   \in [Orders -> Rows \cup {None}]
  /\ http  \in [Orders -> Phases]
  /\ next  \in [Topics -> Nat]
  /\ events = [k \in Topics |-> events[k]]
  /\ events["trades"] \in Seq(Trades)
  /\ events["order-events"] \in Seq(Orders)
  /\ applied \subseteq Messages
  /\ worker \in [Replicas -> [Topics -> Messages \cup {None}]]
  /\ \A m \in applied : m[2] <= Len(events[m[1]])

\* The settled trades in which u gives, or gets, asset a.
Applied(u, a, gives) ==
  {i \in DOMAIN events["trades"] :
     /\ <<"trades", i>> \in applied
     /\ LET t == events["trades"][i] IN
          u = Owner(IF (a = "cash") = gives THEN t.buy ELSE t.sell)}
Moved(u, a, gives) ==
  SumFunctionOnSet([i \in DOMAIN events["trades"] |-> Gives(events["trades"][i], a)],
                   Applied(u, a, gives))

\* What a user owns is what the user began with and the trades marked as
\* processed have moved, each exactly once, on both sides: a duplicate, two
\* replicas on one trade or a rollback halfway leaves no trace in the ledger.
LedgerIsSettledTrades ==
  \A u \in Users, a \in Assets :
    owned[a][u] = Endowment[a][u] + Moved(u, a, FALSE) - Moved(u, a, TRUE)

\* A reservation made for an order that is not stored, whether a handler still
\* works on it or a timeout, a crash or a failed release has left it behind.
Pending(o) == http[o] \in {"reserved", "releasing", "lost"} /\ row[o] = None
Backed(u, a) ==
  SumFunctionOnSet(
    [o \in Orders |-> IF Pending(o) THEN Need(o, terms[o].qty)
                      ELSE IF row[o] = None THEN 0 ELSE row[o].reserved],
    {o \in Orders : Owner(o) = u /\ Asset(o) = a})

\* A user's reserved amount is what the user's order rows claim and what requests
\* without a row have reserved, to the last unit: however settlement,
\* cancellation, failed inserts, timeouts and crashes interleave, no release takes
\* another order's reservation, and only those requests leave one behind.  A
\* handler that takes a stored sale for a failed insert may release it twice.
ReservationsExact ==
  \A u \in Users, a \in Assets :
    a = "cash" \/ Never({"insertunknown"}) => held[a][u] = Backed(u, a)

\* An order row holds at least what its remaining quantity may cost, so that a
\* trade of it never fails the check of the buyer or seller reserved amount;
\* or nothing at all, once a handler has taken it for a failed insert.
OrdersCovered ==
  \A o \in Stored : \/ row[o].reserved >= Need(o, row[o].remaining)
                    \/ "insertunknown" \in faults /\ row[o].reserved = 0

\* Reserving keeps to what is there, although it is validated with an answer that
\* concurrent requests make stale: if a step leaves a user with more reserved than
\* owned, and shorter than before, it settles a trade in which the user gives.
OnlySettlementOverdraws ==
  [][\A u \in Users, a \in Assets :
       /\ held'[a][u] > owned'[a][u]
       /\ held'[a][u] - owned'[a][u] > held[a][u] - owned[a][u]
       => Applied(u, a, TRUE)' # Applied(u, a, TRUE)]_vars

EventsOf(o) ==
  {<<"trades", i>> : i \in {j \in DOMAIN events["trades"] :
                             o \in {events["trades"][j].buy, events["trades"][j].sell}}}
  \cup
  {<<"order-events", i>> : i \in {j \in DOMAIN events["order-events"] :
                                   events["order-events"][j] = o}}

\* Once every event of a filled or cancelled order is applied, in whatever order
\* the two topics delivered them, the order reserves nothing.
FinalOrdersReleased ==
  \A o \in Stored \ Open : EventsOf(o) \subseteq applied => row[o].reserved = 0

\* What is reserved is owned: the constraint the design documents give the
\* tables users and positions.
ReservedIsOwned ==
  \A u \in Users, a \in Assets : held[a][u] <= owned[a][u]

\* Every user can pay for all orders of the user at once, and every part of an
\* order has an exact cost.
Enough ==
  \A u \in Users, a \in Assets :
    SumFunctionOnSet([o \in Orders |-> Need(o, terms[o].qty)],
                     {o \in Orders : Owner(o) = u /\ Asset(o) = a}) <= Endowment[a][u]
Divisible == \A o \in Orders : \A q \in 1 .. terms[o].qty : Exact(terms[o].price, q)

\* Every trade is settled in the end, whatever other trades and cancellations of
\* its orders are applied before it, if no transaction is lost to a restart and
\* no cost of a part is refused: again and again no trade is unsettled.  A user
\* short of cash may reserve what an unsettled trade has yet to pay: then it
\* never settles.
Unsettled == {i \in DOMAIN events["trades"] : <<"trades", i>> \notin applied}
TradesSettled ==
  (Never({"redeliver", "insertunknown"}) /\ Enough /\ Divisible /\ Unsettled # {})
    ~> Unsettled = {}

\* What a cancelled order reserved is eventually released, when each event is
\* delivered once and its transaction ends.
Unreleased == {o \in Stored : row[o].status = "CANCELLED" /\ row[o].reserved > 0}
CancelledOrdersReleased ==
  (Never({"redeliver", "insertunknown"}) /\ Unreleased # {}) ~> Unreleased = {}
=============================================================================

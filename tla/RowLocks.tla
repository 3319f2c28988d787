------------------------------- MODULE RowLocks -------------------------------
(***************************************************************************)
(* The row locks that the database transactions of the matching engine,    *)
(* the portfolio service and the order service take on users, orders and   *)
(* positions, in the order of their statements.                            *)
(*                                                                         *)
(* A transaction is the sequence of the rows it locks, each with the       *)
(* strongest lock its statements ask for: a later statement on a row it    *)
(* holds takes nothing.  Locks are given up together, at commit or         *)
(* rollback.  The database aborts one transaction of a cycle of waits.     *)
(*                                                                         *)
(* There is one symbol, so a user has one position.  A trade is settled    *)
(* after the transaction that stores it.                                   *)
(***************************************************************************)
EXTENDS Integers, Sequences, SequencesExt

CONSTANTS
  Buys, Sells,  \* the orders of each side
  NumUsers,     \* users are numbered in the order of their id strings
  Owner,        \* the user of each order
  Trades,       \* the trades these orders may make
  Settlers,     \* trade consumers of the portfolio replicas
  Releasers,    \* their order event consumers
  Handlers,     \* concurrent requests to the portfolio and order services
  Engine        \* the matching engine's consumer

Kinds == {"settle", "cancelled", "reserve cash", "reserve shares", "release cash",
          "release shares", "insert", "match", "cancel"}
Procs == Settlers \cup Releasers \cup Handlers \cup {Engine}
Orders == Buys \cup Sells
Users  == 1..NumUsers

ASSUME UsersAssumption  == NumUsers \in Nat
ASSUME OwnerAssumption  == Owner \in [Orders -> Users]
ASSUME TradesAssumption == Trades \subseteq [buy : Buys, sell : Sells]

VARIABLES
  stored,  \* the trades table
  kind,    \* the kind of each process' transaction, or "none"
  trades,  \* the trades that transaction stores
  locks,   \* what it locks, in order
  at       \* how many of these locks it holds

vars == <<stored, kind, trades, locks, at>>

-----------------------------------------------------------------------------
(* Locks *)

\* Row-level locks: SELECT FOR UPDATE; an UPDATE that leaves the key alone; the
\* check of a foreign key by INSERT.
Modes == {"update", "nokey", "share"}
Lock  == [table : {"users", "orders", "positions"}, id : Users \cup Orders, mode : Modes]

User(u, m)     == [table |-> "users",     id |-> u, mode |-> m]
Order(o, m)    == [table |-> "orders",    id |-> o, mode |-> m]
Position(u, m) == [table |-> "positions", id |-> u, mode |-> m]

Conflict(k, l) ==
  /\ k.table = l.table /\ k.id = l.id
  /\ \/ "update" \in {k.mode, l.mode}
     \/ k.mode = "nokey" /\ l.mode = "nokey"

-----------------------------------------------------------------------------
(* The transactions *)

\* Mutant of Accounts: the buyer first.
AccountsBuyerFirst(t) ==
  <<User(Owner[t.buy], "update"), User(Owner[t.sell], "update")>>

\* LockAccount, the smaller user id first.
Accounts(t) ==
  LET b == Owner[t.buy]  s == Owner[t.sell] IN
  IF b = s THEN <<User(b, "update")>>
  ELSE IF b < s THEN <<User(b, "update"), User(s, "update")>>
  ELSE <<User(s, "update"), User(b, "update")>>

\* ApplyTrade: both accounts, then ApplyBuyerTrade and ApplySellerTrade.
Settle(t) ==
  LET b == Owner[t.buy]  s == Owner[t.sell] IN
  Accounts(t) \o <<Order(t.buy, "update"),  Position(b, "nokey"),
                   Order(t.sell, "update"), Position(s, "nokey")>>

\* ApplyOrderEvent: the account, then ReleaseOrderReservation.
Cancelled(o) ==
  <<User(Owner[o], "update"), Order(o, "update")>>
    \o IF o \in Sells THEN <<Position(Owner[o], "nokey")>> ELSE <<>>

\* reserveHandler and releaseHandler; the latter finds a row to lock when the
\* insert that reported an error has stored one.
ReserveCash(u)   == <<User(u, "update")>>
ReserveShares(u) == <<Position(u, "update")>>
ReleaseCash(o)   == <<User(Owner[o], "update"), Order(o, "update")>>
ReleaseShares(o) == <<Position(Owner[o], "update"), Order(o, "update")>>

\* InsertOrderWithOutbox, whose source is missing: the foreign key of orders to
\* the user is what any insert of an order has to lock.
Insert(u) == <<User(u, "share")>>

\* PersistMatchResultsTx: each trade's foreign keys, then the changed orders, in
\* the order in which Go iterates over the map of them.
ForeignKeys(t) ==
  <<User(Owner[t.buy], "share"), User(Owner[t.sell], "share"),
    Order(t.buy, "share"), Order(t.sell, "share")>>
Match(ts, updates) ==
  ForeignKeys(ts[1]) \o (IF Len(ts) = 1 THEN <<>> ELSE ForeignKeys(ts[2]))
    \o [i \in DOMAIN updates |-> Order(updates[i], "nokey")]

\* Bound: a match makes one or two trades.  They share the incoming order, and
\* none is stored yet.
Matches ==
  LET new == Trades \ stored IN
  {<<t>> : t \in new} \cup
  {ts \in new \X new : /\ ts[1] # ts[2]
                       /\ ts[1].buy = ts[2].buy \/ ts[1].sell = ts[2].sell}
Changed(ts) == UNION {{ts[i].buy, ts[i].sell} : i \in DOMAIN ts}

\* processCancelCommand: GetOrderForUpdate.
CancelOrder(o) == <<Order(o, "update")>>

-----------------------------------------------------------------------------
(* Waiting *)

Held(p)    == {locks[p][i] : i \in 1..at[p]}
Wanted(p)  == locks[p][at[p] + 1]
Wanting(p) == at[p] < Len(locks[p])

Waits(p, q) ==
  /\ q # p /\ Wanting(p)
  /\ \E l \in Held(q) : Conflict(Wanted(p), l)

\* No member of a deadlocked set ever gets its lock while the others wait.
Deadlocked(D) == D # {} /\ \A p \in D : \E q \in D : Waits(p, q)

-----------------------------------------------------------------------------
Init ==
  /\ stored \in SUBSET Trades
  /\ kind   = [p \in Procs |-> "none"]
  /\ trades = [p \in Procs |-> <<>>]
  /\ locks  = [p \in Procs |-> <<>>]
  /\ at     = [p \in Procs |-> 0]

Start(p, k, ts, ls) ==
  /\ kind[p] = "none"
  /\ kind'   = [kind   EXCEPT ![p] = k]
  /\ trades' = [trades EXCEPT ![p] = ts]
  /\ locks'  = [locks  EXCEPT ![p] = ls]
  /\ UNCHANGED <<stored, at>>

\* processTrade and processOrderEvent, for an event not applied yet.
BeginSettle(p)    == \E t \in stored : Start(p, "settle", <<>>, Settle(t))
BeginCancelled(p) == \E o \in Orders : Start(p, "cancelled", <<>>, Cancelled(o))

BeginRequest(p) ==
  \/ \E u \in Users :
       \/ Start(p, "reserve cash",   <<>>, ReserveCash(u))
       \/ Start(p, "reserve shares", <<>>, ReserveShares(u))
       \/ Start(p, "insert",         <<>>, Insert(u))
  \/ \E o \in Buys  : Start(p, "release cash",   <<>>, ReleaseCash(o))
  \/ \E o \in Sells : Start(p, "release shares", <<>>, ReleaseShares(o))

\* processCreateCommand and processCancelCommand.
BeginMatch(p)  == \E ts \in Matches :
                    \E updates \in SetToSeqs(Changed(ts)) :
                      Start(p, "match", ts, Match(ts, updates))
BeginCancel(p) == \E o \in Orders : Start(p, "cancel", <<>>, CancelOrder(o))

Acquire(p) ==
  /\ Wanting(p)
  /\ \A q \in Procs : ~Waits(p, q)
  /\ at' = [at EXCEPT ![p] = @ + 1]
  /\ UNCHANGED <<stored, kind, trades, locks>>

End(p) ==
  /\ kind[p] # "none"
  /\ kind'   = [kind   EXCEPT ![p] = "none"]
  /\ trades' = [trades EXCEPT ![p] = <<>>]
  /\ locks'  = [locks  EXCEPT ![p] = <<>>]
  /\ at'     = [at     EXCEPT ![p] = 0]

Commit(p) ==
  /\ ~Wanting(p)
  /\ stored' = stored \cup {trades[p][i] : i \in DOMAIN trades[p]}
  /\ End(p)

\* A check fails, a statement reports an error, or the process dies.
Rollback(p) == End(p) /\ UNCHANGED stored

Next ==
  \/ \E p \in Settlers  : BeginSettle(p)
  \/ \E p \in Releasers : BeginCancelled(p)
  \/ \E p \in Handlers  : BeginRequest(p)
  \/ BeginMatch(Engine)
  \/ BeginCancel(Engine)
  \/ \E p \in Procs : Acquire(p) \/ Commit(p) \/ Rollback(p)

Spec == Init /\ [][Next]_vars

-----------------------------------------------------------------------------
(* Properties *)

TypeOK ==
  /\ stored \subseteq Trades
  /\ kind   \in [Procs -> Kinds \cup {"none"}]
  /\ trades \in [Procs -> Seq(Trades)]
  /\ locks  \in [Procs -> Seq(Lock)]
  /\ at     \in [Procs -> Nat]
  /\ \A p \in Procs : at[p] <= Len(locks[p])

\* All transactions but the engine's matches and the release of shares take
\* accounts before orders and positions, and accounts in the order of their ids.
AccountsFirst == Kinds \ {"match", "release shares"}
Ordered == {p \in Procs : kind[p] \in AccountsFirst}

\* Settlements, cancellations, reservations and requests never wait for one
\* another in a cycle, however many of them run (ApplyTrade, ApplyOrderEvent,
\* reserveHandler).
OrderedNeverDeadlock == \A D \in SUBSET Ordered : ~Deadlocked(D)

\* What the deep dive says of the two account locks of ApplyTrade: no cycle of
\* locks at all.  PersistMatchResultsTx locks the buyer before the seller.
NoDeadlock == \A D \in SUBSET Procs : ~Deadlocked(D)

=============================================================================

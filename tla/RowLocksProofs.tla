---------------------------- MODULE RowLocksProofs ----------------------------
(***************************************************************************)
(* Proofs about RowLocks, for any orders, users and processes.             *)
(*                                                                         *)
(* A cycle of waits has no last member.  Take the transactions somebody    *)
(* waits for: each waits for a user row itself (behind the accounts nobody *)
(* contends), it waits for the second account of a settlement, and whoever *)
(* it waits for wants a greater one.  User numbers are bounded, so there   *)
(* is a greatest, and no cycle.                                            *)
(***************************************************************************)
EXTENDS RowLocks, TLAPS, WellFoundedInduction, FiniteSetTheorems

(***************************************************************************)
(* Types                                                                   *)
(***************************************************************************)
LEMMA ScriptTypes ==
  /\ \A t \in Trades : Settle(t) \in Seq(Lock) /\ ForeignKeys(t) \in Seq(Lock)
  /\ \A o \in Orders : /\ Cancelled(o) \in Seq(Lock) /\ CancelOrder(o) \in Seq(Lock)
                       /\ ReleaseCash(o) \in Seq(Lock) /\ ReleaseShares(o) \in Seq(Lock)
  /\ \A u \in Users : /\ ReserveCash(u) \in Seq(Lock) /\ ReserveShares(u) \in Seq(Lock)
                      /\ Insert(u) \in Seq(Lock)
<1>1. \A u \in Users, m \in Modes : User(u, m) \in Lock /\ Position(u, m) \in Lock
  BY DEF User, Position, Lock
<1>2. \A o \in Orders, m \in Modes : Order(o, m) \in Lock
  BY DEF Order, Lock
<1>3. \A o \in Orders : Owner[o] \in Users
  BY OwnerAssumption
<1>4. \A t \in Trades : t.buy \in Orders /\ t.sell \in Orders
  BY TradesAssumption DEF Orders
<1>5. {"update", "nokey", "share"} = Modes
  BY DEF Modes
<1>6. \A t \in Trades : Accounts(t) \in Seq(Lock)
  BY <1>1, <1>3, <1>4, <1>5 DEF Accounts
<1>7. \A t \in Trades : Settle(t) \in Seq(Lock)
  BY <1>1, <1>2, <1>3, <1>4, <1>5, <1>6 DEF Settle
<1>8. \A t \in Trades : ForeignKeys(t) \in Seq(Lock)
  BY <1>1, <1>2, <1>3, <1>4, <1>5 DEF ForeignKeys
<1>9. \A o \in Orders : Cancelled(o) \in Seq(Lock)
  BY <1>1, <1>2, <1>3, <1>5 DEF Cancelled
<1>10. QED
  BY <1>1, <1>2, <1>3, <1>5, <1>7, <1>8, <1>9
  DEF CancelOrder, ReleaseCash, ReleaseShares, ReserveCash, ReserveShares, Insert

LEMMA UnionFinite ==
  ASSUME NEW S, NEW T, IsFiniteSet(S), IsFiniteSet(T)
  PROVE  IsFiniteSet(S \cup T)
BY FS_Union, Zenon

LEMMA PairFinite == ASSUME NEW a, NEW b PROVE IsFiniteSet({a, b})
<1>1. {a, b} = {a} \cup {b}
  OBVIOUS
<1>2. IsFiniteSet({a}) /\ IsFiniteSet({b})
  BY FS_Singleton, Zenon
<1>3. QED
  BY <1>1, <1>2, UnionFinite, Zenon

LEMMA MatchTypes ==
  ASSUME NEW ts \in Matches, stored \subseteq Trades, NEW updates \in SetToSeqs(Changed(ts))
  PROVE  ts \in Seq(Trades) /\ Match(ts, updates) \in Seq(Lock)
<1>1. ts \in Seq(Trades) /\ Len(ts) \in {1, 2}
  <2>1. CASE \E t \in Trades \ stored : ts = <<t>>
    BY <2>1
  <2>2. CASE ts \in (Trades \ stored) \X (Trades \ stored)
    <3>1. PICK t \in Trades, u \in Trades : ts = <<t, u>>
      BY <2>2
    <3>2. QED
      BY <3>1
  <2>3. QED
    BY <2>1, <2>2 DEF Matches
<1>2. ts[1] \in Trades /\ (Len(ts) = 2 => ts[2] \in Trades)
  BY <1>1
<1>3. Changed(ts) \subseteq Orders /\ IsFiniteSet(Changed(ts))
  <2>1. CASE Len(ts) = 1
    <3>1. Changed(ts) = {ts[1].buy, ts[1].sell}
      BY <1>1, <2>1 DEF Changed
    <3>2. IsFiniteSet(Changed(ts))
      BY <3>1, PairFinite, Zenon
    <3>3. Changed(ts) \subseteq Orders
      BY <3>1, <1>2, TradesAssumption DEF Orders
    <3>4. QED
      BY <3>2, <3>3
  <2>2. CASE Len(ts) = 2
    <3>1. DOMAIN ts = {1, 2}
      BY <1>1, <2>2
    <3>2. Changed(ts) = {ts[1].buy, ts[1].sell, ts[2].buy, ts[2].sell}
      BY <3>1 DEF Changed
    <3>3. IsFiniteSet({ts[1].buy, ts[1].sell}) /\ IsFiniteSet({ts[2].buy, ts[2].sell})
      BY PairFinite
    <3>4. Changed(ts) = {ts[1].buy, ts[1].sell} \cup {ts[2].buy, ts[2].sell}
      BY <3>2
    <3>5. IsFiniteSet(Changed(ts))
      <4>1. IsFiniteSet({ts[1].buy, ts[1].sell} \cup {ts[2].buy, ts[2].sell})
        BY <3>3, UnionFinite, Zenon
      <4>2. QED
        BY <3>4, <4>1, Zenon
    <3>6. QED
      BY <3>2, <3>5, <2>2, <1>2, TradesAssumption DEF Orders
  <2>3. QED
    BY <1>1, <2>1, <2>2
<1>4. Cardinality(Changed(ts)) \in Nat
  BY <1>3, FS_CardinalityType
<1>5. updates \in Seq(Orders)
  <2>1. updates \in [1..Cardinality(Changed(ts)) -> Changed(ts)]
    BY DEF SetToSeqs
  <2>2. QED
    BY <2>1, <1>3, <1>4
<1>6. [i \in DOMAIN updates |-> Order(updates[i], "nokey")] \in Seq(Lock)
  <2>1. \A o \in Orders : Order(o, "nokey") \in Lock
    BY DEF Order, Lock, Modes
  <2>2. \A i \in DOMAIN updates : Order(updates[i], "nokey") \in Lock
    BY <1>5, <2>1
  <2>3. QED
    BY <1>5, <2>2
<1>7. ForeignKeys(ts[1]) \in Seq(Lock) /\ (Len(ts) = 2 => ForeignKeys(ts[2]) \in Seq(Lock))
  BY <1>2, ScriptTypes
<1>8. QED
  BY <1>1, <1>6, <1>7 DEF Match

(***************************************************************************)
(* The inductive invariant                                                 *)
(***************************************************************************)
\* A process without a transaction locks nothing.
Idle == \A p \in Procs : kind[p] = "none" => locks[p] = <<>>

\* Conflicting locks have one holder.
Exclusive ==
  \A p, q \in Procs : p # q => \A l \in Held(p), m \in Held(q) : ~Conflict(l, m)

\* What the transactions that take accounts first lock.
Scripts ==
  \A p \in Procs :
    /\ kind[p] = "settle"         => \E t \in Trades : locks[p] = Settle(t)
    /\ kind[p] = "cancelled"      => \E o \in Orders : locks[p] = Cancelled(o)
    /\ kind[p] = "reserve cash"   => \E u \in Users  : locks[p] = ReserveCash(u)
    /\ kind[p] = "reserve shares" => \E u \in Users  : locks[p] = ReserveShares(u)
    /\ kind[p] = "release cash"   => \E o \in Buys   : locks[p] = ReleaseCash(o)
    /\ kind[p] = "insert"         => \E u \in Users  : locks[p] = Insert(u)
    /\ kind[p] = "cancel"         => \E o \in Orders : locks[p] = CancelOrder(o)

IInv == TypeOK /\ Idle /\ Exclusive /\ Scripts

LEMMA InitInv == Init => IInv
<1> SUFFICES ASSUME Init PROVE IInv
  OBVIOUS
<1>1. TypeOK
  BY DEF Init, TypeOK
<1>2. Idle /\ Scripts
  BY DEF Init, Idle, Scripts
<1>3. Exclusive
  BY DEF Init, Exclusive, Held
<1>4. QED
  BY <1>1, <1>2, <1>3 DEF IInv

\* Beginning a transaction takes no lock, ending one only gives locks up.
LEMMA StartInv ==
  ASSUME IInv, NEW p \in Procs, NEW k \in Kinds, NEW ts \in Seq(Trades), NEW ls \in Seq(Lock),
         Start(p, k, ts, ls)
  PROVE  TypeOK' /\ Idle' /\ Exclusive'
<1>0. at[p] = 0
  BY DEF IInv, TypeOK, Idle, Start
<1>1. TypeOK'
  BY <1>0 DEF IInv, TypeOK, Start
<1>2. Idle'
  BY DEF IInv, TypeOK, Idle, Start, Kinds
<1>3. Exclusive'
  <2>1. \A q \in Procs : Held(q)' = Held(q)
    <3> TAKE q \in Procs
    <3>1. CASE q = p
      BY <1>0, <3>1 DEF Start, Held
    <3>2. CASE q # p
      BY <3>2 DEF Start, Held, IInv, TypeOK
    <3>3. QED
      BY <3>1, <3>2
  <2>2. QED
    BY <2>1 DEF IInv, Exclusive
<1>4. QED
  BY <1>1, <1>2, <1>3

LEMMA EndInv ==
  ASSUME IInv, NEW p \in Procs, End(p), stored' \subseteq Trades
  PROVE  IInv'
<1>1. TypeOK'
  BY DEF IInv, TypeOK, End
<1>2. Idle'
  BY DEF IInv, TypeOK, Idle, End
<1>3. Exclusive'
  <2>1. \A q \in Procs : Held(q)' \subseteq Held(q)
    <3> TAKE q \in Procs
    <3>1. CASE q = p
      <4>1. at'[q] = 0
        BY <3>1 DEF End, IInv, TypeOK
      <4>2. QED
        BY <4>1 DEF Held
    <3>2. CASE q # p
      BY <3>2 DEF End, Held, IInv, TypeOK
    <3>3. QED
      BY <3>1, <3>2
  <2>2. QED
    BY <2>1 DEF IInv, Exclusive
<1>4. Scripts'
  <2> SUFFICES ASSUME NEW q \in Procs, q # p PROVE locks'[q] = locks[q] /\ kind'[q] = kind[q]
    BY DEF IInv, TypeOK, Scripts, End
  <2>1. QED
    BY DEF IInv, TypeOK, End
<1>5. QED
  BY <1>1, <1>2, <1>3, <1>4 DEF IInv

LEMMA AcquireInv ==
  ASSUME IInv, NEW p \in Procs, Acquire(p)
  PROVE  IInv'
<1>1. TypeOK'
  BY DEF IInv, TypeOK, Acquire, Wanting
<1>2. Idle'
  BY DEF IInv, Idle, Acquire
<1>3. Exclusive'
  <2>1. \A q \in Procs : q # p => Held(q)' = Held(q)
    BY DEF Acquire, Held, IInv, TypeOK
  <2>2. Held(p)' = Held(p) \cup {Wanted(p)}
    <3>1. at'[p] = at[p] + 1 /\ at[p] \in Nat /\ locks' = locks
      BY DEF Acquire, IInv, TypeOK
    <3>2. 1..(at[p] + 1) = 1..at[p] \cup {at[p] + 1}
      BY <3>1
    <3>3. Held(p)' = {locks[p][i] : i \in 1..(at[p] + 1)}
      BY <3>1 DEF Held
    <3>4. QED
      BY <3>2, <3>3 DEF Held, Wanted
  <2>3. \A q \in Procs : q # p => \A l \in Held(q) : ~Conflict(Wanted(p), l) /\ ~Conflict(l, Wanted(p))
    BY DEF Acquire, Waits, Conflict
  <2>4. QED
    BY <2>1, <2>2, <2>3 DEF IInv, Exclusive
<1>4. Scripts'
  BY DEF IInv, Scripts, Acquire
<1>5. QED
  BY <1>1, <1>2, <1>3, <1>4 DEF IInv

\* Beginning one of the transactions that take accounts first keeps Scripts.
LEMMA BeginInv ==
  ASSUME IInv, NEW p \in Procs, NEW k \in Kinds, NEW ts \in Seq(Trades), NEW ls \in Seq(Lock),
         Start(p, k, ts, ls),
         k = "settle"         => \E t \in Trades : ls = Settle(t),
         k = "cancelled"      => \E o \in Orders : ls = Cancelled(o),
         k = "reserve cash"   => \E u \in Users  : ls = ReserveCash(u),
         k = "reserve shares" => \E u \in Users  : ls = ReserveShares(u),
         k = "release cash"   => \E o \in Buys   : ls = ReleaseCash(o),
         k = "insert"         => \E u \in Users  : ls = Insert(u),
         k = "cancel"         => \E o \in Orders : ls = CancelOrder(o)
  PROVE  IInv'
<1>1. TypeOK' /\ Idle' /\ Exclusive'
  BY StartInv
<1>2. Scripts'
  <2> SUFFICES ASSUME NEW q \in Procs
               PROVE  IF q = p THEN kind'[q] = k /\ locks'[q] = ls
                      ELSE kind'[q] = kind[q] /\ locks'[q] = locks[q]
    BY DEF Scripts, IInv
  <2>1. QED
    BY DEF Start, IInv, TypeOK
<1>3. QED
  BY <1>1, <1>2 DEF IInv

LEMMA NextInv == IInv /\ [Next]_vars => IInv'
<1> SUFFICES ASSUME IInv, [Next]_vars PROVE IInv'
  OBVIOUS
<1> USE ScriptTypes
<1>0. <<>> \in Seq(Trades) /\ Orders = Buys \cup Sells /\ stored \subseteq Trades
  BY DEF Orders, IInv, TypeOK
<1>1. ASSUME NEW p \in Settlers, BeginSettle(p) PROVE IInv'
  <2>1. PICK t \in stored : Start(p, "settle", <<>>, Settle(t))
    BY <1>1 DEF BeginSettle
  <2>2. p \in Procs /\ "settle" \in Kinds /\ t \in Trades
    BY <1>0 DEF Procs, Kinds
  <2>3. QED
    BY <1>0, <2>1, <2>2, BeginInv
<1>2. ASSUME NEW p \in Releasers, BeginCancelled(p) PROVE IInv'
  <2>1. PICK o \in Orders : Start(p, "cancelled", <<>>, Cancelled(o))
    BY <1>2 DEF BeginCancelled
  <2>2. p \in Procs /\ "cancelled" \in Kinds
    BY DEF Procs, Kinds
  <2>3. QED
    BY <1>0, <2>1, <2>2, BeginInv
<1>3. ASSUME NEW p \in Handlers, BeginRequest(p) PROVE IInv'
  <2>0. p \in Procs /\ {"reserve cash", "reserve shares", "insert", "release cash", "release shares"} \subseteq Kinds
    BY DEF Procs, Kinds
  <2>1. ASSUME NEW u \in Users, Start(p, "reserve cash", <<>>, ReserveCash(u)) PROVE IInv'
    BY <1>0, <2>0, <2>1, BeginInv
  <2>2. ASSUME NEW u \in Users, Start(p, "reserve shares", <<>>, ReserveShares(u)) PROVE IInv'
    BY <1>0, <2>0, <2>2, BeginInv
  <2>3. ASSUME NEW u \in Users, Start(p, "insert", <<>>, Insert(u)) PROVE IInv'
    BY <1>0, <2>0, <2>3, BeginInv
  <2>4. ASSUME NEW o \in Buys, Start(p, "release cash", <<>>, ReleaseCash(o))
         PROVE IInv'
    BY <1>0, <2>0, <2>4, BeginInv
  <2>5. ASSUME NEW o \in Sells, Start(p, "release shares", <<>>, ReleaseShares(o)) PROVE IInv'
    BY <1>0, <2>0, <2>5, BeginInv
  <2>6. QED
    BY <1>3, <2>1, <2>2, <2>3, <2>4, <2>5 DEF BeginRequest
<1>4. ASSUME BeginMatch(Engine) PROVE IInv'
  <2>0. PICK ts \in Matches : \E updates \in SetToSeqs(Changed(ts)) :
          Start(Engine, "match", ts, Match(ts, updates))
    BY <1>4 DEF BeginMatch
  <2>1. PICK updates \in SetToSeqs(Changed(ts)) : Start(Engine, "match", ts, Match(ts, updates))
    BY <2>0
  <2>2. ts \in Seq(Trades) /\ Match(ts, updates) \in Seq(Lock)
    BY <1>0, MatchTypes
  <2>3. Engine \in Procs /\ "match" \in Kinds
    BY DEF Procs, Kinds
  <2>4. QED
    BY <2>1, <2>2, <2>3, BeginInv
<1>5. ASSUME BeginCancel(Engine) PROVE IInv'
  <2>1. PICK o \in Orders : Start(Engine, "cancel", <<>>, CancelOrder(o))
    BY <1>5 DEF BeginCancel
  <2>2. Engine \in Procs /\ "cancel" \in Kinds
    BY DEF Procs, Kinds
  <2>3. QED
    BY <1>0, <2>1, <2>2, BeginInv
<1>6. ASSUME NEW p \in Procs, Commit(p) PROVE IInv'
  <2>1. stored' \subseteq Trades
    BY <1>6 DEF Commit, IInv, TypeOK
  <2>2. QED
    BY <1>6, <2>1, EndInv DEF Commit
<1>7. ASSUME NEW p \in Procs, Rollback(p) PROVE IInv'
  BY <1>0, <1>7, EndInv DEF Rollback
<1>8. CASE UNCHANGED vars
  <2>1. TypeOK' /\ Idle' /\ Scripts'
    BY <1>8 DEF vars, IInv, TypeOK, Idle, Scripts
  <2>2. \A p \in Procs : Held(p)' = Held(p)
    BY <1>8 DEF vars, Held
  <2>3. Exclusive'
    BY <2>2 DEF IInv, Exclusive
  <2>4. QED
    BY <2>1, <2>3 DEF IInv
<1>9. QED
  BY <1>1, <1>2, <1>3, <1>4, <1>5, <1>6, <1>7, <1>8, AcquireInv DEF Next

(***************************************************************************)
(* No cycle of waits                                                       *)
(***************************************************************************)
\* The user whose account covers a row.
Account(l) == IF l.table = "orders" THEN Owner[l.id] ELSE l.id

\* Users come first and ascend; a row that comes later is covered by the account
\* of its user; a transaction that starts with another row locks only that row.
LEMMA ScriptOrder ==
  ASSUME IInv, NEW p \in Ordered, NEW j \in 1..Len(locks[p])
  PROVE  /\ locks[p][j].table = "users" =>
              /\ locks[p][j].id \in Users
              /\ \A i \in 1..(j - 1) : locks[p][i].table = "users" /\ locks[p][i].id < locks[p][j].id
         /\ locks[p][j].table # "users" =>
              IF j = 1 THEN Len(locks[p]) = 1
              ELSE \E i \in 1..(j - 1) : locks[p][i] = User(Account(locks[p][j]), "update")
<1>0. p \in Procs /\ kind[p] \in AccountsFirst
  BY DEF Ordered
<1>1. CASE kind[p] = "settle"
  <2>1. PICK t \in Trades : locks[p] = Settle(t)
    BY <1>0, <1>1 DEF IInv, Scripts
  <2>2. Owner[t.buy] \in Users /\ Owner[t.sell] \in Users
    BY TradesAssumption, OwnerAssumption DEF Orders
  <2>3. CASE Owner[t.buy] = Owner[t.sell]
    BY <2>1, <2>2, <2>3, UsersAssumption DEF Settle, Accounts, User, Order, Position, Account, Users
  <2>4. CASE Owner[t.buy] < Owner[t.sell]
    <3>1. Accounts(t) = <<User(Owner[t.buy], "update"), User(Owner[t.sell], "update")>>
      BY <2>2, <2>4, UsersAssumption DEF Accounts, Users
    <3>2. QED
      BY <2>1, <2>2, <2>4, <3>1, UsersAssumption DEF Settle, User, Order, Position, Account, Users
  <2>5. CASE Owner[t.sell] < Owner[t.buy]
    <3>1. Accounts(t) = <<User(Owner[t.sell], "update"), User(Owner[t.buy], "update")>>
      BY <2>2, <2>5, UsersAssumption DEF Accounts, Users
    <3>2. QED
      BY <2>1, <2>2, <2>5, <3>1, UsersAssumption DEF Settle, User, Order, Position, Account, Users
  <2>6. QED
    BY <2>2, <2>3, <2>4, <2>5, UsersAssumption DEF Users
<1>2. CASE kind[p] = "cancelled"
  <2>1. PICK o \in Orders : locks[p] = Cancelled(o)
    BY <1>0, <1>2 DEF IInv, Scripts
  <2>2. QED
    BY <2>1, OwnerAssumption DEF Cancelled, User, Order, Position, Account
<1>3. CASE kind[p] = "release cash"
  <2>1. PICK o \in Buys : locks[p] = ReleaseCash(o)
    BY <1>0, <1>3 DEF IInv, Scripts
  <2>2. QED
    BY <2>1, OwnerAssumption DEF Orders, ReleaseCash, User, Order, Account
<1>4. CASE kind[p] \in {"reserve cash", "insert"}
  <2>1. PICK u \in Users : locks[p] = ReserveCash(u) \/ locks[p] = Insert(u)
    BY <1>0, <1>4 DEF IInv, Scripts
  <2>2. QED
    BY <2>1 DEF ReserveCash, Insert, User
<1>5. CASE kind[p] \in {"reserve shares", "cancel"}
  <2>1. PICK l : locks[p] = <<l>> /\ l.table # "users"
    <3>1. CASE kind[p] = "reserve shares"
      <4>1. PICK u \in Users : locks[p] = ReserveShares(u)
        BY <1>0, <3>1 DEF IInv, Scripts
      <4>2. QED
        BY <4>1 DEF ReserveShares, Position
    <3>2. CASE kind[p] = "cancel"
      <4>1. PICK o \in Orders : locks[p] = CancelOrder(o)
        BY <1>0, <3>2 DEF IInv, Scripts
      <4>2. QED
        BY <4>1 DEF CancelOrder, Order
    <3>3. QED
      BY <1>5, <3>1, <3>2
  <2>2. QED
    BY <2>1
<1>6. QED
  BY <1>0, <1>1, <1>2, <1>3, <1>4, <1>5 DEF AccountsFirst, Kinds

\* A transaction that holds a row and waits for an account-first one that still
\* wants rows waits for a user.
LEMMA WaitsForUser ==
  ASSUME IInv, NEW q \in Ordered, NEW r \in Ordered, Waits(q, r), Wanting(r), Held(q) # {}
  PROVE  Wanted(q).table = "users"
<1> SUFFICES ASSUME Wanted(q).table # "users" PROVE FALSE
  OBVIOUS
<1>0. /\ q \in Procs /\ r \in Procs /\ q # r
      /\ at[q] \in Nat /\ at[r] \in Nat /\ Len(locks[q]) \in Nat /\ Len(locks[r]) \in Nat
      /\ at[q] < Len(locks[q]) /\ at[r] < Len(locks[r])
  BY DEF Ordered, IInv, TypeOK, Waits, Wanting
<1>1. PICK i \in 1..at[r] : Conflict(Wanted(q), locks[r][i])
  BY DEF Waits, Held
<1>2. Account(locks[r][i]) = Account(Wanted(q)) /\ locks[r][i].table # "users"
  BY <1>1 DEF Conflict, Account
<1>3. PICK m \in 1..(i - 1) : locks[r][m] = User(Account(locks[r][i]), "update")
  <2>1. i \in Nat /\ 1 <= i /\ i <= at[r]
    BY <1>0
  <2>2. \A a, n \in Nat : i <= a /\ a < n => i \in 1..n /\ n # 1
    BY <2>1
  <2>3. i \in 1..Len(locks[r]) /\ Len(locks[r]) # 1
    BY <1>0, <2>1, <2>2
  <2>4. QED
    BY <1>2, <2>3, ScriptOrder
<1>4. locks[r][m] \in Held(r)
  BY <1>0, <1>1, <1>3 DEF Held
<1>5. PICK n \in 1..at[q] : locks[q][n] = User(Account(Wanted(q)), "update")
  <2>1. at[q] + 1 \in 1..Len(locks[q]) /\ at[q] # 0
    BY <1>0 DEF Held
  <2>2. at[q] + 1 # 1 /\ (at[q] + 1) - 1 = at[q]
    BY <1>0, <2>1
  <2>3. QED
    BY <2>1, <2>2, ScriptOrder DEF Wanted
<1>6. locks[q][n] \in Held(q)
  BY <1>0, <1>5 DEF Held
<1>7. Conflict(locks[q][n], locks[r][m])
  BY <1>2, <1>3, <1>5 DEF Conflict, User
<1>8. QED
  BY <1>0, <1>4, <1>6, <1>7 DEF IInv, Exclusive

\* Along a chain of waits the wanted users ascend.
LEMMA WaitsAscend ==
  ASSUME IInv, NEW q \in Ordered, NEW r \in Ordered, NEW s \in Ordered,
         Waits(q, r), Waits(r, s), Wanting(s)
  PROVE  /\ Wanted(r).table = "users" /\ Wanted(r).id \in Users
         /\ Wanted(q).table = "users" /\ Wanted(q).id < Wanted(r).id
<1>0. /\ r \in Procs /\ at[r] \in Nat /\ Len(locks[r]) \in Nat /\ at[r] < Len(locks[r])
  BY DEF Ordered, IInv, TypeOK, Waits, Wanting
<1>1. PICK i \in 1..at[r] : Conflict(Wanted(q), locks[r][i])
  BY DEF Waits, Held
<1>2. Wanted(r).table = "users"
  <2>1. Held(r) # {}
    BY <1>1 DEF Held
  <2>2. QED
    BY <2>1, WaitsForUser
<1>3. /\ Wanted(r).id \in Users
      /\ \A k \in 1..at[r] : locks[r][k].table = "users" /\ locks[r][k].id < Wanted(r).id
  <2>1. at[r] + 1 \in 1..Len(locks[r]) /\ (at[r] + 1) - 1 = at[r]
    BY <1>0
  <2>2. QED
    BY <1>2, <2>1, ScriptOrder DEF Wanted
<1>4. QED
  BY <1>1, <1>2, <1>3 DEF Conflict

LEMMA LeastNatural ==
  ASSUME NEW S \in SUBSET Nat, S # {}
  PROVE  \E m \in S : \A n \in S : m <= n
<1> DEFINE R == OpToRel(<, Nat)
<1>1. IsWellFoundedOn(R, Nat)
  BY NatLessThanWellFounded
<1> HIDE DEF R
<1>2. PICK m \in S : \A n \in S : ~(<<n, m>> \in R)
  BY <1>1, WFMin
<1>3. ASSUME NEW n \in S, n < m PROVE FALSE
  <2>1. <<n, m>> \in {x \in Nat \X Nat : x[1] < x[2]}
    BY <1>3
  <2>2. QED
    BY <1>2, <2>1 DEF R, OpToRel
<1>4. QED
  BY <1>3

LEMMA NoOrderedCycle ==
  ASSUME IInv, NEW D \in SUBSET Ordered, Deadlocked(D)
  PROVE  FALSE
<1> DEFINE E == {q \in D : \E p \in D : Waits(p, q)}
           S == {NumUsers - Wanted(q).id : q \in E}
<1>1. \A q \in D : Wanting(q) /\ \E r \in E : Waits(q, r)
  BY DEF Deadlocked, Waits
<1>2. E # {}
  BY <1>1 DEF Deadlocked
<1>3. \A q \in E : \E r \in E : /\ Waits(q, r)
                                /\ Wanted(q).id \in Users /\ Wanted(r).id \in Users
                                /\ Wanted(q).id < Wanted(r).id
  <2> TAKE q \in E
  <2>1. PICK p \in D : Waits(p, q)
    OBVIOUS
  <2>2. PICK r \in E : Waits(q, r)
    BY <1>1
  <2>3. PICK x \in E : Waits(r, x)
    BY <1>1
  <2>4. Wanted(q).id \in Users
    BY <1>1, <2>1, <2>2, WaitsAscend
  <2>5. Wanted(r).id \in Users /\ Wanted(q).id < Wanted(r).id
    BY <1>1, <2>2, <2>3, WaitsAscend
  <2>6. QED
    BY <2>2, <2>4, <2>5
<1>4. S \in SUBSET Nat /\ S # {}
  BY <1>2, <1>3, UsersAssumption DEF Users
<1>5. PICK m \in S : \A n \in S : m <= n
  <2> HIDE DEF S
  <2> QED
    BY <1>4, LeastNatural
<1>6. PICK q \in E : m = NumUsers - Wanted(q).id
  BY <1>5
<1>7. PICK r \in E : /\ Wanted(q).id \in Users /\ Wanted(r).id \in Users
                     /\ Wanted(q).id < Wanted(r).id
  BY <1>3
<1>8. NumUsers - Wanted(r).id \in S
  OBVIOUS
<1>9. QED
  BY <1>5, <1>6, <1>7, <1>8, UsersAssumption DEF Users

(***************************************************************************)
(* Theorems                                                                *)
(***************************************************************************)
THEOREM Inductive == Spec => []IInv
BY InitInv, NextInv, PTL DEF Spec

\* Types, and no transaction holds more locks than it asks for (BEGIN ... COMMIT
\* of the three services).
THEOREM TypeCorrect == Spec => []TypeOK
<1>1. IInv => TypeOK
  BY DEF IInv
<1>2. QED
  BY <1>1, Inductive, PTL

\* Settlements, cancellations, reservations, order inserts and cancel commands
\* never deadlock among themselves (ApplyTrade, ApplyOrderEvent), for any number
\* of users, orders and processes.
THEOREM OrderedDeadlockFree == Spec => []OrderedNeverDeadlock
<1>1. IInv => OrderedNeverDeadlock
  BY NoOrderedCycle DEF OrderedNeverDeadlock
<1>2. QED
  BY <1>1, Inductive, PTL
=============================================================================

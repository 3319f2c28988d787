---------------------------- MODULE MatchingEngine ----------------------------
(***************************************************************************)
(* The command pipeline of one symbol: orders and cancellations written to *)
(* the order outbox, the relay that publishes them to the orders topic,    *)
(* and the matching engine that consumes them, matches in memory and       *)
(* stores the outcome in one transaction per command.  All commands of a   *)
(* symbol are in one partition and the engine has one replica, so there is *)
(* one log and one consumer.                                               *)
(*                                                                         *)
(* A command is consumed in one step: the consumer goroutine is the only   *)
(* one that changes the book, and what happens inside the step is the      *)
(* subject of module OrderBook.  What can go wrong is which of its effects *)
(* last: the transaction may fail at several places, commit without the    *)
(* process learning of it, or commit just before the process dies.         *)
(***************************************************************************)
EXTENDS Integers, Sequences, FiniteSets, Functions, SequencesExt

CONSTANTS
  Orders,      \* order ids
  Cancels,     \* ids of the cancel commands users may request
  None,
  Portfolios,  \* initial choices of the orders' terms: functions on Orders
  FaultSets,   \* initial choices of the faults that may happen
  MaxLog       \* bound: messages in the orders topic

AllFaults ==
  {"reorder",     \* the relay publishes a younger command first (retry, backoff)
   "duplicate",   \* the relay publishes and dies before it marks the row
   "dbfail",      \* a statement fails and the transaction rolls back
   "cancelfail",  \* as dbfail, in processCancelCommand after the row is written
   "unknown",     \* the commit takes place but reports an error
   "offsetfail",  \* CommitMessages fails
   "rebalance",   \* the consumer rejoins its group and resumes at its offset
   "restart"}     \* the engine process dies and starts again

Terms == [side : {"BUY", "SELL"}, price : Nat, qty : Nat \ {0}, at : Int]

Statuses == {"NEW", "PARTIALLY_FILLED", "FILLED", "CANCELLED"}
RowState == [left : Nat, status : Statuses]

\* created_at tells the orders of a portfolio apart; orders that share it are a
\* matter of module OrderBook.
ASSUME OrdersAssumption     == IsFiniteSet(Orders)
ASSUME PortfoliosAssumption ==
  \A t \in Portfolios : /\ t \in [Orders -> Terms]
                        /\ \A o, p \in Orders : o # p => t[o].at # t[p].at
ASSUME FaultsAssumption     == FaultSets \subseteq SUBSET AllFaults
ASSUME BoundAssumption      == MaxLog \in Nat
ASSUME IdsAssumption        == Orders \cap Cancels = {} /\ None \notin Orders \cup Cancels

\* The order that the exchange gets to know.
LimitOrder(t) ==
  [type |-> "LIMIT", side |-> t.side, price |-> t.price, qty |-> t.qty, at |-> t.at]
ASSUME NoneAssumption ==
  None \notin RowState /\ \A t \in Portfolios, o \in Orders : None # LimitOrder(t[o])

VARIABLES
  faults,     \* the faults that may happen in this behaviour
  terms,      \* side, price, quantity and created_at of each order
  row,        \* the orders table: remaining quantity and status, or None
  traded,     \* the trades table: quantity each order has traded in all rows
  cancelled,  \* trade_outbox: number of ORDER_CANCELLED events of each order
  processed,  \* processed_events of the engine's two consumer groups
  outbox,     \* order_outbox rows not yet marked published, oldest first
  requested,  \* cancel ids already used
  log,        \* the partition of the orders topic
  position,   \* offset up to which this consumer has fetched
  committed,  \* committed offset of the consumer group
  ack,        \* a processed message waits for CommitMessages
  mem,        \* me.orders: left and status of each object, or None
  replaced,   \* left of an object still in a heap although me.orders has a
              \* newer object under its id
  failed,     \* history: commands whose handling has returned an error
  doubted     \* history: orders of which a failed command left the memory
              \* behind or ahead of the rows, since the process began

vars == <<faults, terms, row, traded, cancelled, processed, outbox, requested, log,
          position, committed, ack, mem, replaced, failed, doubted>>

database == <<row, traded, cancelled, processed>>
memory   == <<mem, replaced, doubted>>
source   == <<faults, terms, outbox, requested, log>>

IsOpen(r) == r # None /\ r.status \in {"NEW", "PARTIALLY_FILLED"} /\ r.left > 0

Create(o)    == [type |-> "CREATE_ORDER", id |-> o, order |-> o]
Cancel(o, c) == [type |-> "CANCEL_ORDER", id |-> c, order |-> o]

-----------------------------------------------------------------------------
(* Matching: what ProcessOrder does to the book, in one step *)

\* The heap entries: the object me.orders knows and the one it replaced.
Entries == Orders \X {"current", "replaced"}
Left(e) == IF e[2] = "replaced" THEN replaced[e[1]]
           ELSE IF mem[e[1]] = None THEN 0 ELSE mem[e[1]].left

\* The entries with quantity left that incoming order o may trade with.
Candidates(o) ==
  {e \in Entries :
     /\ Left(e) > 0
     /\ terms[e[1]].side # terms[o].side
     /\ \/ terms[o].side = "BUY"  /\ terms[o].price >= terms[e[1]].price
        \/ terms[o].side = "SELL" /\ terms[o].price <= terms[e[1]].price}

\* Mutant of Before: the later order first.
BeforeIfLater(e, f, replacedFirst) ==
  LET p == terms[e[1]]  q == terms[f[1]] IN
  IF e[1] = f[1] THEN e # f /\ (e[2] = "replaced") = replacedFirst
  ELSE IF p.price = q.price THEN p.at > q.at
  ELSE IF q.side = "BUY" THEN p.price > q.price ELSE p.price < q.price

\* e is matched before f.  Two objects of one order tie, up to the rounding of
\* created_at in the database: replacedFirst says which one the heap has on top.
Before(e, f, replacedFirst) ==
  LET p == terms[e[1]]  q == terms[f[1]] IN
  IF e[1] = f[1] THEN e # f /\ (e[2] = "replaced") = replacedFirst
  ELSE IF p.price = q.price THEN p.at < q.at
  ELSE IF q.side = "BUY" THEN p.price > q.price ELSE p.price < q.price

\* Mutant of Fill: every entry is emptied, whatever o still wants.
FillAll(o, replacedFirst) ==
  [e \in Entries |-> IF e \in Candidates(o) THEN Left(e) ELSE 0]

\* What o takes from each entry: all an entry has, as long as o is not filled.
Fill(o, replacedFirst) ==
  LET book     == Candidates(o)
      has      == [e \in book |-> Left(e)]
      ahead(e) == SumFunctionOnSet(has, {f \in book : Before(f, e, replacedFirst)})
      wanted(e) == terms[o].qty - ahead(e)
  IN [e \in Entries |->
        IF e \notin book \/ wanted(e) <= 0 THEN 0
        ELSE IF wanted(e) < has[e] THEN wanted(e) ELSE has[e]]

\* updateOrderStatus.
StatusAfter(old, left, qty) ==
  IF old = "CANCELLED" THEN "CANCELLED"
  ELSE IF left <= 0 THEN "FILLED"
  ELSE IF left < qty THEN "PARTIALLY_FILLED" ELSE "NEW"

Taken(m, fill)   == fill[<<m, "current">>] + fill[<<m, "replaced">>]
Total(fill)      == SumFunction(fill)
Changed(o, fill) == {o} \cup {m \in Orders : Taken(m, fill) > 0}

\* The objects after ProcessOrder(o): o is the command's object, a matched
\* order is looked up by id, whichever of its objects traded.
Matched(o, fill) ==
  [m \in Orders |->
     IF m \notin Changed(o, fill) THEN mem[m]
     ELSE LET left == IF m = o THEN terms[o].qty - Total(fill)
                      ELSE mem[m].left - fill[<<m, "current">>]
              old  == IF m = o THEN "NEW" ELSE mem[m].status
          IN [left |-> left, status |-> StatusAfter(old, left, terms[m].qty)]]

-----------------------------------------------------------------------------
Init ==
  /\ faults \in FaultSets
  /\ terms \in Portfolios
  /\ row       = [o \in Orders |-> None]
  /\ traded    = [o \in Orders |-> 0]
  /\ cancelled = [o \in Orders |-> 0]
  /\ processed = {}
  /\ outbox    = <<>>
  /\ requested = {}
  /\ log       = <<>>
  /\ position  = 0
  /\ committed = 0
  /\ ack       = FALSE
  /\ mem       = [o \in Orders |-> None]
  /\ replaced  = [o \in Orders |-> 0]
  /\ failed    = {}
  /\ doubted   = {}

\* createOrderHandler: order row and create command in one transaction, that of
\* InsertOrderWithOutbox, whose source is missing.
Place(o) ==
  /\ row[o] = None
  /\ row'    = [row EXCEPT ![o] = [left |-> terms[o].qty, status |-> "NEW"]]
  /\ outbox' = Append(outbox, Create(o))
  /\ UNCHANGED <<faults, terms, traded, cancelled, processed, requested, log, position,
                 committed, ack, memory, failed>>

\* orderActionHandler: the row is read as cancelable and the command enqueued, by
\* EnqueueCancelCommand, whose source is missing.
RequestCancel(o, c) ==
  /\ c \notin requested
  /\ IsOpen(row[o])
  /\ requested' = requested \cup {c}
  /\ outbox'    = Append(outbox, Cancel(o, c))
  /\ UNCHANGED <<faults, terms, database, log, position, committed, ack, memory, failed>>

\* Mutant of Publish: a row is marked although the write failed.
MarkUnsent(i, marked) ==
  /\ Len(log) < MaxLog
  /\ i = 1 \/ "reorder" \in faults
  /\ marked \/ "duplicate" \in faults
  /\ outbox' = RemoveAt(outbox, i)
  /\ \/ log' = log
     \/ log' = Append(log, outbox[i])
  /\ UNCHANGED <<faults, terms, database, requested, position, committed, ack, memory,
                 failed>>

\* The relay publishes the i-th pending command and marks its row, unless it
\* dies in between.
Publish(i, marked) ==
  /\ Len(log) < MaxLog
  /\ i = 1 \/ "reorder" \in faults
  /\ marked \/ "duplicate" \in faults
  /\ log'    = Append(log, outbox[i])
  /\ outbox' = IF marked THEN RemoveAt(outbox, i) ELSE outbox
  /\ UNCHANGED <<faults, terms, database, requested, position, committed, ack, memory,
                 failed>>

-----------------------------------------------------------------------------
(* The consumer: FetchMessage, the handler, CommitMessages *)

\* The next message is cmd; fetching moves on whatever becomes of it.
Fetch(cmd) ==
  /\ ~ ack
  /\ position < Len(log)
  /\ cmd = log[position + 1]
  /\ position' = position + 1
  /\ UNCHANGED <<source, committed>>

\* The handler returns nil and the message will be committed, or an error and
\* the loop continues with the next message.
Succeeds   == ack' = TRUE /\ UNCHANGED failed
Skips(cmd) == ack' = FALSE /\ failed' = failed \cup {cmd.id}

\* The event is in processed_events: nothing to do.
ConsumeDuplicate(cmd) ==
  /\ Fetch(cmd)
  /\ cmd.id \in processed
  /\ Succeeds
  /\ UNCHANGED <<database, memory>>

\* Begin or the duplicate check fails: memory has not been touched.
BeginFails(cmd) ==
  /\ "dbfail" \in faults
  /\ Fetch(cmd)
  /\ Skips(cmd)
  /\ UNCHANGED <<database, memory>>

\* What a committed create transaction leaves in the database.
StoreMatch(cmd, fill) ==
  LET o == cmd.order IN
  /\ row' = [m \in Orders |->
               IF m \in Changed(o, fill) THEN Matched(o, fill)[m] ELSE row[m]]
  /\ traded' = [m \in Orders |->
                  IF m = o THEN traded[m] + Total(fill) ELSE traded[m] + Taken(m, fill)]
  /\ processed' = processed \cup {cmd.id}
  /\ UNCHANGED cancelled

\* ProcessOrder on the command's object: an object of the same id that is
\* already in a heap stays there.
ApplyMatch(cmd, fill) ==
  LET o == cmd.order IN
  /\ mem'      = Matched(o, fill)
  /\ replaced' = [m \in Orders |-> IF m = o THEN Left(<<o, "current">>)
                                   ELSE replaced[m] - fill[<<m, "replaced">>]]
  /\ UNCHANGED doubted

\* RestoreSymbol: the orders as they were, heaps rebuilt from them alone.
RestoreSymbol ==
  /\ mem'      = mem
  /\ replaced' = [m \in Orders |-> 0]

\* Mutant of NewCreate: processed_events is not asked.
AnyCreate(cmd) == Fetch(cmd) /\ cmd.type = "CREATE_ORDER"

NewCreate(cmd) == Fetch(cmd) /\ cmd.type = "CREATE_ORDER" /\ cmd.id \notin processed

\* processCreateCommand, transaction committed.
ConsumeCreate(cmd, fill) ==
  /\ NewCreate(cmd)
  /\ StoreMatch(cmd, fill)
  /\ ApplyMatch(cmd, fill)
  /\ Succeeds

\* Mutant of CreateFails: the memory keeps the match.
CreateFailsUnrestored(cmd) ==
  /\ "dbfail" \in faults
  /\ NewCreate(cmd)
  /\ ApplyMatch(cmd, Fill(cmd.order, TRUE))
  /\ Skips(cmd)
  /\ UNCHANGED database

\* A statement after ProcessOrder fails, or the commit does.
CreateFails(cmd) ==
  /\ "dbfail" \in faults
  /\ NewCreate(cmd)
  /\ RestoreSymbol
  /\ Skips(cmd)
  /\ UNCHANGED <<database, doubted>>

\* The commit takes place, yet Commit returns an error: the rows have the match,
\* the memory has not.
CreateUnknown(cmd, fill) ==
  /\ "unknown" \in faults
  /\ NewCreate(cmd)
  /\ StoreMatch(cmd, fill)
  /\ RestoreSymbol
  /\ Skips(cmd)
  /\ doubted' = doubted \cup Changed(cmd.order, fill)

NewCancel(cmd) == Fetch(cmd) /\ cmd.type = "CANCEL_ORDER" /\ cmd.id \notin processed

\* Mutant of StoreCancel: an event for every command.
StoreCancelAlways(cmd) ==
  /\ processed' = processed \cup {cmd.id}
  /\ row' = [row EXCEPT ![cmd.order] = IF IsOpen(@) THEN [left |-> 0, status |-> "CANCELLED"]
                                       ELSE @]
  /\ cancelled' = [cancelled EXCEPT ![cmd.order] = @ + 1]
  /\ UNCHANGED traded

\* PersistCancelledOrderTx and MarkEventProcessed.  A row that is missing,
\* final or empty is left alone.
StoreCancel(cmd) ==
  LET o == cmd.order IN
  /\ processed' = processed \cup {cmd.id}
  /\ IF IsOpen(row[o])
       THEN /\ row' = [row EXCEPT ![o] = [left |-> 0, status |-> "CANCELLED"]]
            /\ cancelled' = [cancelled EXCEPT ![o] = @ + 1]
       ELSE UNCHANGED <<row, cancelled>>
  /\ UNCHANGED traded

\* me.CancelOrder, if the row is open and the engine knows the order: the
\* object me.orders has is emptied.
CancelInMemory(cmd) ==
  LET o == cmd.order IN
  /\ mem' = IF IsOpen(row[o]) /\ mem[o] # None
              THEN [mem EXCEPT ![o] = [left |-> 0, status |-> "CANCELLED"]]
              ELSE mem
  /\ UNCHANGED replaced

\* processCancelCommand, transaction committed.
ConsumeCancel(cmd) ==
  /\ NewCancel(cmd)
  /\ StoreCancel(cmd)
  /\ CancelInMemory(cmd)
  /\ Succeeds
  /\ UNCHANGED doubted

\* PersistCancelledOrderTx fails: RestoreOrder undoes CancelOrder.
CancelPersistFails(cmd) ==
  /\ "dbfail" \in faults
  /\ NewCancel(cmd)
  /\ Skips(cmd)
  /\ UNCHANGED <<database, memory>>

\* MarkEventProcessed or Commit fails: the transaction rolls back, the memory
\* does not.
CancelMarkFails(cmd) ==
  /\ "cancelfail" \in faults
  /\ NewCancel(cmd)
  /\ CancelInMemory(cmd)
  /\ Skips(cmd)
  /\ doubted' = IF mem' = mem THEN doubted ELSE doubted \cup {cmd.order}
  /\ UNCHANGED database

\* The commit takes place, yet Commit returns an error.
CancelUnknown(cmd) ==
  /\ "unknown" \in faults
  /\ NewCancel(cmd)
  /\ StoreCancel(cmd)
  /\ CancelInMemory(cmd)
  /\ Skips(cmd)
  /\ UNCHANGED doubted

\* CommitMessages: the group's offset moves past every message fetched so far.
CommitMessages ==
  /\ ack
  /\ ack'       = FALSE
  /\ committed' = position
  /\ UNCHANGED <<source, database, position, memory, failed>>

\* CommitMessages fails: logged, and the loop goes on.
CommitMessagesFails ==
  /\ "offsetfail" \in faults
  /\ ack
  /\ ack' = FALSE
  /\ UNCHANGED <<source, database, position, committed, memory, failed>>

\* The consumer leaves its group and joins again, with the memory it has: the
\* next message is the one at the committed offset.
Rejoin ==
  /\ "rebalance" \in faults
  /\ ~ ack
  /\ position # committed
  /\ position' = committed
  /\ UNCHANGED <<source, database, committed, ack, memory, failed>>

\* Mutants of Restart: no RestoreOrders, and a group without its offset.
RestartEmpty ==
  /\ "restart" \in faults
  /\ mem'      = [o \in Orders |-> None]
  /\ replaced' = [o \in Orders |-> 0]
  /\ position' = committed
  /\ ack'      = FALSE
  /\ doubted'  = {}
  /\ UNCHANGED <<source, database, committed, failed>>

RestartAtNewest ==
  /\ "restart" \in faults
  /\ mem'      = [o \in Orders |-> IF IsOpen(row[o]) THEN row[o] ELSE None]
  /\ replaced' = [o \in Orders |-> 0]
  /\ position' = Len(log)
  /\ ack'      = FALSE
  /\ doubted'  = {}
  /\ UNCHANGED <<source, database, committed, failed>>

\* The process dies and starts again: LoadOpenOrders and RestoreOrders rebuild
\* the book from every open row, the consumer resumes at the committed offset.
Restart ==
  /\ "restart" \in faults
  /\ mem'      = [o \in Orders |-> IF IsOpen(row[o]) THEN row[o] ELSE None]
  /\ replaced' = [o \in Orders |-> 0]
  /\ position' = committed
  /\ ack'      = FALSE
  /\ doubted'  = {}
  /\ UNCHANGED <<source, database, committed, failed>>

-----------------------------------------------------------------------------
\* The consumer handles the message it is at.
Handle(cmd) ==
  \/ ConsumeDuplicate(cmd)
  \/ \E first \in BOOLEAN : ConsumeCreate(cmd, Fill(cmd.order, first))
  \/ ConsumeCancel(cmd)

HandleFails(cmd) ==
  \/ BeginFails(cmd)
  \/ CreateFails(cmd)
  \/ \E first \in BOOLEAN : CreateUnknown(cmd, Fill(cmd.order, first))
  \/ CancelPersistFails(cmd)
  \/ CancelMarkFails(cmd)
  \/ CancelUnknown(cmd)

Messages == {log[i] : i \in DOMAIN log}

Next ==
  \/ \E o \in Orders : Place(o)
  \/ \E o \in Orders, c \in Cancels : RequestCancel(o, c)
  \/ \E i \in DOMAIN outbox, marked \in BOOLEAN : Publish(i, marked)
  \/ \E cmd \in Messages : Handle(cmd)
  \/ \E cmd \in Messages : HandleFails(cmd)
  \/ CommitMessages
  \/ CommitMessagesFails
  \/ Rejoin
  \/ Restart

\* The relay polls for ever and the consumer loop never stops; users may.  A
\* commit of the offset that is tried again and again succeeds in the end.
Fairness ==
  /\ WF_vars(\E i \in DOMAIN outbox : Publish(i, TRUE))
  /\ WF_vars(\E cmd \in Messages : Handle(cmd))
  /\ SF_vars(CommitMessages)

Spec == Init /\ [][Next]_vars /\ Fairness

-----------------------------------------------------------------------------
(* Properties *)

Command == [type : {"CREATE_ORDER", "CANCEL_ORDER"}, id : Orders \cup Cancels, order : Orders]

\* Every variable keeps its type.
TypeOK ==
  /\ faults \subseteq AllFaults
  /\ terms     \in [Orders -> Terms]
  /\ row       \in [Orders -> RowState \cup {None}]
  /\ traded    \in [Orders -> Nat]
  /\ cancelled \in [Orders -> Nat]
  /\ processed \subseteq Orders \cup Cancels
  /\ outbox    \in Seq(Command)
  /\ requested \subseteq Cancels
  /\ log       \in Seq(Command)
  /\ position  \in 0 .. Len(log)
  /\ committed \in 0 .. position
  /\ ack       \in BOOLEAN
  /\ mem       \in [Orders -> RowState \cup {None}]
  /\ replaced  \in [Orders -> Nat]
  /\ failed    \subseteq Orders \cup Cancels
  /\ doubted   \subseteq Orders

\* What a property needs not to happen is part of the property.
Never(F) == faults \cap F = {}

\* The engine consumes a create command before the cancellations that follow it:
\* the relay keeps the order, and a create command that failed does not return.
CreatesFirst ==
  Never({"reorder"}) /\ (Never({"dbfail"}) \/ Never({"restart", "rebalance"}))

\* Over-execution: the trades stored for an order never exceed its quantity.
NoOverExecution == \A o \in Orders : traded[o] <= terms[o].qty

\* The book is the open rows: an order whose create command took effect is in
\* memory with what its row has left, and only such orders are, once each.  A
\* cancellation that fails late and a commit that takes place in spite of its
\* error part memory and rows for the orders of that command, and for no others,
\* whatever these trade with afterwards.  A restart loads more.
BookIsOpenRows ==
  Never({"restart"}) =>
    /\ \A o \in Orders : replaced[o] = 0
    /\ \A o \in Orders \ doubted :
         Left(<<o, "current">>) =
           IF o \in processed /\ IsOpen(row[o]) THEN row[o].left ELSE 0

\* No processed open order is missing from the book, restarts included, but for
\* the orders such a command has touched since the process began.
OpenOrdersKept ==
  \A o \in (processed \cap Orders) \ doubted :
    IsOpen(row[o]) => Left(<<o, "current">>) > 0

\* At-least-once: the group's offset passes no command that has had no effect,
\* unless handling it has returned an error; restarts, rebalances, duplicates and
\* lost offsets lose none.
NoCommandLostUnlessFailed ==
  \A i \in 1 .. committed : log[i].id \in processed \cup failed

\* One ORDER_CANCELLED event for a cancelled row, none for any other: the
\* event on which the portfolio service releases the reservation.
OneCancelEvent ==
  CreatesFirst /\ Never({"cancelfail"}) =>
    \A o \in Orders :
      cancelled[o] = IF row[o] # None /\ row[o].status = "CANCELLED" THEN 1 ELSE 0

\* Idempotence: trades and cancellations are stored only together with the id of
\* a command that has not been stored before, one command at a time.
EffectOnce ==
  [][<<traded, cancelled>>' # <<traded, cancelled>>
       => \E cmd \in Messages : cmd.id \notin processed
                               /\ processed' = processed \cup {cmd.id}]_vars

\* A cancellation that was stored is never taken back.
CancelledStays ==
  [][CreatesFirst =>
       \A o \in Orders : row[o] # None /\ row[o].status = "CANCELLED"
         => row'[o] = row[o]]_vars

\* Every accepted order and every accepted cancellation is dealt with in the end,
\* although offsets are lost and the consumer goes back to the committed one
\* again and again: over and over nothing is left to do.  (Duplicates would use
\* up the bound on the log.)
Unprocessed == ({o \in Orders : row[o] # None} \cup requested) \ processed
CommandsProcessed ==
  (faults \subseteq {"offsetfail", "rebalance"} /\ Unprocessed # {}) ~> Unprocessed = {}

-----------------------------------------------------------------------------
(* The rows as an exchange *)

\* What the portfolios have in field f.
Field(f) == {t[o][f] : t \in Portfolios, o \in Orders}

\* An order exists for the exchange when its create command has taken effect.
acceptedOrders == [o \in Orders |-> IF o \in processed THEN LimitOrder(terms[o]) ELSE None]
acceptedLeft   == [o \in Orders |-> IF o \in processed THEN row[o].left ELSE 0]
acceptedStatus == [o \in Orders |-> IF o \in processed THEN row[o].status ELSE "NEW"]
acceptedFilled == [o \in Orders |-> IF o \in processed THEN traded[o] ELSE 0]

Rows == INSTANCE Exchange WITH
  Prices     <- Field("price"),
  Quantities <- Field("qty"),
  Times      <- Field("at"),
  Types      <- {"LIMIT"},
  orders     <- acceptedOrders,
  remaining  <- acceptedLeft,
  status     <- acceptedStatus,
  filled     <- acceptedFilled

\* The rows the engine stores behave like the exchange: each create command
\* takes effect once, in one step, with the trades price-time priority gives
\* it; whatever is redelivered, rolled back or skipped in between.
ImplementsExchange == Rows!Spec
=============================================================================

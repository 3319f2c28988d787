# TradeSphere: specifications, model checks and proofs

TradeSphere is an event-driven exchange: Go services that share one PostgreSQL
database and talk through Kafka. A user's order is validated and paid for
(reserved) by the portfolio service, stored with a command in an outbox by the
order service, published to Kafka, matched in memory by the matching engine,
stored with its trades and with events in a second outbox, published again, and
settled by the portfolio service, while the websocket service shows it to clients.

The TLA+ modules here model the parts of that path in which the order of steps,
the loss of a process or the repetition of a message decides whether money and
orders are right. Paths below are relative to the repository; line numbers of
every definition are in `PROJECT.json` under `map`.

## 1. Inventory

| Component | Source | State | Operations |
|---|---|---|---|
| Order book and engine memory | `services/matching-engine/orderbook`, `engine` | `me.orders`, two heaps of pointers per symbol | `ProcessOrder`, `CancelOrder`, `SnapshotSymbol` / `RestoreSymbol`, `RestoreOrder`, `RestoreOrders` |
| Matching engine command pipeline | `services/matching-engine/kafka/consumer.go`, `database/db.go`, `main.go` | rows of `orders`, `trades`, `trade_outbox`, `processed_events`; the offset of its group | `processCreateCommand`, `processCancelCommand`, the fetch and commit loop, recovery at start |
| Trade outbox relay | `services/matching-engine/kafka/producer.go`, `database/db.go` | rows of `trade_outbox`: published, claim, attempts, next attempt | claim, publish, mark, record a failure, dead letter queue |
| Order service | `services/order-service/main.go`, `database/db.go`; `database/outbox.go` (`InsertOrderWithOutbox`, `EnqueueCancelCommand`) is not in the repository | rows of `orders`, `order_outbox` | `createOrderHandler` (validate, reserve, insert, release on failure), `orderActionHandler` (cancel) |
| Order outbox relay | not in the repository (`StartOrderOutboxPublisher` is called, its file is absent) | `order_outbox` | publish and mark |
| Portfolio service | `services/portfolio-service/main.go`, `kafka/consumer.go`, `database/db.go` | `users.balance`, `reserved_balance`, `positions.quantity`, `reserved_quantity`, `orders.reserved_*`, `processed_events` | validate, reserve, release handlers; trade and order-event consumers; read handlers |
| Portfolio reconciliation worker | not in the repository | | |
| WebSocket service | `services/websocket-service/main.go` | the map of clients, a gauge of their number, one goroutine per connection, `processed_events` and the offsets of its group | `handleConnections`, `removeClient`, `broadcast`, `processEvent` in two consumers (`trades`, `order-events`) |
| Row locks of the database transactions | `ApplyTrade`, `ApplyOrderEvent`, `reserveHandler`, `releaseHandler`, `PersistMatchResultsTx`, `processCancelCommand`, the order insert; `infra/postgres/init.sql` for the foreign keys | which transaction holds which row of `users`, `orders`, `positions` | lock, wait, commit, roll back |
| Fixed-point money | `pkg/money` | none | parse, format, `CostFor` |
| Authentication, rate limit, metrics | `pkg/auth`, `pkg/observability` | a limiter per client | |
| API gateway, user service | described by the docs, not in the repository | | |
| Frontend, deployment, schema, test producer | `frontend`, `k8s`, `infra`, `docker-compose.yml`, `testproducer` | | |

How they interact:

- order service -> portfolio service: HTTP with a timeout (validate, reserve, release);
- order service -> matching engine: `order_outbox`, relay, topic `orders` (key: symbol);
- matching engine -> portfolio and websocket services: `trade_outbox`, relay,
  topics `trades` and `order-events`;
- all of them share tables: the engine updates `orders.remaining_quantity`, which
  settlement reads, and the portfolio service updates `orders.reserved_*`.

What is hard in it:

- **memory and database** change in different steps: `ProcessOrder` mutates the
  book before the transaction that stores the match commits, so every failure
  must undo it, and a restart must rebuild it;
- **at-least-once delivery** in four places (two relays, two kinds of consumer)
  against idempotence by `processed_events`;
- **a consumer that goes on after an error**, in a log whose offsets are cumulative;
- **lazy removal**: cancelled orders stay in the heaps;
- **reservations** are made by one service before the order exists, reduced by a
  consumer that reads what a third service has stored in the meantime, and
  released by two paths (handler and event) that may both run;
- **two topics** with no order between them;
- **claims with a lifetime**, batches that are given up halfway, retries with
  backoff and a dead letter queue;
- **row locks** of three services on shared tables, some of them taken by foreign
  keys and some in the order of a Go map;
- **a map of connections** that handlers, two consumers and a ping goroutine per
  connection change, with a broadcast that works on a copy of it;
- **fixed-width numbers** at both ends of their range, parsed and printed by each
  service in turn.

What makes each part correct is stated by the properties in section 4; the
hazards, each at its line, are in `PROJECT.json` with the properties that would
catch them.

## 2. Modules

| Module | Models | EXTENDS / INSTANCE |
|---|---|---|
| `Exchange` | abstract: one symbol's exchange, an order executes in one step by price-time priority or not at all | |
| `OrderBook` | engine memory, one action per iteration of the matching loop, snapshot, rollback, cancel, undo; its refinement mapping | INSTANCE `Exchange` |
| `MCOrderBook` | instance | `OrderBook` |
| `OrderBookProofs` | inductive invariant and theorems of `OrderBook`, refinement included | `OrderBook`, `SumTheorems` |
| `MatchingEngine` | commands, relay, topic, consumer, transactions, offsets, restart; the refinement mapping of the stored rows | INSTANCE `Exchange` |
| `MCMatchingEngine` | instances | `MatchingEngine` |
| `MatchingEngineProofs` | inductive invariant and theorems of `MatchingEngine`, refinement included | `MatchingEngine`, `SumTheorems` |
| `Portfolio` | reservation protocol, settlement, release; two consumer replicas | |
| `MCPortfolio` | instances | `Portfolio` |
| `PortfolioProofs` | inductive invariant and theorems of `Portfolio` | `Portfolio`, `SumTheorems` |
| `SumTheorems` | lemmas only: induction and recursion on numbers, sequences and finite sets, sums over finite sets, as the other proofs need them | `Functions`, `TLAPS` |
| `EventBus` | abstract: an at-least-once bus with a dead letter queue after so many refusals | |
| `TradeOutbox` | relay workers, claims, topic, dead letter queue; its refinement mapping | INSTANCE `EventBus` |
| `MCTradeOutbox` | instances | `TradeOutbox` |
| `TradeOutboxProofs` | inductive invariant and theorems of `TradeOutbox`, refinement included | `TradeOutbox`, `TLAPS` |
| `RowLocks` | the rows each transaction of three services locks, in order | |
| `MCRowLocks` | instance | `RowLocks` |
| `RowLocksProofs` | inductive invariant and theorems of `RowLocks` | `RowLocks`, `TLAPS` |
| `Feed` | connections and consumers of the websocket service | |
| `MCFeed` | instance | `Feed` |
| `FeedProofs` | inductive invariant and theorems of `Feed` | `Feed`, `TLAPS` |
| `Money` | parsing, printing and cost of fixed-point numbers, over several services | |
| `MCMoney` | instance | `Money` |
| `MoneyProofs` | inductive invariant and theorems of `Money` | `Money`, `SumTheorems` |

Definitions whose comment begins with "Mutant of" are deliberate mistakes. No
specification uses them; each one, put in the place of the definition it
mutates, makes the property that `PROJECT.json` pairs it with fail.

### Faults

`MatchingEngine`, `Portfolio`, `TradeOutbox` and `Feed` name every failure they
know in `AllFaults`, with a comment on each. The set of failures that may happen
in a behaviour is a variable, `faults`, chosen in `Init` from a constant
(`FaultSets`, `Scenarios`) and never changed. A property that does not survive a
failure says so: `Never(F) => ...` restricts it to behaviours without the
failures `F`. Thus one run checks each property under everything it is claimed
to withstand, and the theorems keep the same conditions. Where a failure harms
only some orders or commands, the property says which ones instead of excluding the
failure: the orders in `doubted` and the commands in `failed` (`MatchingEngine`),
the requests in phase `"lost"` (`Portfolio`).

### OrderBook

`orders`, `remaining`, `status` are the objects of `me.orders`; `heap` is the set
of orders whose pointer is in one of the two heaps. `phase` is where the order
consumer is: it is the only goroutine that changes the book, so `Accept`
(snapshot, then the start of `ProcessOrder`) is followed by iterations of the
loop (`MatchTop`, `PopEmpty`), by `EndMatching` (rest, statuses) and by the
outcome of the transaction (`Persisted` or `RestoreSymbol`). A cancellation is
`CancelOrder`, then `CancelPersisted` or `RestoreOrder`. Which of several equal
elements is on top of a heap is left open. Market orders are modelled as the
order book has them; the consumer itself only lets limit orders through
(`kafka/consumer.go:72`), so a market order reaches
this code only by a direct call, as in its package's interface.

### MatchingEngine

The whole pipeline of one symbol. `Place` and `RequestCancel` are the order
service's transactions (row and command together); `Publish` is the relay, which
may die before it marks a row. The consumer fetches, handles and acknowledges;
handling is one step (what happens in it is `OrderBook`'s subject), and its
outcomes are the places at which the transaction can fail. `ack` separates the
transaction from `CommitMessages`. `Rejoin` takes the consumer back to the
committed offset with the memory it has, `Restart` with the memory `LoadOpenOrders`
gives it. `failed` and `doubted` are history: the commands whose handling returned an
error, and the orders for which one of them left memory and rows apart, a
cancellation whose mark or commit fails or a commit of unknown outcome; a restart
reads the rows and empties `doubted`. `InsertOrderWithOutbox` and
`EnqueueCancelCommand`, which write row and command, have no source in the
repository; `Place` and `RequestCancel` do what their callers in `main.go` rely on.
`mem` and `replaced` are the memory:
`replaced` holds what is left of an object that is still in a heap after
`me.orders` got a newer object under its id, which happens when a restart loads
an order whose create command is still in the topic. `Fill` gives each entry
of the book what price-time priority leaves it, as a sum over the entries ahead.

### Portfolio

Cash and shares are treated alike: `owned` and `held` are balance and reserved
balance, quantity and reserved quantity; an order reserves the asset it may have
to give. Cash is counted in units of 1/`Scale` of a minor unit, so that a cost is a
product; `Exact` says which costs `CostFor` can represent. `http[o]` is where
`createOrderHandler` is for order `o`; in phase `"lost"` it has ended, by a timeout, a
crash or a failed release, with a reservation that nobody gives back. `Insert` is
`InsertOrderWithOutbox` as the handler uses it: its source is not in the
repository. Validation is
a read without a lock, so its answer may be stale; `Reserve` repeats the check
under the row's lock. The engine is reduced to what it stores (`Match`,
`CancelOrder`). A consumer replica finds an event unprocessed (`Deliver`), then
runs its transaction in one step, because the transaction locks the rows before
it uses them; the check of `processed_events` is repeated by the insert at the
end (`Fresh`). With the fault `redeliver` consumers apply events in any order
and more than once. `Releases` is what the code computes: the row's reservation
less what its *present* remaining quantity needs.

### TradeOutbox

The rows of one key of `trade_outbox`. Each worker holds the batch its claim returned,
with the attempt counts of that moment, and is at one stage of handling its
first event. Time is reduced to what the queries ask: a claim is fresh or
older than 30 seconds, the next attempt is due or not. `EventBus` knows neither
workers nor claims: an event is accepted, sent, refused, given up to the dead letter
queue after `MaxAttempts` refusals, and settled. In the mapping `refusals` are
the recorded attempts and `settled` the rows marked as published, so that a claim,
a failed write to the database and the passing of time are stutters.

### RowLocks

A transaction is the sequence of the rows its statements lock, each in its
strongest mode: `Settle`, `Cancelled`, `ReserveCash`, `Match`, ... translate one
function each, foreign keys of the inserts included (`init.sql`); that of the order
insert is assumed from its foreign key alone, the function is not in the repository. `at` says how
many of its locks a process holds. `Acquire` waits for conflicting holders; `Commit` and
`Rollback` free everything; a rollback may happen anywhere, which stands for
failed checks, errors and the database's choice of a victim. The engine's consumer
is one process, portfolio consumers and HTTP handlers are sets of them. A trade
can be settled only after the match that stores it has committed, which decides
who can meet whom.

### Feed

`clients` and `gauge` are the map and the gauge; `handler[c]` and `link[c]` are
the goroutine of a connection and the state of its socket as the service can
observe it: a browser that leaves is noticed later. A consumer is at a `stage` of
`processEvent`; `broadcast` takes `snapshot`, writes to its members one by one
outside the lock (`Write`, `WriteFails`) and removes those that failed
(`EndBroadcast`). `offset` is what the group has committed, `event` how far the
consumer has read; a rebalance or a restart takes it back. The package that
implements the lookup and the mark in `processed_events` is not in the repository:
both are modelled as `processEvent` uses them. The deployment runs one replica
(`k8s/services.yaml`), so `processed_events` has no other writer.

### Money

A text is a sign, the digits before the first dot and the groups of digits after
each dot, so that `parseDecimal`'s refusals (two dots, too many places, no digits,
other characters, out of range) are all there. `formatDecimal` is modelled with
the constant it prints for the smallest integer, and negation wraps as in Go.
`Receive` and `Send` pass a request with two fields through up to `MaxHops` services;
`multiplyScaled` is `CostFor`. The width is a constant, `MaxInt`, and so is the number of
decimal places, `Decimals`; a unit is `Ten[Decimals]` minor units.

## 3. Fairness

- `OrderBook`: weak fairness of the loop's iterations; a goroutine that can go on does.
- `MatchingEngine`: weak fairness of the relay and of handling a message
  successfully, both endless loops, and strong fairness of `CommitMessages`, which a
  rebalance between two messages may disable again and again. `CommandsProcessed`
  claims something only of behaviours in which at most offset commits fail and
  the consumer goes back, since the code does not retry a failed command. Nothing
  is assumed of users.
- `Portfolio`: weak fairness of fetching, of each consumer, and of a handler that
  has begun; nothing makes users trade or orders meet.
- `TradeOutbox`: weak fairness of each worker (a ticker calls it every half
  second) and of time; strong fairness of each successful call: a call that is
  tried again and again succeeds in the end.
- `Feed`: weak fairness of each consumer's loop, of the step in which a handler
  that has registered its client counts it, of a ping goroutine whose connection is
  broken (a ticker), and of TCP reporting a peer that is gone. Nothing makes
  browsers come or go.
- `RowLocks` and `Money` claim no liveness.

## 4. Runs

| Run | Instance | Shows |
|---|---|---|
| `orderbook` | 3 orders of any side, type, price 1-2, quantity 1-2, time 1-2; ids taken in order (487 thousand states) | `Uncrossed`, `QuantityAccounted`, `WithinLimits`, `PriceTimePriority`, `OpenOrdersRest`; the loop ends (`MatchingEnds`); the loop with rollback and undo implements `Exchange` |
| `engine_exchange` | 3 orders in three books, 1 cancellation, 4 messages; failing transactions with duplicates, or with rebalances; lost offsets with rebalances (230 thousand states) | stored rows implement `Exchange`; with lost offsets and rebalances every stored order and cancellation is processed (`CommandsProcessed`) |
| `engine_faults` | 1 cancellation, 3 messages; 2 orders with five fault sets, three of them all faults but one; 3 orders with the failures that part memory and rows (3.2 million states) | memory is the open rows (`BookIsOpenRows`) and restarts keep the processed open orders (`OpenOrdersKept`), but for the orders in `doubted`; offsets pass no command but the failed ones (`NoCommandLostUnlessFailed`); one event per cancellation, never taken back (`OneCancelEvent`, `CancelledStays`); effects happen once (`EffectOnce`) |
| `portfolio` | 2 users, 2 replicas, 3 orders in three books with redelivery and every other fault (a lost answer to an insert with two of the books); and three choices of four orders of a user short of cash, with failing inserts (216 thousand states) | the ledger is the settled trades; final orders reserve nothing; reservations are exact and cover their orders; only a settlement makes a user short of what is reserved (`OnlySettlementOverdraws`); trades are settled and cancelled orders released in the end |
| `outbox_safety` | 2 workers, 2 events, batches of 2, 2 attempts, 3 sends, all faults | a marked row was sent, to the topic or to the dead letter queue (`MarkedIsSent`) |
| `outbox_live` | the same; failing writes, records and dead letter writes in any order of rows; and restarts alone | workers share no event (`ClaimsExclusive`), none is sent twice (`SentOnce`), each is delivered (`EventsDelivered`); the relay implements `EventBus` |
| `locks` | 2 users with a buy and a sell each, 3 possible trades, 2 settling consumers, 1 releasing one, 1 request, the engine with matches of 1 or 2 trades | transactions that lock accounts first never wait in a cycle (`OrderedNeverDeadlock`); deadlock is checked: some transaction can always go on or be rolled back |
| `feed` | 2 connections, 2 topics with a trade published twice, four scenarios: browsers leave; slow writes with a restart; rebalance with lost offsets; a failing database with a rebalance | each client of a broadcast's snapshot is offered the event (`OfferedToAll`); each connection gets each id once, in order (`InOrderOnce`); the gauge covers the counted clients (`NeverUndercounts`); broken connections are removed and events marked in the end (`BrokenClientsLeave`, `EventsMarked`) |
| `money` | 2 decimals, integers from -1024 to 1023, 2,880 pairs of texts, 3 services (10,496 states) | what is accepted is what was written (`OrderIsRequest`); what is refused is refused by the first service (`RefusedAtFirst`); costs are exact (`CostIsExact`) |

Three runs show that the code does not do what is written of it:

| Run | What happens |
|---|---|
| `engine_overexecution` | After a restart an order whose create command is unconsumed is in the book twice and both objects trade (`engine/engine.go:86`). |
| `portfolio_overdrawn` | Without any failure or cancellation: a buy of 2 at price 2 trades twice. Settling the first trade computes what the order needs from its row, where the second trade has left nothing remaining, and so frees all 4 (`portfolio-service/database/db.go:216`); the user, who has 2 left, reserves them for another buy; settling the second trade takes the 2, and `reserved_balance` is 2 with a `balance` of 0. |
| `locks_cycle` | Storing a match takes the foreign-key locks of the buyer before those of the seller, whatever their ids, and waits in a cycle with a settlement (`matching-engine/database/db.go:79`). |

Further disagreements met while modelling; the properties concerned carry them
as conditions:

- a failed command is skipped and the next commit of the offset passes it
  (`matching-engine/kafka/consumer.go:125`; `REPOSITORY_HANDBOOK.md:1498` says it is
  redelivered): `NoCommandLostUnlessFailed` counts it among the exceptions, `failed`;
- a claim older than 30 seconds is taken over while its worker still publishes
  (`matching-engine/database/db.go:224`; `REPOSITORY_HANDBOOK.md:1504`):
  `ClaimsExclusive` and `SentOnce` exclude `slow`;
- an event is broadcast before it is marked, so a failure in between repeats it to
  the browsers (`websocket-service/main.go:360`; `REPOSITORY_HANDBOOK.md:1268`):
  `InOrderOnce` excludes `dbfail` and `markfail`;
- a connection is counted after the lock on the map is given up
  (`websocket-service/main.go:130`), so the gauge may count it twice until the next removal;
  its help text (`main.go:32`) promises the current number: `NeverUndercounts` claims
  an upper bound only;
- a cancellation whose `MarkEventProcessed` or commit fails is not undone in
  memory (`kafka/consumer.go:279`), although `REPOSITORY_HANDBOOK.md:1577`
  says a failed transaction restores the state: `BookIsOpenRows`, `OpenOrdersKept`
  give up its order, which is in `doubted`;
- an insert that commits but reports an error makes the handler release the
  reservation of a live order, and, after the cancellation has released it too,
  that of another order (`portfolio-service/main.go:569`;
  `REPOSITORY_HANDBOOK.md:956`): with `insertunknown`, `OrdersCovered` allows the row to
  reserve nothing and `ReservationsExact` speaks of cash only: of a row that reserves
  nothing the release takes no cash, but for a sale it takes the quantity of the
  request, perhaps of another order;
- a failed event backs off while younger ones of its key are published
  (`kafka/producer.go:109`; `REPOSITORY_HANDBOOK.md:1531`): no property claims the
  topic's order;
- a create command that failed and that a restart or a rebalance brings back after
  the order's cancellation, or commands published out of order, revive a cancelled row: the
  condition `CreatesFirst`.

### Bounds, and why they are enough

Three orders are the least with which a taker meets two makers, the second at a
worse price or a later time, and with which an order rests behind another;
quantities 1-2 give exact, partial and repeated fills; prices 1-2 give crossing
and not crossing. In `MatchingEngine` the restart and duplicate cases need one
pair that trades and one command that comes back, so two orders, one
cancellation and three messages reach them; a memory parted from the rows needs a
third order that meets the ones it concerns, so the failures that part them are also
checked on books of three. `MCMatchingEngine`'s constraint `Scenario` pairs books with
fault sets. `MaxLog` bounds the topic; what would
be published after it is not. `Portfolio` has no counter to bound: each order is
created, traded and cancelled at most as often as its quantity allows. Its books
are one buy filled by two sells, two buys sharing a user's cash, a user trading
with the own order, and, with two buys and two sells of two users, one buy that
trades twice while its user lacks the cash for the other, two buys the user can pay
for, and two of which a part has no exact cost (`Scale` = 2). `MCPortfolio`'s
constraint `Scenario` only pairs books with fault sets. In `TradeOutbox`
`MaxEvents`, `MaxSends` bound rows and messages, `Limit` and `MaxAttempts` stand
for 100 and 10.

In `RowLocks` two users are enough for a cycle on accounts, and three trades for
settlements in both directions and of a user with the own order; a match is
bounded by two trades, which already lock accounts in conflicting orders. In
`Feed` two connections are one that breaks and one that must not suffer; the
trade topic repeats an id as the relay may, and `MaxBacks` = 1 bounds rebalances
and restarts: what a second one would find is a state the first may have found.
In `Money` the texts end at, before and beyond both ends of the range, and
`MaxInt` is one less than a power of two with more digits than `Decimals`, as
2^63 - 1 with 8; three services are one that reads the client and two that read
a service.

Deadlock is checked in `locks` and `locks_cycle`. Elsewhere it is not: those
systems may stop when their users do or when a bound is reached.

Two kinds of trade are never settled, because the portfolio consumer skips what
fails and a later commit passes it; `TradesSettled` names both as conditions,
and fails without either:

- a user short of cash (`Enough`) may, after the first of two trades is settled,
  reserve for a new order what the second has yet to pay, the consequence of
  `portfolio_overdrawn`;
- `CostFor` refuses a cost that is not a whole number of minor units, and only the
  cost of a whole buy is checked when an order is created: a trade of a part, or
  a part that remains, may have no exact cost (`Divisible`).

## 5. Proofs

TLAPS checks these for every value of the constants that meets the named
assumptions, which TLC evaluates in the runs. They type the constants, make
`None` differ from real values, and ask that the orders and users are finitely
many. One is a restriction: `PortfoliosAssumption` of `MatchingEngine` gives
different orders different `created_at`; what equal times do to the book is
`OrderBook`'s subject, whose theorems allow them.

**`OrderBookProofs`**: `TypeOK`, `Uncrossed`, `QuantityAccounted`,
`WithinLimits`, `PriceTimePriority`, `OpenOrdersRest`. None is inductive: a
rollback and an undo restore values of an earlier state, so the invariant speaks
of the saved state too. `IInv` adds

- `Control`: which of `taker`, `saved`, `undo` are set in which phase;
- `Blank`: orders that do not exist have no quantity and are in no heap;
- `Live`: an open order with quantity is in a heap, and what the snapshot or
  the undo record would restore is consistent with it;
- `NeverCrossed`: the book is not crossed, counting the orders a rollback or
  an undo would bring back as if they were there already;
- `AllAccount`: quantities add up in the present, the saved and the undone state;
- `TradesOfTaker`: each trade has the taker on one side and an order of the
  other side on the other.

One lemma per conjunct shows that every action keeps it.

`BookImplementsExchange` is the refinement. Until its transaction commits, an order
has not happened: the mapping shows the snapshot while `ProcessOrder` runs, and
what `RestoreOrder` would write back while a cancellation is being stored. So every
step stutters except `Persisted`, which is `Exchange`'s `Execute`, and
`CancelPersisted`, its `Cancel`. The fill of `Execute` is `Given`, what each order has
less than in the snapshot. Two more invariants follow it through the loop:
`SinceSnapshot` (an order has given exactly what it has traded, only if the taker
accepts it, and its status changed only if it gave something) and `TakerAccounts`
(the taker has the sum of what was given, and at the end is either filled or has
left nothing it accepts). `GivenIsFair` shows with `PriceTimePriority` that such a
fill is fair. A market order's unfilled rest is dropped, on both levels.

Two theorems give the safety part of `MatchingEnds`, which itself needs fairness.
`LoopNeverStuck`: while the loop runs, one of its guards holds. It rests on
`HeapHasTop`: `Less` is transitive and irreflexive on one side of the book, and in a
finite set under such a relation something is preceded by nothing
(`MinimalElement`). `IterationsAreBounded`: an iteration leaves less of
`remaining[taker] + Cardinality(heap)`, since it trades a positive quantity, and the
taker is not in the heap it trades with (`Live`), or drops an order.

**`PortfolioProofs`**: `TypeOK` (no balance, position, reservation or remaining
quantity is ever negative, under every fault), `OrdersCovered`,
`FinalOrdersReleased`. `IInv` adds

- `EventsSound`: events name stored orders, a trade a buy and a sell, a
  cancellation a closed order, and the events consumers hold exist;
- `HandlerFirst`: before a handler stores its order there is no row, nor while it
  releases, unless `insertunknown`;
- `CancelledIsClosed`: a cancelled row has nothing remaining;
- `ReleaseDue`: an order that is final but still reserves something has an event
  not yet applied; with it `FinalOrdersReleased` is a consequence.

The costs are products of two variables, so the arithmetic rests on two lemmas
(`Product`, `NeedMonotone`), and the steps use them by name.

On top of it, `LedgerIsSettledTrades` and `ReservationsExact`, which compare an
amount with a sum over all trades or orders of a user. One step changes the term of
one order or one trade: `TradeMoved` follows the ledger, `BackedStep` the claims of
the orders, and the lemmas `HandlerClaims`, `SettleClaims`, `ReleaseClaims` show
that the amount changes by as much. A request that is lost keeps its claim, which
is why the sum is exact under timeouts and crashes too. `SettlementOverdraws` says
of steps what `reserveHandler`'s second check, under the lock, is for.

**`SumTheorems`**: the sum of the community modules is a recursive function on the
subsets of its set, and the prover cannot use an induction principle over an
operator. `SubsetInduction` gives the same for a *set* of good subsets: were one
not good, a bad one of least cardinality would make a smaller one bad; `NatInd`,
`StrongInd` and `SeqInd` do so for numbers and sequences. A recursion is likewise
given by functions, and `Recursion` and `NatRecursion` show that a function that
satisfies its equation exists, on the finite sets of numbers and on the
naturals. From these follow that the sum exists and is unique
(`SummingExists`, `StepUnique`), that an element can be taken out (`SumRemove`), what a
changed value does to a sum (`SumChange`), and that disjoint sets add up
(`SumDisjoint`, with `SumSupport`, `SumMonotone` and `SumPairs` for the fills), and
that a factor can be drawn out (`SumScale`, for the value of digits).

**`MatchingEngineProofs`**: `TypeOK`, `BookIsOpenRows`, `OpenOrdersKept`,
`NoCommandLostUnlessFailed`, `OneCancelEvent`, and of steps `EffectOnce` and
`CancelledStays`, for any finite set of orders, any cancellations, any length of
the topic and all faults. That quantities stay natural numbers already needs what a
match takes: `FilledInOrder` shows that filling in order of priority takes no more
than an entry has and no more than the incoming order wants, by induction over
the initial segments of the order. `StepIs` reduces every action to one of a
few outcomes (nothing stored, a match stored, a cancellation stored, ...), and each
conjunct of `IInv` has one lemma over these:

- `Sound`: commands name stored orders, final orders have nothing left, and an
  object was replaced only if its create command took effect;
- `BookFollowsRows`: memory against rows, with the replaced objects, for the orders
  outside `doubted`, which is empty without the faults that part the two;
- `FetchedIsProcessed`: up to the position of the consumer, which the committed
  offset never passes, every command has taken effect or has failed;
- `CancelsFollow`: where the relay keeps the order, no create command is
  published after a cancellation of its order;
- `CancelledRows`, `CancelledOnce`: what a cancelled row looks like in memory and
  in the outbox, and that its create command is behind; without this a restart
  could load a row that a late create command then revives.

`EngineImplementsExchange`: the stored rows and trades implement `Exchange` while
memory follows the rows, that is without the faults `restart`, `unknown` and
`cancelfail` (`Quiet`). A match transaction is one `Execute`, a stored cancellation one
`Cancel`, everything else (failures, duplicates, offsets, the relay) a stutter.
`SameBook` shows that the entries the engine matches with are the orders
`Exchange` offers, `FilledByPriority` and `FillIsFair` that filling them in order of
priority, each with what those ahead leave over, is a fair fill, and
`MatchExecutes` that the match stores exactly that.

**`TradeOutboxProofs`**: `TypeOK`, `MarkedIsSent`, `DLQAfterAttempts` (no run
repeats it, since it follows from the refinement), `ClaimsExclusive`, `SentOnce`,
for any number of workers, events and attempts. A
worker acts on what its claim returned, which may be outdated, so `IInv` relates
the two:

- `Distinct`: no row is twice in a batch (lemma `ClaimedOrder`, from the
  definition of a claim's order);
- `Written`: what a worker is about to mark is in the topic it wrote it to;
- `AttemptsKnown`: the attempts a worker knows are at most those of the row;
- `Own`: while no claim expires early, a held row is claimed by its holder, fresh
  and unpublished; it gives `ClaimsExclusive`;
- `InTransit`: without the faults that repeat events, each event that is sent and
  not marked has a worker about to mark it; with `Own` it gives `Unsent`, what a
  worker is about to write is new, and so `Once`, which is `SentOnce`.

`RelayImplementsEventBus` is the refinement. A worker's write is the bus's `Send` or
`GiveUp`, the mark that follows it is `Settle`, a recorded failure is `Refuse`, and every
other step changes nothing the bus sees. What the bus allows and the code does not
look at is what `IInv` is for: that a worker gives up only a row which has been refused
often enough although it looks at its own copy (`AttemptsKnown`), that it marks only
what is sent (`Written`), and that without the faults in `Repeats` it writes only what
is not sent (`Unsent`): then the bus is `careful`. That no settled event is refused
is the update's own condition, `published_at IS NULL`.

**`RowLocksProofs`**: `TypeOK` and `OrderedNeverDeadlock`, for any number of
users, orders, consumers and handlers. `IInv` says that idle processes hold
nothing, that no two hold conflicting locks (`Exclusive`) and that each process
follows the script of its kind (`Scripts`). Then, in one state: users
come first in a script and ascend, and every later row is covered by the account
of its user (`ScriptOrder`); whoever waits for a transaction that still waits
itself waits for a user (`WaitsForUser`), and that user is smaller than the one
the other waits for (`WaitsAscend`). Hence a set of transactions in which
each waits for another has no member whose user is the greatest, although users are
finitely many (`NoOrderedCycle`). The set may be of any size.

**`FeedProofs`**: `TypeOK`, `OfferedToAll`, `InOrderOnce`, `NeverUndercounts`,
for any number of connections, topics and events. `IInv` adds that a connection
that has not begun is in no map or snapshot (`Known`), that during a broadcast each
client of the snapshot is to be written to, has failed, or has the event
(`Offering`), and that what a connection has got is ordered, free of repeated ids
and, unless it is the event at hand, marked (`Ordering`).

**`MoneyProofs`**: `OrderIsRequest`, `RefusedAtFirst` and `CostIsExact`, for any
width, any number of decimals and texts of any length. Numbers are read and printed
by recursions, so the first part is about these: they exist (`DigitsExist`,
`HornerExists`, by the lemmas on recursion), reading digit by digit gives the sum
of the digits times their powers of ten (`NumberIsPlaces`), appending and padding do to
a value what they should (`NumberConcat`, `NumberZeros`), and printing is undone
by reading (`NumberDigits`). `WrittenIs` and `RoundTrip` conclude that
`parseDecimal` of what `formatDecimal` prints is the number printed, the smallest
integer and its special case included; `ValueIs`, `Accepted` and
`RefusedHasNoValue` that `parseDecimal` returns the value a text denotes and refuses only
texts that denote none. The invariant is `Carried`: a service holds what
`parseDecimal` made of the *first* text, and what is on the wire is that text or
the printed form of what is held. With the round trip it is inductive, however many
services pass the message on. The assumptions are at least one decimal place and a
range that holds one whole unit. `CostIsExact` rests on the definition of
`big.Int`'s truncating division (`QuoRem`).

The types of `RowLocks` and `Feed` are proved and not repeated in a run.

Only model-checked: the liveness properties `MatchingEnds`, `CommandsProcessed`,
`TradesSettled`, `CancelledOrdersReleased`, `EventsDelivered`, `BrokenClientsLeave` and
`EventsMarked`, since fairness and what is enabled are out of the prover's reach.
Every invariant, every action property and every refinement that a passing run
checks is also a theorem.

## 6. Order of work

Written in this order, the most important first: `OrderBook` with `Exchange`;
`MatchingEngine`; `Portfolio`; `TradeOutbox`; the proofs of `OrderBook` and
`Portfolio`; `RowLocks`; `Feed`; `Money`; their proofs and those of
`TradeOutbox`; `SumTheorems` with the sums of `Portfolio`; the proofs of
`MatchingEngine`; the refinements of `Exchange` as theorems; `EventBus` and the proof that
`TradeOutbox` implements it; the proofs of `Money`; the loop of `OrderBook`. Left: what
makes the other liveness properties hold, stated as safety like the loop's (a measure
that each step of a relay worker, a handler or a consumer lowers).

## 7. Not modelled, and why

- Read handlers change nothing.
- Authentication: token checks keep no state. The rate limiter refuses a request
  before any handler runs and keeps one token bucket of a library per address.
- Metrics and logging decide nothing; only the gauge of connections is modelled.
- The order outbox relay, the reconciliation worker, the gateway and the user
  service have no source in the repository; the first is modelled by its use, as
  one action. The websocket service's database package has none either, nor has the
  order service's `database/outbox.go`: `InsertOrderWithOutbox` and
  `EnqueueCancelCommand` are modelled by what `createOrderHandler` and
  `orderActionHandler` do with them (row and command together, or an error), and the
  lock of the insert by the schema's foreign key. The function `InsertOrder` that
  `database/db.go` has is called by no handler and not modelled.
- Malformed commands and input checks end before any state changes.
- The order service's direct Kafka producer is called by no handler, and the test
  producer is a development tool.
- Migrations, the frontend and the deployment are configuration and
  presentation; what the service sees of the browser's reconnecting socket is that
  a connection ends and another begins. The number of processes the deployment
  runs (one engine, one websocket service, two portfolio services) is the models'.

## 8. Running

    tlc -workers 2 -config OrderBook.cfg MCOrderBook.tla
    tlapm OrderBookProofs.tla

The module of every run and its configuration are in `PROJECT.json`.

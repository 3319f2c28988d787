----------------------------- MODULE TradeOutbox -----------------------------
(***************************************************************************)
(* The trade outbox relay: events written with the transaction that caused *)
(* them, claimed in batches by relay workers, written to Kafka and marked. *)
(*                                                                         *)
(* Time is reduced to what the queries ask of it: a claim is fresh or      *)
(* older than 30 seconds, an event's next attempt is due or not.  All      *)
(* events here have one topic and one key, so they share a partition.      *)
(***************************************************************************)
EXTENDS Integers, Sequences, SequencesExt, FiniteSetsExt

CONSTANTS
  Workers,      \* relay workers
  None,
  MaxEvents,    \* bound: events ever enqueued
  Limit,        \* batch size (100 in the code)
  MaxAttempts,  \* maxDLQAttempts (10 in the code)
  MaxSends,     \* bound: messages in the topic and in its dead letter queue
  FaultSets     \* initial choices of the faults that may happen

AllFaults ==
  {"unordered",  \* the claim statement returns the rows in another order
   "writefail",  \* WriteMessages fails and nothing is written
   "ackfail",    \* WriteMessages fails although the message is written
   "markfail",   \* MarkOutboxEventPublished fails
   "recordfail", \* RecordOutboxPublishFailure fails
   "dlqfail",    \* the write to the dead letter queue fails
   "slow",       \* a claim expires while its worker still holds the event
   "restart"}    \* a worker process dies and starts again

ASSUME FaultsAssumption == FaultSets \subseteq SUBSET AllFaults
ASSUME NoneAssumption   == None \notin Workers
ASSUME BoundsAssumption == /\ MaxEvents \in Nat /\ MaxSends \in Nat
                           /\ Limit \in Nat \ {0} /\ MaxAttempts \in Nat

VARIABLES
  faults,  \* the faults that may happen in this behaviour
  outbox,  \* the rows of trade_outbox, in created_at order
  batch,   \* the events each worker has claimed and not handled yet
  stage,   \* what each worker does with the first of them
  topic,   \* the partition: indices of rows
  dlq      \* the dead letter queue

vars == <<faults, outbox, batch, stage, topic, dlq>>

Row == [published : BOOLEAN, attempts : Nat, claimed : Workers \cup {None},
        fresh : BOOLEAN, due : BOOLEAN]

Rows  == DOMAIN outbox
Sends == Len(topic) + Len(dlq)
Holds(w, i) == i \in {batch[w][j].row : j \in DOMAIN batch[w]}

-----------------------------------------------------------------------------
Init ==
  /\ faults \in FaultSets
  /\ outbox = <<>>
  /\ batch  = [w \in Workers |-> <<>>]
  /\ stage  = [w \in Workers |-> "write"]
  /\ topic  = <<>>
  /\ dlq    = <<>>

\* enqueueOutboxEvent, in the transaction that stores the match.
Enqueue ==
  /\ Len(outbox) < MaxEvents
  /\ outbox' = Append(outbox, [published |-> FALSE, attempts |-> 0, claimed |-> None,
                               fresh |-> FALSE, due |-> TRUE])
  /\ UNCHANGED <<faults, batch, stage, topic, dlq>>

-----------------------------------------------------------------------------
(* Time *)

\* 30 seconds pass since the claim.
Expire(i) ==
  /\ outbox[i].fresh
  /\ "slow" \in faults \/ \A w \in Workers : ~Holds(w, i)
  /\ outbox' = [outbox EXCEPT ![i].fresh = FALSE]
  /\ UNCHANGED <<faults, batch, stage, topic, dlq>>

\* next_attempt_at, at most 32 seconds ahead, is reached.
BecomeDue(i) ==
  /\ ~outbox[i].due
  /\ outbox' = [outbox EXCEPT ![i].due = TRUE]
  /\ UNCHANGED <<faults, batch, stage, topic, dlq>>

-----------------------------------------------------------------------------
(* publishPendingTradeEvents *)

\* Mutants of Claimable: claims are not looked at, the row is not asked whether
\* it is published, and a claim never expires.
ClaimableByAny(i) == ~outbox[i].published /\ outbox[i].due
ClaimableAgain(i) == outbox[i].due /\ (outbox[i].claimed = None \/ ~outbox[i].fresh)
ClaimableFree(i)  == ~outbox[i].published /\ outbox[i].due /\ outbox[i].claimed = None

\* The WHERE clause of ClaimPendingOutboxEvents.
Claimable(i) ==
  /\ ~outbox[i].published
  /\ outbox[i].due
  /\ outbox[i].claimed = None \/ ~outbox[i].fresh

\* ClaimPendingOutboxEvents.  The statement picks the oldest rows, but RETURNING
\* promises no order; the attempts the worker acts on are those it returned.
Orders(S) ==
  {s \in SetToSeqs(S) :
     "unordered" \in faults \/ \A m, n \in DOMAIN s : m < n => s[m] < s[n]}

Claim(w) ==
  LET ready == {i \in Rows : Claimable(i)}
      taken == {i \in ready : Cardinality({j \in ready : j < i}) < Limit} IN
  /\ batch[w] = <<>>
  /\ taken # {}
  /\ \E order \in Orders(taken) :
       batch' = [batch EXCEPT ![w] = [n \in DOMAIN order |->
                   [row |-> order[n], attempts |-> outbox[order[n]].attempts]]]
  /\ stage' = [stage EXCEPT ![w] = "write"]
  /\ outbox' = [i \in Rows |-> IF i \in taken
                  THEN [outbox[i] EXCEPT !.claimed = w, !.fresh = TRUE] ELSE outbox[i]]
  /\ UNCHANGED <<faults, topic, dlq>>

\* Mutant of Spent: one attempt short.
SpentEarly(w) == Head(batch[w]).attempts >= MaxAttempts - 1

\* The event a worker is at, and whether its attempts are used up.
Current(w) == Head(batch[w]).row
Spent(w)   == Head(batch[w]).attempts >= MaxAttempts
At(w, s)   == batch[w] # <<>> /\ stage[w] = s

\* Mutant of Advance: the next event inherits the stage of this one.
AdvanceOnly(w) == batch' = [batch EXCEPT ![w] = Tail(@)] /\ UNCHANGED stage

\* The worker goes on with the next event, or gives up the batch: the events
\* after the current one keep their claim.
Advance(w) == batch' = [batch EXCEPT ![w] = Tail(@)] /\ stage' = [stage EXCEPT ![w] = "write"]
Abandon(w) == batch' = [batch EXCEPT ![w] = <<>>]    /\ stage' = [stage EXCEPT ![w] = "write"]
Go(w, s)   == stage' = [stage EXCEPT ![w] = s]       /\ UNCHANGED batch

Write(w) ==
  /\ At(w, "write") /\ ~Spent(w)
  /\ Sends < MaxSends
  /\ topic' = Append(topic, Current(w))
  /\ \/ Go(w, "mark")
     \/ "ackfail" \in faults /\ Go(w, "record")
  /\ UNCHANGED <<faults, outbox, dlq>>

WriteFails(w) ==
  /\ "writefail" \in faults
  /\ At(w, "write") /\ ~Spent(w)
  /\ Go(w, "record")
  /\ UNCHANGED <<faults, outbox, topic, dlq>>

\* The row of a published event.
MarkedRow(r) == [r EXCEPT !.published = TRUE, !.claimed = None, !.fresh = FALSE]

\* MarkOutboxEventPublished.
Mark(w) ==
  /\ At(w, "mark")
  /\ outbox' = [outbox EXCEPT ![Current(w)] = IF @.published THEN @ ELSE MarkedRow(@)]
  /\ Advance(w)
  /\ UNCHANGED <<faults, topic, dlq>>

MarkFails(w) ==
  /\ "markfail" \in faults
  /\ At(w, "mark")
  /\ Abandon(w)
  /\ UNCHANGED <<faults, outbox, topic, dlq>>

\* Mutant of FailedRow: the attempts count down.
FailedRowDown(r) == [r EXCEPT !.attempts = @ - 1, !.due = FALSE, !.claimed = None, !.fresh = FALSE]

\* The row of an event whose publication failed.
FailedRow(r) == [r EXCEPT !.attempts = @ + 1, !.due = FALSE, !.claimed = None, !.fresh = FALSE]

\* RecordOutboxPublishFailure; then the batch is given up.
Record(w) ==
  /\ At(w, "record")
  /\ outbox' = [outbox EXCEPT ![Current(w)] = IF @.published THEN @ ELSE FailedRow(@)]
  /\ Abandon(w)
  /\ UNCHANGED <<faults, topic, dlq>>

RecordFails(w) ==
  /\ "recordfail" \in faults
  /\ At(w, "record")
  /\ Abandon(w)
  /\ UNCHANGED <<faults, outbox, topic, dlq>>

\* An event whose attempts are spent goes to the dead letter queue.
WriteDLQ(w) ==
  /\ At(w, "write") /\ Spent(w)
  /\ Sends < MaxSends
  /\ dlq' = Append(dlq, Current(w))
  /\ Go(w, "markdlq")
  /\ UNCHANGED <<faults, outbox, topic>>

WriteDLQFails(w) ==
  /\ "dlqfail" \in faults
  /\ At(w, "write") /\ Spent(w)
  /\ Advance(w)
  /\ UNCHANGED <<faults, outbox, topic, dlq>>

\* The error of this MarkOutboxEventPublished is ignored.
MarkDLQ(w) ==
  /\ At(w, "markdlq")
  /\ \/ outbox' = [outbox EXCEPT ![Current(w)] = IF @.published THEN @ ELSE MarkedRow(@)]
     \/ "markfail" \in faults /\ UNCHANGED outbox
  /\ Advance(w)
  /\ UNCHANGED <<faults, topic, dlq>>

Restart(w) ==
  /\ "restart" \in faults
  /\ batch[w] # <<>>
  /\ Abandon(w)
  /\ UNCHANGED <<faults, outbox, topic, dlq>>

-----------------------------------------------------------------------------
Succeed(w) == Claim(w) \/ Write(w) \/ Mark(w) \/ Record(w) \/ WriteDLQ(w) \/ MarkDLQ(w)
Fail(w)    == \/ WriteFails(w) \/ MarkFails(w) \/ RecordFails(w) \/ WriteDLQFails(w)
              \/ Restart(w)
Time       == \E i \in Rows : Expire(i) \/ BecomeDue(i)

Next == Enqueue \/ Time \/ \E w \in Workers : Succeed(w) \/ Fail(w)

\* The ticker fires again and again, calls return, time passes; and a call that
\* is tried again and again succeeds in the end.
Fairness ==
  /\ \A i \in 1 .. MaxEvents : /\ WF_vars(i \in Rows /\ Expire(i))
                               /\ WF_vars(i \in Rows /\ BecomeDue(i))
  /\ \A w \in Workers :
       /\ WF_vars(Succeed(w))
       /\ SF_vars(Write(w)) /\ SF_vars(Mark(w)) /\ SF_vars(Record(w))
       /\ SF_vars(WriteDLQ(w)) /\ SF_vars(MarkDLQ(w) /\ outbox' # outbox)

Spec == Init /\ [][Next]_vars /\ Fairness

-----------------------------------------------------------------------------
(* Properties *)

Sent(i) == i \in Range(topic) \cup Range(dlq)

\* Every variable keeps its type.
TypeOK ==
  /\ faults \in FaultSets
  /\ outbox \in Seq(Row)
  /\ batch \in [Workers -> Seq([row : Rows, attempts : Nat])]
  /\ stage \in [Workers -> {"write", "mark", "record", "markdlq"}]
  /\ topic \in Seq(Rows)
  /\ dlq \in Seq(Rows)

\* No event is lost between the outbox and Kafka: a row is marked only when its
\* event is in the topic or in the dead letter queue.
MarkedIsSent == \A i \in Rows : outbox[i].published => Sent(i)

\* What a property needs not to happen is part of the property.
Never(F) == faults \cap F = {}

\* Two workers never handle the same event, as long as a worker is done with a
\* batch before its claims expire.
ClaimsExclusive ==
  Never({"slow"}) =>
    \A v, w \in Workers : v # w => \A i \in Rows : ~(Holds(v, i) /\ Holds(w, i))

\* The faults after which an event may be sent again.
Repeats == {"slow", "ackfail", "markfail", "restart"}

\* Then, if a failed write has written nothing and a worker that has written an
\* event marks its row, no event is in the topic twice or both in the topic and in
\* the dead letter queue.
SentOnce == Never(Repeats) => IsInjective(topic \o dlq)

\* An event reaches the dead letter queue only after the topic refused it
\* MaxAttempts times.
DLQAfterAttempts == \A i \in Range(dlq) : outbox[i].attempts >= MaxAttempts

\* Every event is in the end in the topic or in the dead letter queue, and marked:
\* again and again none is left.  (Events sent twice would use up the bound on the
\* messages.)
Undelivered == {i \in Rows : ~(outbox[i].published /\ Sent(i))}
EventsDelivered ==
  (Never(Repeats) /\ Undelivered # {}) ~> Undelivered = {}

\* The relay is the event bus that EventBus describes, whatever its workers claim,
\* hold, repeat and give up: a careful one as long as nothing repeats a send.
Bus == INSTANCE EventBus WITH
  careful  <- Never(Repeats),
  refusals <- [i \in Rows |-> outbox[i].attempts],
  settled  <- {i \in Rows : outbox[i].published}
ImplementsEventBus == Bus!Spec

=============================================================================

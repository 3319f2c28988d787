-------------------------- MODULE TradeOutboxProofs --------------------------
(***************************************************************************)
(* Proofs about TradeOutbox, for any number of workers and events.         *)
(*                                                                         *)
(* A worker acts on what its claim returned, which may be stale.  The      *)
(* invariant relates the two: what a worker is about to mark is in the     *)
(* topic it will mark it for; the attempts it knows are no more than those *)
(* of the row; and, as long as claims outlive their batches, the rows it   *)
(* holds are its own and unpublished.                                      *)
(***************************************************************************)
EXTENDS TradeOutbox, FiniteSetTheorems, TLAPS

Entry  == [row : Rows, attempts : Nat]
Stages == {"write", "mark", "record", "markdlq"}

-----------------------------------------------------------------------------
(* Sequences *)

LEMMA SeqMonotone ==
  ASSUME NEW A, NEW B, A \subseteq B, NEW s \in Seq(A)
  PROVE  s \in Seq(B)
OBVIOUS

LEMMA AppendRange ==
  ASSUME NEW S, NEW s \in Seq(S), NEW x \in S
  PROVE  Range(Append(s, x)) = Range(s) \cup {x}
<1>1. DOMAIN Append(s, x) = DOMAIN s \cup {Len(s) + 1}
  OBVIOUS
<1>2. Append(s, x)[Len(s) + 1] = x /\ \A n \in DOMAIN s : Append(s, x)[n] = s[n]
  OBVIOUS
<1>3. QED
  BY <1>1, <1>2 DEF Range

\* The first event of a batch and the events after it.
LEMMA BatchParts ==
  ASSUME TypeOK, NEW w \in Workers, batch[w] # <<>>
  PROVE  /\ 1 \in DOMAIN batch[w] /\ Head(batch[w]) = batch[w][1]
         /\ batch[w][1] \in Entry
         /\ Current(w) \in Rows /\ Holds(w, Current(w))
         /\ Tail(batch[w]) \in Seq(Entry)
         /\ \A n \in DOMAIN Tail(batch[w]) :
              n + 1 \in DOMAIN batch[w] /\ Tail(batch[w])[n] = batch[w][n + 1]
<1>1. batch[w] \in Seq(Entry)
  BY DEF TypeOK, Entry
<1>2. 1 \in DOMAIN batch[w] /\ Head(batch[w]) = batch[w][1] /\ batch[w][1] \in Entry
  BY <1>1
<1>3. Current(w) = batch[w][1].row
  BY <1>2 DEF Current
<1>4. Current(w) \in Rows /\ Holds(w, Current(w))
  BY <1>2, <1>3 DEF Entry, Holds
<1>5. /\ Tail(batch[w]) \in Seq(Entry)
      /\ \A n \in DOMAIN Tail(batch[w]) :
           n + 1 \in DOMAIN batch[w] /\ Tail(batch[w])[n] = batch[w][n + 1]
  BY <1>1
<1>6. QED
  BY <1>2, <1>4, <1>5

\* The order in which a claim returns its rows is one of these rows, each once.
LEMMA ClaimedOrder ==
  ASSUME TypeOK, NEW S \in SUBSET Rows, NEW order \in Orders(S)
  PROVE  /\ order \in Seq(S)
         /\ \A m, n \in DOMAIN order : m # n => order[m] # order[n]
<1>1. IsFiniteSet(S)
  <2>1. Len(outbox) \in Nat /\ Rows = 1..Len(outbox)
    BY DEF TypeOK, Rows
  <2>2. IsFiniteSet(Rows)
    BY <2>1, FS_Interval
  <2>3. QED
    BY <2>2, FS_Subset
<1>2. Cardinality(S) \in Nat
  BY <1>1, FS_CardinalityType
<1>3. order \in SetToSeqs(S)
  BY DEF Orders
<1>4. /\ order \in [1..Cardinality(S) -> S]
      /\ \A m, n \in 1..Cardinality(S) : m # n => order[m] # order[n]
  BY <1>3 DEF SetToSeqs
<1>5. QED
  BY <1>2, <1>4

-----------------------------------------------------------------------------
(* Types *)

LEMMA TypeInit == Init => TypeOK
BY DEF Init, TypeOK, Rows

\* The rows keep their types and their number; the attempts never fall and a
\* published row stays published.
RowsKept ==
  /\ outbox' \in Seq(Row) /\ Rows' = Rows
  /\ \A i \in Rows : /\ outbox[i].attempts <= outbox'[i].attempts
                     /\ outbox[i].published => outbox'[i].published

\* What became of a row that somebody marked, recorded or that time changed.
LEMMA RowChanged ==
  ASSUME TypeOK, NEW i \in Rows, NEW r \in Row,
         outbox' = [outbox EXCEPT ![i] = r],
         outbox[i].attempts <= r.attempts,
         outbox[i].published => r.published
  PROVE  RowsKept
<1>1. outbox \in Seq(Row) /\ i \in 1..Len(outbox)
  BY DEF TypeOK, Rows
<1>2. outbox' \in Seq(Row) /\ DOMAIN outbox' = DOMAIN outbox
  BY <1>1
<1>3. \A j \in Rows : outbox'[j] = IF j = i THEN r ELSE outbox[j]
  BY <1>1 DEF Rows
<1>4. \A j \in Rows : outbox[j] \in Row
  BY <1>1 DEF Rows
<1>5. \A j \in Rows : outbox[j].attempts \in Nat
  BY <1>4 DEF Row
<1>6. QED
  BY <1>2, <1>3, <1>5 DEF RowsKept, Rows

LEMMA RowUpdates ==
  ASSUME NEW r \in Row
  PROVE  /\ MarkedRow(r) \in Row /\ MarkedRow(r).attempts = r.attempts
         /\ MarkedRow(r).published = TRUE
         /\ FailedRow(r) \in Row /\ FailedRow(r).attempts = r.attempts + 1
         /\ FailedRow(r).published = r.published
<1>1. r.attempts + 1 \in Nat
  BY DEF Row
<1>2. MarkedRow(r) \in Row
  BY DEF MarkedRow, Row
<1>3. MarkedRow(r).attempts = r.attempts /\ MarkedRow(r).published = TRUE
  BY DEF MarkedRow, Row
<1>4. FailedRow(r) \in Row
  BY <1>1 DEF FailedRow, Row
<1>5. FailedRow(r).attempts = r.attempts + 1
  BY DEF FailedRow, Row
<1>6. FailedRow(r).published = r.published
  BY DEF FailedRow, Row
<1>7. QED
  BY <1>2, <1>3, <1>4, <1>5, <1>6

\* No step but Enqueue changes the number of rows.
LEMMA StepKeepsRows ==
  ASSUME TypeOK, [Next]_vars, ~Enqueue
  PROVE  RowsKept
<1>1. \A i \in Rows : outbox[i] \in Row /\ outbox[i].attempts \in Nat /\ outbox[i].published \in BOOLEAN
  <2>1. \A i \in Rows : outbox[i] \in Row
    BY DEF TypeOK, Rows
  <2>2. QED
    BY <2>1 DEF Row
<1>2. UNCHANGED outbox => RowsKept
  BY <1>1 DEF RowsKept, TypeOK, Rows
<1>3. ASSUME NEW i \in Rows, Expire(i) PROVE RowsKept
  <2> DEFINE r == [outbox[i] EXCEPT !.fresh = FALSE]
  <2>1. outbox' = [outbox EXCEPT ![i] = r]
    BY <1>3 DEF Expire
  <2>2. r \in Row
    BY <1>1 DEF Row
  <2>3. outbox[i].attempts <= r.attempts /\ (outbox[i].published => r.published)
    BY <1>1 DEF Row
  <2> HIDE DEF r
  <2>4. QED
    BY <2>1, <2>2, <2>3, RowChanged
<1>4. ASSUME NEW i \in Rows, BecomeDue(i) PROVE RowsKept
  <2> DEFINE r == [outbox[i] EXCEPT !.due = TRUE]
  <2>1. outbox' = [outbox EXCEPT ![i] = r]
    BY <1>4 DEF BecomeDue
  <2>2. r \in Row
    BY <1>1 DEF Row
  <2>3. outbox[i].attempts <= r.attempts /\ (outbox[i].published => r.published)
    BY <1>1 DEF Row
  <2> HIDE DEF r
  <2>4. QED
    BY <2>1, <2>2, <2>3, RowChanged
<1>5. ASSUME NEW w \in Workers, batch[w] # <<>>,
             outbox' = [outbox EXCEPT ![Current(w)] = IF @.published THEN @ ELSE MarkedRow(@)]
      PROVE  RowsKept
  <2> DEFINE i == Current(w)
             r == IF outbox[i].published THEN outbox[i] ELSE MarkedRow(outbox[i])
  <2>1. i \in Rows
    BY <1>5, BatchParts
  <2>2. outbox' = [outbox EXCEPT ![i] = r]
    BY <1>5
  <2>3. r \in Row /\ outbox[i].attempts <= r.attempts /\ (outbox[i].published => r.published)
    <3>1. r \in {outbox[i], MarkedRow(outbox[i])} /\ (outbox[i].published => r = outbox[i])
      OBVIOUS
    <3>2. outbox[i] \in Row /\ outbox[i].attempts \in Nat
      BY <2>1, <1>1
    <3> HIDE DEF i, r
    <3>3. MarkedRow(outbox[i]) \in Row
      BY <3>2, RowUpdates
    <3>4. MarkedRow(outbox[i]).attempts = outbox[i].attempts
      BY <3>2, RowUpdates
    <3>5. outbox[i].attempts <= MarkedRow(outbox[i]).attempts
      BY <3>2, <3>4
    <3>6. QED
      BY <3>1, <3>2, <3>3, <3>5
  <2> HIDE DEF i, r
  <2>4. QED
    BY <2>1, <2>2, <2>3, RowChanged
<1>6. ASSUME NEW w \in Workers, Record(w) PROVE RowsKept
  <2> DEFINE i == Current(w)
             r == IF outbox[i].published THEN outbox[i] ELSE FailedRow(outbox[i])
  <2>1. i \in Rows
    BY <1>6, BatchParts DEF Record, At
  <2>2. outbox' = [outbox EXCEPT ![i] = r]
    BY <1>6 DEF Record
  <2>3. r \in Row /\ outbox[i].attempts <= r.attempts /\ (outbox[i].published => r.published)
    <3>1. r \in {outbox[i], FailedRow(outbox[i])} /\ (outbox[i].published => r = outbox[i])
      OBVIOUS
    <3>2. outbox[i] \in Row /\ outbox[i].attempts \in Nat
      BY <2>1, <1>1
    <3> HIDE DEF i, r
    <3>3. FailedRow(outbox[i]) \in Row
      BY <3>2, RowUpdates
    <3>4. FailedRow(outbox[i]).attempts = outbox[i].attempts + 1
      BY <3>2, RowUpdates
    <3>5. outbox[i].attempts <= FailedRow(outbox[i]).attempts
      BY <3>2, <3>4
    <3>6. QED
      BY <3>1, <3>2, <3>3, <3>5
  <2> HIDE DEF i, r
  <2>4. QED
    BY <2>1, <2>2, <2>3, RowChanged
<1>7. ASSUME NEW w \in Workers, Claim(w) PROVE RowsKept
  <2>1. PICK taken \in SUBSET Rows :
          outbox' = [i \in Rows |-> IF i \in taken
                       THEN [outbox[i] EXCEPT !.claimed = w, !.fresh = TRUE] ELSE outbox[i]]
    BY <1>7 DEF Claim
  <2>2. \A i \in Rows : /\ outbox'[i] \in Row
                        /\ outbox'[i].attempts = outbox[i].attempts
                        /\ outbox'[i].published = outbox[i].published
    BY <2>1, <1>1 DEF Row
  <2>3. Rows = 1..Len(outbox) /\ Len(outbox) \in Nat
    BY DEF TypeOK, Rows
  <2>4. outbox' \in Seq(Row) /\ DOMAIN outbox' = Rows
    <3>1. DOMAIN outbox' = 1..Len(outbox)
      BY <2>1, <2>3
    <3>2. outbox' = [i \in 1..Len(outbox) |-> outbox'[i]]
      BY <2>1, <2>3
    <3>3. \A i \in 1..Len(outbox) : outbox'[i] \in Row
      BY <2>2, <2>3
    <3>4. QED
      BY <3>1, <3>2, <3>3, <2>3
  <2>5. QED
    BY <2>2, <2>4, <1>1 DEF RowsKept, Rows
<1>8. QED
  BY <1>2, <1>3, <1>4, <1>5, <1>6, <1>7
  DEF Next, vars, Time, Succeed, Fail, Write, Mark, WriteDLQ, MarkDLQ, At,
      WriteFails, MarkFails, RecordFails, WriteDLQFails, Restart

\* What a step does to the batch of a worker.
LEMMA BatchSteps ==
  ASSUME TypeOK, [Next]_vars, NEW w \in Workers
  PROVE  \/ batch'[w] = batch[w] \/ batch'[w] = <<>>
         \/ (batch[w] # <<>> /\ batch'[w] = Tail(batch[w]))
         \/ Claim(w)
<1>0. batch \in [Workers -> Seq(Entry)]
  BY DEF TypeOK, Entry
<1>1. ASSUME NEW v \in Workers, Advance(v), batch[v] # <<>>
      PROVE  batch'[w] = batch[w] \/ (batch[w] # <<>> /\ batch'[w] = Tail(batch[w]))
  <2>1. batch' = [batch EXCEPT ![v] = Tail(batch[v])]
    BY <1>1 DEF Advance
  <2>2. CASE v = w
    BY <2>1, <2>2, <1>0, <1>1
  <2>3. CASE v # w
    BY <2>1, <2>3, <1>0
  <2>4. QED
    BY <2>2, <2>3
<1>2. ASSUME NEW v \in Workers, Abandon(v)
      PROVE  batch'[w] = batch[w] \/ batch'[w] = <<>>
  BY <1>0, <1>2 DEF Abandon
<1>3. ASSUME NEW v \in Workers, Claim(v)
      PROVE  batch'[w] = batch[w] \/ Claim(w)
  BY <1>0, <1>3 DEF Claim
<1>4. ASSUME NEW v \in Workers, Mark(v) \/ MarkDLQ(v) \/ WriteDLQFails(v)
      PROVE  batch'[w] = batch[w] \/ (batch[w] # <<>> /\ batch'[w] = Tail(batch[w]))
  BY <1>4, <1>1 DEF Mark, MarkDLQ, WriteDLQFails, At
<1>5. ASSUME NEW v \in Workers, Record(v) \/ RecordFails(v) \/ MarkFails(v) \/ Restart(v)
      PROVE  batch'[w] = batch[w] \/ batch'[w] = <<>>
  BY <1>5, <1>2 DEF Record, RecordFails, MarkFails, Restart
<1>6. QED
  BY <1>3, <1>4, <1>5
  DEF Next, vars, Time, Expire, BecomeDue, Enqueue, Succeed, Fail, Write, WriteFails, WriteDLQ, Go

\* The batch of a claim.
LEMMA ClaimedBatch ==
  ASSUME TypeOK, NEW w \in Workers, Claim(w)
  PROVE  /\ Rows' = Rows
         /\ batch'[w] \in Seq(Entry)
         /\ \A m, n \in DOMAIN batch'[w] : m # n => batch'[w][m].row # batch'[w][n].row
         /\ \A n \in DOMAIN batch'[w] :
              LET i == batch'[w][n].row IN
              /\ i \in Rows /\ Claimable(i)
              /\ batch'[w][n].attempts = outbox[i].attempts
              /\ outbox'[i] = [outbox[i] EXCEPT !.claimed = w, !.fresh = TRUE]
         /\ \A i \in Rows : \/ outbox'[i] = outbox[i]
                            \/ /\ Claimable(i)
                               /\ outbox'[i] = [outbox[i] EXCEPT !.claimed = w, !.fresh = TRUE]
<1> DEFINE ready == {i \in Rows : Claimable(i)}
           taken == {i \in ready : Cardinality({j \in ready : j < i}) < Limit}
<1>1. PICK order \in Orders(taken) :
        batch' = [batch EXCEPT ![w] = [n \in DOMAIN order |->
                    [row |-> order[n], attempts |-> outbox[order[n]].attempts]]]
  BY DEF Claim
<1>2. outbox' = [i \in Rows |-> IF i \in taken
                   THEN [outbox[i] EXCEPT !.claimed = w, !.fresh = TRUE] ELSE outbox[i]]
  BY DEF Claim
<1>3. taken \subseteq Rows /\ \A i \in taken : Claimable(i)
  OBVIOUS
<1> HIDE DEF taken
<1>4. /\ order \in Seq(taken)
      /\ \A m, n \in DOMAIN order : m # n => order[m] # order[n]
  BY <1>3, ClaimedOrder
<1>5. batch'[w] = [n \in DOMAIN order |->
                     [row |-> order[n], attempts |-> outbox[order[n]].attempts]]
  BY <1>1 DEF TypeOK
<1>6. \A n \in DOMAIN order : order[n] \in taken
  BY <1>4
<1>7. \A i \in Rows : outbox[i].attempts \in Nat
  <2>1. \A i \in Rows : outbox[i] \in Row
    BY DEF TypeOK, Rows
  <2>2. QED
    BY <2>1 DEF Row
<1>8. \A n \in DOMAIN order : [row |-> order[n], attempts |-> outbox[order[n]].attempts] \in Entry
  BY <1>3, <1>6, <1>7 DEF Entry
<1>9. batch'[w] \in Seq(Entry)
  <2>1. DOMAIN order = 1..Len(order) /\ Len(order) \in Nat
    BY <1>4
  <2>2. QED
    BY <1>5, <1>8, <2>1
<1>10. Rows' = Rows
  BY <1>2 DEF Rows
<1>11. DOMAIN batch'[w] = DOMAIN order
  BY <1>5
<1>12. \A n \in DOMAIN order : /\ batch'[w][n].row = order[n]
                               /\ batch'[w][n].attempts = outbox[order[n]].attempts
  BY <1>5
<1>13. \A i \in taken : i \in Rows /\ outbox'[i] = [outbox[i] EXCEPT !.claimed = w, !.fresh = TRUE]
  BY <1>2, <1>3
<1>14. \A i \in Rows : i \notin taken => outbox'[i] = outbox[i]
  BY <1>2
<1>15. \A m, n \in DOMAIN batch'[w] : m # n => batch'[w][m].row # batch'[w][n].row
  BY <1>4, <1>11, <1>12
<1>16. ASSUME NEW n \in DOMAIN batch'[w]
       PROVE  LET i == batch'[w][n].row IN
              /\ i \in Rows /\ Claimable(i)
              /\ batch'[w][n].attempts = outbox[i].attempts
              /\ outbox'[i] = [outbox[i] EXCEPT !.claimed = w, !.fresh = TRUE]
  <2>1. order[n] \in taken /\ batch'[w][n].row = order[n]
        /\ batch'[w][n].attempts = outbox[order[n]].attempts
    BY <1>6, <1>11, <1>12, <1>16
  <2>2. QED
    BY <2>1, <1>3, <1>13
<1>17. ASSUME NEW i \in Rows
       PROVE  \/ outbox'[i] = outbox[i]
              \/ /\ Claimable(i)
                 /\ outbox'[i] = [outbox[i] EXCEPT !.claimed = w, !.fresh = TRUE]
  BY <1>3, <1>13, <1>14, <1>17
<1>18. QED
  BY <1>9, <1>10, <1>15, <1>16, <1>17

LEMMA TypeNext ==
  ASSUME TypeOK, [Next]_vars
  PROVE  TypeOK'
<1>0. /\ batch \in [Workers -> Seq(Entry)] /\ stage \in [Workers -> Stages]
      /\ topic \in Seq(Rows) /\ dlq \in Seq(Rows)
  BY DEF TypeOK, Entry, Stages
<1>1. CASE Enqueue
  <2> DEFINE new == [published |-> FALSE, attempts |-> 0, claimed |-> None,
                     fresh |-> FALSE, due |-> TRUE]
  <2>1. new \in Row
    BY DEF Row
  <2>2. outbox \in Seq(Row) /\ outbox' = Append(outbox, new)
    BY <1>1 DEF Enqueue, TypeOK
  <2> HIDE DEF new
  <2>3. outbox' \in Seq(Row) /\ Rows \subseteq Rows'
    BY <2>1, <2>2 DEF Rows
  <2>4. Entry \subseteq Entry'
    BY <2>3 DEF Entry
  <2>5. \A w \in Workers : batch[w] \in Seq(Entry')
    BY <1>0, <2>4, SeqMonotone
  <2>6. topic \in Seq(Rows') /\ dlq \in Seq(Rows')
    BY <1>0, <2>3, SeqMonotone
  <2>7. batch \in [Workers -> Seq(Entry')]
    BY <1>0, <2>5
  <2>8. UNCHANGED <<faults, batch, stage, topic, dlq>>
    BY <1>1 DEF Enqueue
  <2>9. QED
    BY <2>3, <2>6, <2>7, <2>8 DEF TypeOK, Entry
<1>2. CASE ~Enqueue
  <2>1. outbox' \in Seq(Row) /\ Rows' = Rows
    BY <1>2, StepKeepsRows DEF RowsKept
  <2>2. faults' = faults
    BY <1>2 DEF Next, vars, Time, Expire, BecomeDue, Succeed, Fail, Claim, Write, Mark, Record,
       WriteDLQ, MarkDLQ, WriteFails, MarkFails, RecordFails, WriteDLQFails, Restart
  <2>3. \/ UNCHANGED batch
        \/ \E w \in Workers, b \in {batch'[v] : v \in Workers} : batch' = [batch EXCEPT ![w] = b]
    <3>1. ASSUME NEW w \in Workers, NEW b, batch' = [batch EXCEPT ![w] = b]
          PROVE  \E v \in Workers, c \in {batch'[u] : u \in Workers} : batch' = [batch EXCEPT ![v] = c]
      <4>1. batch'[w] = b
        BY <1>0, <3>1
      <4>2. QED
        BY <3>1, <4>1
    <3>2. ASSUME NEW w \in Workers, Advance(w) \/ Abandon(w) \/ Claim(w)
          PROVE  \E v \in Workers, c \in {batch'[u] : u \in Workers} : batch' = [batch EXCEPT ![v] = c]
      <4>1. CASE Advance(w)
        <5>1. batch' = [batch EXCEPT ![w] = Tail(batch[w])]
          BY <4>1 DEF Advance
        <5>2. QED
          BY <5>1, <3>1
      <4>2. CASE Abandon(w)
        BY <4>2, <3>1 DEF Abandon
      <4>3. CASE Claim(w)
        <5>1. PICK b : batch' = [batch EXCEPT ![w] = b]
          BY <4>3 DEF Claim
        <5>2. QED
          BY <5>1, <3>1
      <4>4. QED
        BY <3>2, <4>1, <4>2, <4>3
    <3>3. QED
      BY <1>2, <3>2 DEF Next, vars, Time, Expire, BecomeDue, Succeed, Fail, Write, Mark, Record,
        WriteDLQ, MarkDLQ, WriteFails, MarkFails, RecordFails, WriteDLQFails, Restart, Go
  <2>4. ASSUME NEW w \in Workers PROVE batch'[w] \in Seq(Entry)
    <3>1. CASE batch'[w] = batch[w]
      BY <1>0, <3>1
    <3>2. CASE batch'[w] = <<>>
      BY <3>2
    <3>3. CASE batch[w] # <<>> /\ batch'[w] = Tail(batch[w])
      BY <3>3, BatchParts
    <3>4. CASE Claim(w)
      BY <3>4, ClaimedBatch
    <3>5. QED
      BY <3>1, <3>2, <3>3, <3>4, BatchSteps
  <2>5. batch' \in [Workers -> Seq(Entry)]
    <3>1. CASE UNCHANGED batch
      BY <1>0, <3>1
    <3>2. ASSUME NEW w \in Workers, NEW b \in {batch'[v] : v \in Workers},
                 batch' = [batch EXCEPT ![w] = b]
          PROVE  batch' \in [Workers -> Seq(Entry)]
      BY <1>0, <2>4, <3>2
    <3>3. QED
      BY <2>3, <3>1, <3>2
  <2>6. stage' \in [Workers -> Stages]
    <3>1. ASSUME NEW w \in Workers, NEW t \in Stages, stage' = [stage EXCEPT ![w] = t]
          PROVE  stage' \in [Workers -> Stages]
      BY <1>0, <3>1
    <3>2. \/ UNCHANGED stage
          \/ \E w \in Workers, t \in Stages : stage' = [stage EXCEPT ![w] = t]
      BY <1>2 DEF Next, vars, Time, Expire, BecomeDue, Succeed, Fail, Claim, Write, Mark, Record,
        WriteDLQ, MarkDLQ, WriteFails, MarkFails, RecordFails, WriteDLQFails, Restart,
        Go, Advance, Abandon, Stages
    <3>3. QED
      BY <1>0, <3>1, <3>2
  <2>7. topic' \in Seq(Rows) /\ dlq' \in Seq(Rows)
    <3>1. ASSUME NEW w \in Workers, Write(w)
          PROVE  topic' \in Seq(Rows) /\ dlq' \in Seq(Rows)
      BY <1>0, <3>1, BatchParts DEF Write, At
    <3>2. ASSUME NEW w \in Workers, WriteDLQ(w)
          PROVE  topic' \in Seq(Rows) /\ dlq' \in Seq(Rows)
      BY <1>0, <3>2, BatchParts DEF WriteDLQ, At
    <3>3. QED
      BY <1>0, <1>2, <3>1, <3>2 DEF Next, vars, Time, Expire, BecomeDue, Succeed, Fail, Claim, Mark,
        Record, MarkDLQ, WriteFails, MarkFails, RecordFails, WriteDLQFails, Restart
  <2>8. QED
    BY <2>1, <2>2, <2>5, <2>6, <2>7 DEF TypeOK, Entry, Stages
<1>3. QED
  BY <1>1, <1>2

-----------------------------------------------------------------------------
(* What a step may do *)

LEMMA FaultsFixed == ASSUME [Next]_vars PROVE faults' = faults
BY DEF Next, vars, Time, Enqueue, Expire, BecomeDue, Succeed, Fail, Claim, Write, Mark, Record,
   WriteDLQ, MarkDLQ, WriteFails, MarkFails, RecordFails, WriteDLQFails, Restart

\* A worker keeps its place, starts on another event, or moves on with this one.
LEMMA WorkerSteps ==
  ASSUME TypeOK, [Next]_vars, NEW w \in Workers
  PROVE  \/ batch'[w] = batch[w] /\ stage'[w] = stage[w]
         \/ /\ batch'[w] = batch[w] /\ stage'[w] = "record" /\ stage[w] = "write"
            /\ (Write(w) /\ "ackfail" \in faults) \/ WriteFails(w)
         \/ batch'[w] = batch[w] /\ stage'[w] = "mark" /\ Write(w)
         \/ batch'[w] = batch[w] /\ stage'[w] = "markdlq" /\ WriteDLQ(w)
         \/ /\ stage'[w] = "write"
            /\ \/ Claim(w) \/ Mark(w) \/ MarkDLQ(w) \/ Record(w)
               \/ MarkFails(w) \/ RecordFails(w) \/ WriteDLQFails(w) \/ Restart(w)
<1>0. batch \in [Workers -> Seq(Entry)] /\ stage \in [Workers -> Stages]
  BY DEF TypeOK, Entry, Stages
<1> DEFINE Same == batch'[w] = batch[w] /\ stage'[w] = stage[w]
<1>1. ASSUME NEW v \in Workers, Advance(v) \/ Abandon(v) \/ Claim(v)
      PROVE  Same \/ (v = w /\ stage'[w] = "write")
  <2>1. \E b : batch' = [batch EXCEPT ![v] = b]
    BY <1>1 DEF Advance, Abandon, Claim
  <2>2. stage' = [stage EXCEPT ![v] = "write"]
    BY <1>1 DEF Advance, Abandon, Claim
  <2>3. v # w => Same
    BY <1>0, <2>1, <2>2
  <2>4. v = w => stage'[w] = "write"
    BY <1>0, <2>2
  <2>5. QED
    BY <2>3, <2>4
<1>2. ASSUME NEW v \in Workers, NEW s, Go(v, s)
      PROVE  batch'[w] = batch[w] /\ IF v = w THEN stage'[w] = s ELSE stage'[w] = stage[w]
  BY <1>0, <1>2 DEF Go
<1>3. ASSUME NEW v \in Workers, Write(v)
      PROVE  \/ Same
             \/ v = w /\ batch'[w] = batch[w] /\ stage'[w] = "mark"
             \/ v = w /\ batch'[w] = batch[w] /\ stage'[w] = "record" /\ stage[w] = "write"
                /\ "ackfail" \in faults
  BY <1>2, <1>3 DEF Write, At
<1>4. ASSUME NEW v \in Workers, WriteFails(v)
      PROVE  \/ Same
             \/ v = w /\ batch'[w] = batch[w] /\ stage'[w] = "record" /\ stage[w] = "write"
  BY <1>2, <1>4 DEF WriteFails, At
<1>5. ASSUME NEW v \in Workers, WriteDLQ(v)
      PROVE  \/ Same
             \/ v = w /\ batch'[w] = batch[w] /\ stage'[w] = "markdlq"
  BY <1>2, <1>5 DEF WriteDLQ
<1>6. ASSUME NEW v \in Workers,
             \/ Claim(v) \/ Mark(v) \/ MarkDLQ(v) \/ Record(v)
             \/ MarkFails(v) \/ RecordFails(v) \/ WriteDLQFails(v) \/ Restart(v)
      PROVE  Same \/ (v = w /\ stage'[w] = "write")
  BY <1>1, <1>6 DEF Mark, MarkDLQ, Record, MarkFails, RecordFails, WriteDLQFails, Restart
<1>7. ASSUME Enqueue \/ Time \/ UNCHANGED vars
      PROVE  Same
  BY <1>7 DEF Enqueue, Time, Expire, BecomeDue, vars
<1>8. QED
  BY <1>3, <1>4, <1>5, <1>6, <1>7 DEF Next, Succeed, Fail

\* A write appends the event its worker is at.
LEMMA Writes ==
  ASSUME TypeOK, NEW w \in Workers, Write(w)
  PROVE  /\ dlq' = dlq /\ topic' = Append(topic, Current(w))
         /\ Range(topic') = Range(topic) \cup {Current(w)}
<1>1. Current(w) \in Rows /\ topic \in Seq(Rows)
  BY BatchParts DEF Write, At, TypeOK
<1>2. dlq' = dlq /\ topic' = Append(topic, Current(w))
  BY DEF Write
<1>3. QED
  BY <1>1, <1>2, AppendRange

LEMMA WritesDLQ ==
  ASSUME TypeOK, NEW w \in Workers, WriteDLQ(w)
  PROVE  /\ topic' = topic /\ dlq' = Append(dlq, Current(w))
         /\ Range(dlq') = Range(dlq) \cup {Current(w)}
<1>1. Current(w) \in Rows /\ dlq \in Seq(Rows)
  BY BatchParts DEF WriteDLQ, At, TypeOK
<1>2. topic' = topic /\ dlq' = Append(dlq, Current(w))
  BY DEF WriteDLQ
<1>3. QED
  BY <1>1, <1>2, AppendRange

\* No message disappears, and a new one is that of the event a worker writes.
LEMMA MessagesSteps ==
  ASSUME TypeOK, [Next]_vars
  PROVE  \/ UNCHANGED <<topic, dlq>>
         \/ \E w \in Workers : /\ Write(w) /\ dlq' = dlq /\ topic' = Append(topic, Current(w))
                               /\ Range(topic') = Range(topic) \cup {Current(w)}
         \/ \E w \in Workers : /\ WriteDLQ(w) /\ topic' = topic /\ dlq' = Append(dlq, Current(w))
                               /\ Range(dlq') = Range(dlq) \cup {Current(w)}
BY Writes, WritesDLQ
DEF Next, vars, Time, Enqueue, Expire, BecomeDue, Succeed, Fail, Claim, Mark,
    Record, MarkDLQ, WriteFails, MarkFails, RecordFails, WriteDLQFails, Restart

LEMMA SentStays ==
  ASSUME TypeOK, [Next]_vars
  PROVE  /\ Range(topic) \subseteq Range(topic')
         /\ Range(dlq) \subseteq Range(dlq')
BY MessagesSteps

\* Rows stay, their attempts never fall, and a published row stays published.
LEMMA RowsSteps ==
  ASSUME TypeOK, [Next]_vars, NEW i \in Rows
  PROVE  /\ i \in Rows'
         /\ outbox[i].attempts <= outbox'[i].attempts
         /\ outbox[i].published => outbox'[i].published
<1>1. CASE Enqueue
  <2>1. outbox \in Seq(Row)
    BY DEF TypeOK
  <2>2. i \in Rows' /\ outbox'[i] = outbox[i]
    BY <1>1, <2>1 DEF Enqueue, Rows
  <2>3. outbox[i].attempts \in Nat
    <3>1. outbox[i] \in Row
      BY <2>1 DEF Rows
    <3>2. QED
      BY <3>1 DEF Row
  <2>4. QED
    BY <2>2, <2>3
<1>2. CASE ~Enqueue
  BY <1>2, StepKeepsRows DEF RowsKept
<1>3. QED
  BY <1>1, <1>2

\* Only the worker that is at an event marks it.
LEMMA PublishedSteps ==
  ASSUME TypeOK, [Next]_vars, NEW i \in Rows', outbox'[i].published
  PROVE  \/ i \in Rows /\ outbox[i].published
         \/ \E w \in Workers : (Mark(w) \/ MarkDLQ(w)) /\ i = Current(w)
<1>0. outbox \in Seq(Row) /\ (i \in Rows => outbox[i] \in Row)
  BY DEF TypeOK, Rows
<1>1. CASE Enqueue
  <2>1. outbox' = Append(outbox, [published |-> FALSE, attempts |-> 0, claimed |-> None,
                                  fresh |-> FALSE, due |-> TRUE])
    BY <1>1 DEF Enqueue
  <2>2. i \in Rows \/ outbox'[i].published = FALSE
    BY <1>0, <2>1 DEF Rows
  <2>3. i \in Rows => outbox'[i] = outbox[i]
    BY <1>0, <2>1 DEF Rows
  <2>4. QED
    BY <2>2, <2>3
<1>2. CASE ~Enqueue
  <2>1. i \in Rows
    BY <1>2, StepKeepsRows DEF RowsKept
  <2>2. CASE UNCHANGED outbox
    BY <2>1, <2>2
  <2>3. ASSUME NEW j \in Rows, Expire(j) \/ BecomeDue(j)
        PROVE  outbox[i].published
    <3>1. \/ outbox'[i] = outbox[i]
          \/ outbox'[i] = [outbox[i] EXCEPT !.fresh = FALSE]
          \/ outbox'[i] = [outbox[i] EXCEPT !.due = TRUE]
      BY <1>0, <2>1, <2>3 DEF Expire, BecomeDue, Rows
    <3>2. /\ [outbox[i] EXCEPT !.fresh = FALSE].published = outbox[i].published
          /\ [outbox[i] EXCEPT !.due = TRUE].published = outbox[i].published
      BY <1>0, <2>1 DEF Row
    <3>3. outbox'[i].published = outbox[i].published
      BY <3>1, <3>2, Zenon
    <3>4. QED
      BY <3>3
  <2>4. ASSUME NEW w \in Workers, Claim(w)
        PROVE  outbox[i].published
    <3>1. \/ outbox'[i] = outbox[i]
          \/ outbox'[i] = [outbox[i] EXCEPT !.claimed = w, !.fresh = TRUE]
      BY <2>1, <2>4, ClaimedBatch
    <3>2. [outbox[i] EXCEPT !.claimed = w, !.fresh = TRUE].published = outbox[i].published
      BY <1>0, <2>1 DEF Row
    <3>3. outbox'[i].published = outbox[i].published
      BY <3>1, <3>2, Zenon
    <3>4. QED
      BY <3>3
  <2>5. ASSUME NEW w \in Workers, Record(w)
        PROVE  outbox[i].published
    <3>1. \/ outbox'[i] = outbox[i]
          \/ outbox'[i] = FailedRow(outbox[i])
      BY <1>0, <2>1, <2>5 DEF Record, TypeOK, Rows
    <3>2. outbox'[i].published = outbox[i].published
      BY <1>0, <2>1, <3>1, RowUpdates
    <3>3. QED
      BY <3>2
  <2>6. ASSUME NEW w \in Workers, Mark(w) \/ MarkDLQ(w)
        PROVE  outbox[i].published \/ i = Current(w)
    BY <1>0, <2>1, <2>6 DEF Mark, MarkDLQ, TypeOK, Rows
  <2>7. QED
    BY <1>2, <2>1, <2>2, <2>3, <2>4, <2>5, <2>6 DEF Next, vars, Time, Succeed, Fail, Write, WriteDLQ,
       WriteFails, MarkFails, RecordFails, WriteDLQFails, Restart
<1>3. QED
  BY <1>1, <1>2

-----------------------------------------------------------------------------
(* What a worker knows *)

\* No row is twice in a batch.
Distinct ==
  \A w \in Workers : \A m, n \in DOMAIN batch[w] :
    m # n => batch[w][m].row # batch[w][n].row

\* What a worker is about to mark has been written.
Written ==
  \A w \in Workers : batch[w] # <<>> =>
    /\ stage[w] = "mark"    => Current(w) \in Range(topic)
    /\ stage[w] = "markdlq" => Current(w) \in Range(dlq)

\* The attempts a worker knows of may be outdated, but never too many.
AttemptsKnown ==
  \A w \in Workers : \A n \in DOMAIN batch[w] :
    batch[w][n].attempts <= outbox[batch[w][n].row].attempts

\* The rows a worker holds, as long as claims outlive batches.
Own ==
  Never({"slow"}) =>
    \A w \in Workers : \A i \in Rows : Holds(w, i) =>
      /\ outbox[i].claimed = w /\ outbox[i].fresh
      /\ ~outbox[i].published

LEMMA DistinctNext ==
  ASSUME TypeOK, Distinct, [Next]_vars
  PROVE  Distinct'
<1>1. SUFFICES ASSUME NEW w \in Workers
               PROVE  \A m, n \in DOMAIN batch'[w] : m # n => batch'[w][m].row # batch'[w][n].row
  BY DEF Distinct
<1>2. CASE batch'[w] = batch[w]
  BY <1>2 DEF Distinct
<1>3. CASE batch'[w] = <<>>
  BY <1>3
<1>4. CASE batch[w] # <<>> /\ batch'[w] = Tail(batch[w])
  <2>1. SUFFICES ASSUME NEW m \in DOMAIN batch'[w], NEW n \in DOMAIN batch'[w], m # n
                 PROVE  batch'[w][m].row # batch'[w][n].row
    OBVIOUS
  <2>2. /\ m + 1 \in DOMAIN batch[w] /\ batch'[w][m] = batch[w][m + 1]
        /\ n + 1 \in DOMAIN batch[w] /\ batch'[w][n] = batch[w][n + 1]
    BY <1>4, <2>1, BatchParts
  <2>3. m + 1 # n + 1
    <3>1. batch'[w] \in Seq(Entry)
      BY <1>4, BatchParts
    <3>2. QED
      BY <2>1, <3>1
  <2>4. QED
    BY <2>2, <2>3 DEF Distinct
<1>5. CASE Claim(w)
  BY <1>5, ClaimedBatch
<1>6. QED
  BY <1>2, <1>3, <1>4, <1>5, BatchSteps

\* An event of a batch after a step was in it before, or has just been claimed.
LEMMA EntriesSteps ==
  ASSUME TypeOK, [Next]_vars, NEW w \in Workers, NEW n \in DOMAIN batch'[w]
  PROVE  \/ \E m \in DOMAIN batch[w] : batch'[w][n] = batch[w][m]
         \/ Claim(w)
<1>1. CASE batch'[w] = batch[w]
  BY <1>1
<1>2. CASE batch'[w] = <<>>
  BY <1>2
<1>3. CASE batch[w] # <<>> /\ batch'[w] = Tail(batch[w])
  BY <1>3, BatchParts
<1>4. QED
  BY <1>1, <1>2, <1>3, BatchSteps

LEMMA AttemptsNext ==
  ASSUME TypeOK, AttemptsKnown, [Next]_vars
  PROVE  AttemptsKnown'
<1>1. SUFFICES ASSUME NEW w \in Workers, NEW n \in DOMAIN batch'[w]
               PROVE  batch'[w][n].attempts <= outbox'[batch'[w][n].row].attempts
  BY DEF AttemptsKnown
<1>2. ASSUME NEW m \in DOMAIN batch[w], batch'[w][n] = batch[w][m]
      PROVE  batch'[w][n].attempts <= outbox'[batch'[w][n].row].attempts
  <2> DEFINE i == batch[w][m].row
  <2>1. batch[w] \in Seq(Entry)
    BY DEF TypeOK, Entry
  <2>2. batch[w][m] \in Entry
    BY <2>1
  <2>3. i \in Rows /\ batch[w][m].attempts \in Nat
    BY <2>2 DEF Entry
  <2>4. batch[w][m].attempts <= outbox[i].attempts
    BY DEF AttemptsKnown
  <2>5. outbox[i].attempts <= outbox'[i].attempts
    BY <2>3, RowsSteps
  <2>6. outbox[i].attempts \in Nat /\ outbox'[i].attempts \in Nat
    <3>1. outbox \in Seq(Row) /\ outbox' \in Seq(Row) /\ i \in Rows'
      BY <2>3, TypeNext, RowsSteps DEF TypeOK
    <3>2. outbox[i] \in Row /\ outbox'[i] \in Row
      BY <2>3, <3>1 DEF Rows
    <3>3. QED
      BY <3>2 DEF Row
  <2> HIDE DEF i
  <2>7. batch[w][m].attempts <= outbox'[i].attempts
    BY <2>3, <2>4, <2>5, <2>6
  <2>8. QED
    BY <1>2, <2>7 DEF i
<1>3. CASE Claim(w)
  <2> DEFINE i == batch'[w][n].row
  <2>1. i \in Rows /\ batch'[w][n].attempts = outbox[i].attempts
    BY <1>3, ClaimedBatch
  <2>2. outbox[i].attempts <= outbox'[i].attempts
    BY <2>1, RowsSteps
  <2>3. QED
    BY <2>1, <2>2
<1>4. QED
  BY <1>2, <1>3, EntriesSteps

LEMMA WrittenNext ==
  ASSUME TypeOK, Written, [Next]_vars
  PROVE  Written'
<1>1. SUFFICES ASSUME NEW w \in Workers, batch'[w] # <<>>
               PROVE  /\ stage'[w] = "mark"    => Current(w)' \in Range(topic')
                      /\ stage'[w] = "markdlq" => Current(w)' \in Range(dlq')
  BY DEF Written
<1>2. CASE batch'[w] = batch[w] /\ stage'[w] = stage[w]
  BY <1>1, <1>2, SentStays DEF Written, Current
<1>3. CASE stage'[w] \in {"record", "write"}
  BY <1>3
<1>4. CASE batch'[w] = batch[w] /\ stage'[w] = "mark" /\ Write(w)
  BY <1>4, Writes DEF Current
<1>5. CASE batch'[w] = batch[w] /\ stage'[w] = "markdlq" /\ WriteDLQ(w)
  BY <1>5, WritesDLQ DEF Current
<1>6. QED
  BY <1>2, <1>3, <1>4, <1>5, WorkerSteps

LEMMA MarkedNext ==
  ASSUME TypeOK, Written, MarkedIsSent, [Next]_vars
  PROVE  MarkedIsSent'
<1>1. SUFFICES ASSUME NEW i \in Rows', outbox'[i].published
               PROVE  i \in Range(topic') \cup Range(dlq')
  BY DEF MarkedIsSent, Sent
<1>2. CASE i \in Rows /\ outbox[i].published
  BY <1>2, SentStays DEF MarkedIsSent, Sent
<1>3. ASSUME NEW w \in Workers, Mark(w) \/ MarkDLQ(w), i = Current(w)
      PROVE  i \in Range(topic) \cup Range(dlq)
  BY <1>3 DEF Mark, MarkDLQ, At, Written
<1>4. QED
  BY <1>1, <1>2, <1>3, PublishedSteps, SentStays

LEMMA DLQNext ==
  ASSUME TypeOK, AttemptsKnown, DLQAfterAttempts, [Next]_vars
  PROVE  DLQAfterAttempts'
<1>1. SUFFICES ASSUME NEW i \in Range(dlq')
               PROVE  outbox'[i].attempts >= MaxAttempts
  BY DEF DLQAfterAttempts
<1>2. MaxAttempts \in Nat
  BY BoundsAssumption
<1>3. ASSUME NEW j \in Rows, outbox[j].attempts >= MaxAttempts
      PROVE  outbox'[j].attempts >= MaxAttempts
  <2>1. outbox[j].attempts <= outbox'[j].attempts
    BY RowsSteps
  <2>2. outbox[j].attempts \in Nat /\ outbox'[j].attempts \in Nat
    <3>1. outbox \in Seq(Row) /\ outbox' \in Seq(Row) /\ j \in Rows'
      BY TypeNext, RowsSteps DEF TypeOK
    <3>2. outbox[j] \in Row /\ outbox'[j] \in Row
      BY <3>1 DEF Rows
    <3>3. QED
      BY <3>2 DEF Row
  <2>3. QED
    BY <1>2, <1>3, <2>1, <2>2
<1>4. CASE i \in Range(dlq)
  <2>1. i \in Rows
    BY <1>4 DEF TypeOK, Range
  <2>2. QED
    BY <1>3, <1>4, <2>1 DEF DLQAfterAttempts
<1>5. ASSUME NEW w \in Workers, WriteDLQ(w), i = Current(w)
      PROVE  outbox[i].attempts >= MaxAttempts /\ i \in Rows
  <2>1. batch[w] # <<>> /\ Head(batch[w]).attempts >= MaxAttempts
    BY <1>5 DEF WriteDLQ, At, Spent
  <2>2. /\ 1 \in DOMAIN batch[w] /\ Head(batch[w]) = batch[w][1]
        /\ batch[w][1] \in Entry /\ Current(w) \in Rows
    BY <2>1, BatchParts
  <2>3. batch[w][1].attempts <= outbox[i].attempts
    BY <1>5, <2>2 DEF AttemptsKnown, Current
  <2>4. batch[w][1].attempts \in Nat /\ outbox[i].attempts \in Nat
    <3>1. outbox[i] \in Row
      BY <1>5, <2>2 DEF TypeOK, Rows
    <3>2. QED
      BY <2>2, <3>1 DEF Entry, Row
  <2>5. QED
    BY <1>2, <1>5, <2>1, <2>2, <2>3, <2>4
<1>6. \/ i \in Range(dlq)
      \/ \E w \in Workers : WriteDLQ(w) /\ i = Current(w)
  BY MessagesSteps
<1>7. QED
  BY <1>3, <1>4, <1>5, <1>6

-----------------------------------------------------------------------------
(* Claims that outlive their batches *)

\* After a worker has handled its first event, it no longer holds it.
LEMMA Dropped ==
  ASSUME TypeOK, Distinct, [Next]_vars, NEW w \in Workers, batch[w] # <<>>,
         batch'[w] = Tail(batch[w]), NEW i, i = Current(w)
  PROVE  ~Holds(w, i)'
<1>1. /\ 1 \in DOMAIN batch[w] /\ Head(batch[w]) = batch[w][1]
      /\ Tail(batch[w]) \in Seq(Entry)
      /\ \A n \in DOMAIN Tail(batch[w]) :
           n + 1 \in DOMAIN batch[w] /\ Tail(batch[w])[n] = batch[w][n + 1]
  BY BatchParts
<1>2. ASSUME NEW n \in DOMAIN batch'[w]
      PROVE  batch'[w][n].row # batch[w][1].row
  <2>1. n + 1 # 1
    BY <1>1, <1>2
  <2>2. QED
    BY <1>1, <1>2, <2>1 DEF Distinct
<1>3. QED
  BY <1>1, <1>2 DEF Holds, Current

\* A row somebody holds is his after the step, unless he has given it up.
LEMMA OwnNext ==
  ASSUME TypeOK, Distinct, Own, [Next]_vars
  PROVE  Own'
<1>1. SUFFICES ASSUME Never({"slow"}),
                      NEW w \in Workers, NEW i \in Rows', Holds(w, i)'
               PROVE  outbox'[i].claimed = w /\ outbox'[i].fresh /\ ~outbox'[i].published
  BY FaultsFixed DEF Own, Never
<1>0. outbox \in Seq(Row) /\ (i \in Rows => outbox[i] \in Row) /\ "slow" \notin faults
  BY <1>1 DEF TypeOK, Rows, Never
<1>2. CASE Claim(w)
  <2>1. PICK n \in DOMAIN batch'[w] : i = batch'[w][n].row
    BY <1>1 DEF Holds
  <2>2. i \in Rows /\ Claimable(i) /\ outbox'[i] = [outbox[i] EXCEPT !.claimed = w, !.fresh = TRUE]
    BY <1>2, <2>1, ClaimedBatch
  <2>3. outbox[i] \in Row
    BY <1>0, <2>2
  <2>4. /\ [outbox[i] EXCEPT !.claimed = w, !.fresh = TRUE].claimed = w
        /\ [outbox[i] EXCEPT !.claimed = w, !.fresh = TRUE].fresh = TRUE
        /\ [outbox[i] EXCEPT !.claimed = w, !.fresh = TRUE].published = outbox[i].published
    BY <2>3 DEF Row
  <2>5. QED
    BY <2>2, <2>4 DEF Claimable
<1>3. CASE ~Claim(w)
  <2>1. /\ Holds(w, i) /\ i \in Rows
        /\ outbox[i].claimed = w /\ outbox[i].fresh /\ ~outbox[i].published
    <3>1. PICK n \in DOMAIN batch'[w] : i = batch'[w][n].row
      BY <1>1 DEF Holds
    <3>2. PICK m \in DOMAIN batch[w] : batch'[w][n] = batch[w][m]
      BY <1>3, EntriesSteps
    <3>3. Holds(w, i)
      BY <3>1, <3>2 DEF Holds
    <3>4. i \in Rows
      <4>1. batch[w] \in Seq(Entry)
        BY DEF TypeOK, Entry
      <4>2. batch[w][m] \in Entry
        BY <4>1
      <4>3. QED
        BY <3>1, <3>2, <4>2 DEF Entry
    <3>5. QED
      BY <1>1, <3>3, <3>4 DEF Own
  <2>2. outbox[i] \in Row
    BY <1>0, <2>1
  <2>3. ~Claimable(i)
    BY <2>1, NoneAssumption DEF Claimable
  <2> DEFINE Goal == outbox'[i].claimed = w /\ outbox'[i].fresh /\ ~outbox'[i].published
  <2>4. outbox'[i] = outbox[i] => Goal
    BY <2>1
  <2>5. CASE Enqueue
    <3>1. outbox' = Append(outbox, [published |-> FALSE, attempts |-> 0, claimed |-> None,
                                    fresh |-> FALSE, due |-> TRUE])
      BY <2>5 DEF Enqueue
    <3>2. QED
      BY <1>0, <2>1, <2>4, <3>1 DEF Rows
  <2>6. ASSUME NEW j \in Rows, Expire(j)
        PROVE  Goal
    <3>1. j # i
      BY <1>0, <2>1, <2>6 DEF Expire
    <3>2. outbox'[i] = outbox[i]
      BY <1>0, <2>1, <2>6, <3>1 DEF Expire, Rows
    <3>3. QED
      BY <2>4, <3>2
  <2>7. ASSUME NEW j \in Rows, BecomeDue(j)
        PROVE  Goal
    <3>1. outbox'[i] = outbox[i] \/ outbox'[i] = [outbox[i] EXCEPT !.due = TRUE]
      BY <1>0, <2>1, <2>7 DEF BecomeDue, Rows
    <3>2. /\ [outbox[i] EXCEPT !.due = TRUE].claimed = outbox[i].claimed
          /\ [outbox[i] EXCEPT !.due = TRUE].fresh = outbox[i].fresh
          /\ [outbox[i] EXCEPT !.due = TRUE].published = outbox[i].published
      BY <2>2 DEF Row
    <3>3. CASE outbox'[i] = [outbox[i] EXCEPT !.due = TRUE]
      BY <2>1, <3>2, <3>3
    <3>4. QED
      BY <2>4, <3>1, <3>3
  <2>8. ASSUME NEW v \in Workers, Claim(v)
        PROVE  Goal
    BY <2>1, <2>3, <2>4, <2>8, ClaimedBatch
  <2>9. ASSUME NEW v \in Workers, Mark(v) \/ MarkDLQ(v) \/ Record(v)
        PROVE  Goal
    <3>1. batch[v] # <<>> /\ Current(v) \in Rows /\ Holds(v, Current(v))
      BY <2>9, BatchParts DEF Mark, MarkDLQ, Record, At
    <3>2. CASE Current(v) = i
      <4>1. v = w
        BY <1>1, <2>1, <3>1, <3>2 DEF Own
      <4>2. batch'[w] = Tail(batch[w]) \/ batch'[w] = <<>>
        BY <2>9, <4>1 DEF Mark, MarkDLQ, Record, Advance, Abandon, TypeOK
      <4>3. batch'[w] # <<>>
        BY <1>1 DEF Holds
      <4>4. ~Holds(w, i)'
        BY <3>1, <3>2, <4>1, <4>2, <4>3, Dropped
      <4>5. QED
        BY <1>1, <4>4
    <3>3. CASE Current(v) # i
      <4>1. outbox'[i] = outbox[i]
        BY <1>0, <2>1, <2>9, <3>1, <3>3 DEF Mark, MarkDLQ, Record, Rows
      <4>2. QED
        BY <2>4, <4>1
    <3>4. QED
      BY <3>2, <3>3
  <2>10. CASE UNCHANGED outbox
    BY <2>4, <2>10
  <2>11. QED
    BY <2>5, <2>6, <2>7, <2>8, <2>9, <2>10 DEF Next, vars, Time, Succeed, Fail, Write, WriteDLQ,
       WriteFails, MarkFails, RecordFails, WriteDLQFails, Restart
<1>4. QED
  BY <1>2, <1>3

-----------------------------------------------------------------------------
(* No event is sent twice *)

\* A worker is about to mark each event that is sent and not marked.
InTransit ==
  Never(Repeats) =>
    \A i \in Rows : Sent(i) /\ ~outbox[i].published =>
      \E w \in Workers : /\ batch[w] # <<>> /\ Current(w) = i
                         /\ stage[w] \in {"mark", "markdlq"}

\* No event is twice in the topic, twice in the dead letter queue, or in both.
Once ==
  Never(Repeats) =>
    /\ \A m, n \in DOMAIN topic : m # n => topic[m] # topic[n]
    /\ \A m, n \in DOMAIN dlq : m # n => dlq[m] # dlq[n]
    /\ \A m \in DOMAIN topic, n \in DOMAIN dlq : topic[m] # dlq[n]

LEMMA OnceIsSentOnce == ASSUME TypeOK, Once PROVE SentOnce
<1>1. SUFFICES ASSUME Never(Repeats),
                      NEW m \in DOMAIN (topic \o dlq), NEW n \in DOMAIN (topic \o dlq), m # n
               PROVE  (topic \o dlq)[m] # (topic \o dlq)[n]
  BY DEF SentOnce, Repeats, IsInjective
<1>2. topic \in Seq(Rows) /\ dlq \in Seq(Rows)
  BY DEF TypeOK
<1>3. \A k \in DOMAIN (topic \o dlq) :
        \/ k \in DOMAIN topic /\ (topic \o dlq)[k] = topic[k]
        \/ k - Len(topic) \in DOMAIN dlq /\ (topic \o dlq)[k] = dlq[k - Len(topic)]
  BY <1>2
<1>4. m - Len(topic) # n - Len(topic)
  BY <1>1, <1>2
<1>5. QED
  BY <1>1, <1>3, <1>4 DEF Once

\* A fresh event at the end keeps a sequence free of repetition.
LEMMA AppendOnce ==
  ASSUME NEW S, NEW s \in Seq(S), NEW x \in S, x \notin Range(s),
         \A m, n \in DOMAIN s : m # n => s[m] # s[n]
  PROVE  \A m, n \in DOMAIN Append(s, x) : m # n => Append(s, x)[m] # Append(s, x)[n]
<1>1. DOMAIN Append(s, x) = DOMAIN s \cup {Len(s) + 1}
  OBVIOUS
<1>2. Append(s, x)[Len(s) + 1] = x /\ \A n \in DOMAIN s : Append(s, x)[n] = s[n]
  OBVIOUS
<1>3. \A n \in DOMAIN s : s[n] # x
  BY DEF Range
<1>4. QED
  BY <1>1, <1>2, <1>3

LEMMA InTransitNext ==
  ASSUME TypeOK, InTransit, [Next]_vars
  PROVE  InTransit'
<1>1. SUFFICES ASSUME Never(Repeats),
                      NEW i \in Rows', Sent(i)', ~outbox'[i].published
               PROVE  \E w \in Workers : /\ batch'[w] # <<>> /\ Current(w)' = i
                                         /\ stage'[w] \in {"mark", "markdlq"}
  BY FaultsFixed DEF InTransit, Never
<1>0. {"ackfail", "markfail", "restart"} \cap faults = {}
  BY <1>1 DEF Never, Repeats
<1>2. CASE Sent(i)
  <2>1. i \in Rows
    BY <1>2 DEF Sent, TypeOK, Range
  <2>2. ~outbox[i].published
    BY <1>1, <2>1, RowsSteps
  <2>3. PICK w \in Workers : /\ batch[w] # <<>> /\ Current(w) = i
                             /\ stage[w] \in {"mark", "markdlq"}
    BY <1>1, <1>2, <2>1, <2>2 DEF InTransit
  <2>4. CASE batch'[w] = batch[w] /\ stage'[w] = stage[w]
    BY <2>3, <2>4 DEF Current
  <2>5. /\ stage[w] # "write" /\ stage[w] # "record"
        /\ ~Claim(w) /\ ~Write(w) /\ ~WriteDLQ(w) /\ ~WriteFails(w) /\ ~Record(w)
        /\ ~RecordFails(w) /\ ~WriteDLQFails(w) /\ ~MarkFails(w) /\ ~Restart(w)
    BY <1>0, <2>3 DEF Claim, Write, WriteDLQ, WriteFails, Record, RecordFails, WriteDLQFails,
       MarkFails, Restart, At
  <2>6. ~Mark(w) /\ ~MarkDLQ(w)
    <3>1. outbox \in Seq(Row) /\ outbox[i] \in Row
      BY <2>1 DEF TypeOK, Rows
    <3>2. MarkedRow(outbox[i]).published
      BY <3>1, RowUpdates
    <3>3. ASSUME Mark(w) \/ MarkDLQ(w) PROVE FALSE
      <4>1. outbox' = [outbox EXCEPT ![i] = IF @.published THEN @ ELSE MarkedRow(@)]
        BY <1>0, <2>3, <3>3 DEF Mark, MarkDLQ
      <4>2. outbox'[i] = MarkedRow(outbox[i])
        BY <2>1, <2>2, <3>1, <4>1 DEF Rows
      <4>3. QED
        BY <1>1, <3>2, <4>2
    <3>4. QED
      BY <3>3
  <2>7. QED
    BY <2>4, <2>5, <2>6, WorkerSteps
<1>3. CASE ~Sent(i)
  <2>1. PICK w \in Workers : (Write(w) \/ WriteDLQ(w)) /\ i = Current(w)
    BY <1>1, <1>3, MessagesSteps DEF Sent
  <2>2. batch[w] # <<>> /\ batch'[w] = batch[w]
    BY <2>1 DEF Write, WriteDLQ, Go, At
  <2>3. stage'[w] \in {"mark", "markdlq"}
    BY <1>0, <2>1 DEF Write, WriteDLQ, Go, TypeOK
  <2>4. QED
    BY <2>1, <2>2, <2>3 DEF Current
<1>4. QED
  BY <1>2, <1>3

\* What a worker is about to write is not sent: its row is unpublished and its
\* own, and who is about to mark it holds it too.
LEMMA Unsent ==
  ASSUME TypeOK, Own, InTransit, Never(Repeats), NEW w \in Workers, At(w, "write")
  PROVE  ~Sent(Current(w))
<1>1. SUFFICES ASSUME Sent(Current(w)) PROVE FALSE
  OBVIOUS
<1>2. Current(w) \in Rows /\ Holds(w, Current(w))
  BY BatchParts DEF At
<1>3. Never({"slow"})
  BY DEF Never, Repeats
<1>4. ~outbox[Current(w)].published /\ outbox[Current(w)].claimed = w
  BY <1>2, <1>3 DEF Own
<1>5. PICK v \in Workers : /\ batch[v] # <<>> /\ Current(v) = Current(w)
                           /\ stage[v] \in {"mark", "markdlq"}
  BY <1>1, <1>2, <1>4 DEF InTransit
<1>6. Holds(v, Current(w))
  BY <1>5, BatchParts
<1>7. v = w
  BY <1>2, <1>3, <1>4, <1>6 DEF Own
<1>8. QED
  BY <1>5, <1>7 DEF At

LEMMA OnceNext ==
  ASSUME TypeOK, Own, InTransit, Once, [Next]_vars
  PROVE  Once'
<1>1. SUFFICES ASSUME Never(Repeats)
               PROVE  /\ \A m, n \in DOMAIN topic' : m # n => topic'[m] # topic'[n]
                      /\ \A m, n \in DOMAIN dlq' : m # n => dlq'[m] # dlq'[n]
                      /\ \A m \in DOMAIN topic', n \in DOMAIN dlq' : topic'[m] # dlq'[n]
  BY FaultsFixed DEF Once, Never
<1>2. /\ topic \in Seq(Rows) /\ dlq \in Seq(Rows)
      /\ \A m, n \in DOMAIN topic : m # n => topic[m] # topic[n]
      /\ \A m, n \in DOMAIN dlq : m # n => dlq[m] # dlq[n]
      /\ \A m \in DOMAIN topic, n \in DOMAIN dlq : topic[m] # dlq[n]
  BY <1>1 DEF Once, TypeOK
<1>3. CASE UNCHANGED <<topic, dlq>>
  BY <1>2, <1>3
<1>4. ASSUME NEW w \in Workers, Write(w)
      PROVE  /\ \A m, n \in DOMAIN topic' : m # n => topic'[m] # topic'[n]
             /\ \A m \in DOMAIN topic', n \in DOMAIN dlq' : topic'[m] # dlq'[n]
             /\ dlq' = dlq
  <2> DEFINE i == Current(w)
  <2>1. dlq' = dlq /\ topic' = Append(topic, i)
    BY <1>4, Writes
  <2>2. i \in Rows /\ i \notin Range(topic) /\ i \notin Range(dlq)
    BY <1>1, <1>4, Unsent, BatchParts DEF Write, At, Sent
  <2> HIDE DEF i
  <2>3. \A m, n \in DOMAIN topic' : m # n => topic'[m] # topic'[n]
    BY <1>2, <2>1, <2>2, AppendOnce
  <2>4. \A n \in DOMAIN dlq : dlq[n] # i
    BY <2>2 DEF Range
  <2>5. \A m \in DOMAIN topic' : topic'[m] = i \/ (m \in DOMAIN topic /\ topic'[m] = topic[m])
    BY <1>2, <2>1, <2>2
  <2>6. QED
    BY <1>2, <2>1, <2>3, <2>4, <2>5
<1>5. ASSUME NEW w \in Workers, WriteDLQ(w)
      PROVE  /\ \A m, n \in DOMAIN dlq' : m # n => dlq'[m] # dlq'[n]
             /\ \A m \in DOMAIN topic', n \in DOMAIN dlq' : topic'[m] # dlq'[n]
             /\ topic' = topic
  <2> DEFINE i == Current(w)
  <2>1. topic' = topic /\ dlq' = Append(dlq, i)
    BY <1>5, WritesDLQ
  <2>2. i \in Rows /\ i \notin Range(topic) /\ i \notin Range(dlq)
    BY <1>1, <1>5, Unsent, BatchParts DEF WriteDLQ, At, Sent
  <2> HIDE DEF i
  <2>3. \A m, n \in DOMAIN dlq' : m # n => dlq'[m] # dlq'[n]
    BY <1>2, <2>1, <2>2, AppendOnce
  <2>4. \A n \in DOMAIN topic : topic[n] # i
    BY <2>2 DEF Range
  <2>5. \A m \in DOMAIN dlq' : dlq'[m] = i \/ (m \in DOMAIN dlq /\ dlq'[m] = dlq[m])
    BY <1>2, <2>1, <2>2
  <2>6. QED
    BY <1>2, <2>1, <2>3, <2>4, <2>5
<1>6. QED
  BY <1>2, <1>3, <1>4, <1>5, MessagesSteps

-----------------------------------------------------------------------------
(* The invariant and the theorems *)

IInv ==
  /\ TypeOK
  /\ Distinct /\ Written /\ AttemptsKnown
  /\ MarkedIsSent /\ DLQAfterAttempts
  /\ Own /\ InTransit /\ Once

LEMMA InitInvariant == Init => IInv
<1>1. SUFFICES ASSUME Init PROVE IInv
  OBVIOUS
<1>2. /\ outbox = <<>> /\ topic = <<>> /\ dlq = <<>> /\ Rows = {}
      /\ \A w \in Workers : batch[w] = <<>>
  BY <1>1 DEF Init, Rows
<1>3. Range(topic) = {} /\ Range(dlq) = {}
  BY <1>2 DEF Range
<1>4. Distinct /\ Written /\ AttemptsKnown
  BY <1>2 DEF Distinct, Written, AttemptsKnown
<1>5. MarkedIsSent /\ DLQAfterAttempts /\ Own /\ InTransit
  BY <1>2, <1>3 DEF MarkedIsSent, DLQAfterAttempts, Own, InTransit
<1>6. Once
  BY <1>2 DEF Once
<1>7. QED
  BY <1>1, <1>4, <1>5, <1>6, TypeInit DEF IInv

LEMMA StepInvariant == IInv /\ [Next]_vars => IInv'
<1>1. SUFFICES ASSUME IInv, [Next]_vars PROVE IInv'
  OBVIOUS
<1>2. TypeOK' /\ Distinct'
  BY <1>1, TypeNext, DistinctNext DEF IInv
<1>3. Written' /\ AttemptsKnown'
  BY <1>1, WrittenNext, AttemptsNext DEF IInv
<1>4. MarkedIsSent' /\ DLQAfterAttempts'
  BY <1>1, MarkedNext, DLQNext DEF IInv
<1>5. Own' /\ InTransit' /\ Once'
  BY <1>1, OwnNext, InTransitNext, OnceNext DEF IInv
<1>6. QED
  BY <1>2, <1>3, <1>4, <1>5 DEF IInv

LEMMA InvariantHolds == Spec => []IInv
BY InitInvariant, StepInvariant, PTL DEF Spec

\* Rows, batches and messages keep their types in every reachable state; in
\* particular a worker only ever holds rows that exist.
THEOREM TypeCorrect == Spec => []TypeOK
<1>1. IInv => TypeOK
  BY DEF IInv
<1>2. QED
  BY <1>1, InvariantHolds, PTL

\* MarkOutboxEventPublished never marks an event that Kafka does not have, even
\* when claims expire, calls fail and relays restart.
THEOREM NoEventLost == Spec => []MarkedIsSent
<1>1. IInv => MarkedIsSent
  BY DEF IInv
<1>2. QED
  BY <1>1, InvariantHolds, PTL

\* The relay gives an event up only after the topic has refused it maxDLQAttempts
\* times, although it counts the attempts on a copy of the row.
THEOREM RefusedBeforeDLQ == Spec => []DLQAfterAttempts
<1>1. IInv => DLQAfterAttempts
  BY DEF IInv
<1>2. QED
  BY <1>1, InvariantHolds, PTL

\* While no claim expires under its worker, the FOR UPDATE SKIP LOCKED claim gives
\* each event to one worker at a time.
THEOREM ExclusiveClaims == Spec => []ClaimsExclusive
<1>1. IInv => ClaimsExclusive
  <2>1. SUFFICES ASSUME IInv, Never({"slow"}), NEW v \in Workers, NEW w \in Workers, v # w,
                        NEW i \in Rows, Holds(v, i), Holds(w, i)
                 PROVE  FALSE
    BY DEF ClaimsExclusive
  <2>2. outbox[i].claimed = v /\ outbox[i].claimed = w
    BY <2>1 DEF IInv, Own
  <2>3. QED
    BY <2>1, <2>2
<1>2. QED
  BY <1>1, InvariantHolds, PTL

\* Of the faults the code handles, only an expired claim, a lost acknowledgement, a
\* failed mark and a restart can send an event twice.
THEOREM NoDuplicate == Spec => []SentOnce
<1>1. IInv => SentOnce
  BY OnceIsSentOnce DEF IInv
<1>2. QED
  BY <1>1, InvariantHolds, PTL

-----------------------------------------------------------------------------
(* The event bus that the relay implements *)

refused == [i \in Rows |-> outbox[i].attempts]
done    == {i \in Rows : outbox[i].published}

\* A changed row, as the bus sees it.
LEMMA BusRow ==
  ASSUME TypeOK, NEW i \in Rows, NEW r \in Row, outbox' = [outbox EXCEPT ![i] = r]
  PROVE  /\ refused' = [refused EXCEPT ![i] = r.attempts]
         /\ r.published = outbox[i].published => done' = done
         /\ r.published = TRUE => done' = done \cup {i}
<1>1. outbox \in Seq(Row) /\ Rows = 1..Len(outbox)
  BY DEF TypeOK, Rows
<1>2. Rows' = Rows /\ outbox'[i] = r /\ \A j \in Rows : j # i => outbox'[j] = outbox[j]
  BY <1>1 DEF Rows
<1>3. refused' = [refused EXCEPT ![i] = r.attempts]
  <2>1. refused' = [j \in Rows |-> outbox'[j].attempts]
    BY <1>2 DEF refused
  <2>2. [refused EXCEPT ![i] = r.attempts]
          = [j \in Rows |-> IF j = i THEN r.attempts ELSE outbox[j].attempts]
    BY DEF refused
  <2>3. \A j \in Rows : outbox'[j].attempts = IF j = i THEN r.attempts ELSE outbox[j].attempts
    BY <1>2
  <2>4. QED
    BY <2>1, <2>2, <2>3
<1>4. r.published = outbox[i].published => done' = done
  BY <1>2 DEF done
<1>5. r.published = TRUE => done' = done \cup {i}
  BY <1>2 DEF done
<1>6. QED
  BY <1>3, <1>4, <1>5

BusSame == UNCHANGED <<refused, done, topic, dlq>>

LEMMA EnqueueAccepts ==
  ASSUME TypeOK, Enqueue
  PROVE  refused' = Append(refused, 0) /\ UNCHANGED <<done, topic, dlq>>
<1>1. PICK new : /\ new.attempts = 0 /\ new.published = FALSE
                 /\ outbox' = Append(outbox, new)
  BY DEF Enqueue
<1>2. PICK n \in Nat : n = Len(outbox)
  BY DEF TypeOK
<1>3. /\ Rows = 1..n /\ Rows' = 1..(n + 1) /\ outbox'[n + 1] = new
      /\ \A i \in 1..n : outbox'[i] = outbox[i]
  BY <1>1, <1>2 DEF Rows, TypeOK
<1>4. refused' = Append(refused, 0)
  <2>1. refused' = [i \in 1..(n + 1) |-> outbox'[i].attempts]
    BY <1>3 DEF refused
  <2>2. refused = [i \in 1..n |-> outbox[i].attempts]
    BY <1>3 DEF refused
  <2>3. refused \in Seq(Nat) /\ Len(refused) = n
    <3>1. \A i \in 1..n : outbox[i] \in Row
      BY <1>3 DEF TypeOK, Rows
    <3>2. \A i \in 1..n : outbox[i].attempts \in Nat
      BY <3>1 DEF Row
    <3>3. QED
      BY <2>2, <3>2
  <2>4. ASSUME NEW i \in 1..(n + 1)
        PROVE  outbox'[i].attempts = IF i = n + 1 THEN 0 ELSE refused[i]
    <3>1. CASE i = n + 1
      BY <1>1, <1>3, <3>1
    <3>2. CASE i # n + 1
      <4>1. i \in 1..n
        BY <3>2
      <4>2. QED
        BY <1>3, <2>2, <3>2, <4>1
    <3>3. QED
      BY <3>1, <3>2
  <2>5. PICK q \in Seq(Nat) : q = refused /\ Len(q) = n
    BY <2>3
  <2>6. PICK t : t = refused'
    OBVIOUS
  <2>7. t = [i \in 1..(n + 1) |-> IF i = n + 1 THEN 0 ELSE q[i]]
    BY <2>1, <2>4, <2>5, <2>6
  <2>8. t \in Seq(Nat) /\ Len(t) = n + 1 /\ t[n + 1] = 0 /\ \A i \in 1..n : t[i] = q[i]
    BY <2>5, <2>7
  <2>9. t = Append(q, 0)
    BY <2>5, <2>8
  <2>10. QED
    BY <2>5, <2>6, <2>9
<1>5. done' = done
  <2>1. ASSUME NEW i \in 1..(n + 1) PROVE i \in done' <=> i \in done
    <3>1. CASE i = n + 1
      BY <1>1, <1>3, <3>1 DEF done
    <3>2. CASE i # n + 1
      <4>1. i \in 1..n
        BY <3>2
      <4>2. QED
        BY <1>3, <4>1 DEF done
    <3>3. QED
      BY <3>1, <3>2
  <2>2. done' \subseteq 1..(n + 1) /\ done \subseteq 1..n /\ 1..n \subseteq 1..(n + 1)
    BY <1>3 DEF done
  <2>3. QED
    BY <2>1, <2>2
<1>6. QED
  BY <1>4, <1>5 DEF Enqueue

LEMMA TimeHidden ==
  ASSUME TypeOK, NEW i \in Rows, Expire(i) \/ BecomeDue(i)
  PROVE  BusSame
<1>1. outbox[i] \in Row
  BY DEF TypeOK, Rows
<1>2. PICK r : /\ outbox' = [outbox EXCEPT ![i] = r]
               /\ r \in {[outbox[i] EXCEPT !.fresh = FALSE], [outbox[i] EXCEPT !.due = TRUE]}
  BY DEF Expire, BecomeDue
<1>3. /\ r \in Row /\ r.attempts = outbox[i].attempts
      /\ r.published = outbox[i].published
  BY <1>1, <1>2 DEF Row
<1>4. /\ refused' = [refused EXCEPT ![i] = r.attempts]
      /\ r.published = outbox[i].published => done' = done
  BY <1>2, <1>3, BusRow
<1>5. refused' = refused
  BY <1>3, <1>4 DEF refused
<1>6. QED
  BY <1>3, <1>4, <1>5 DEF BusSame, Expire, BecomeDue

LEMMA ClaimHidden ==
  ASSUME TypeOK, NEW w \in Workers, Claim(w)
  PROVE  BusSame
<1>1. PICK taken \in SUBSET Rows :
        outbox' = [i \in Rows |-> IF i \in taken
                     THEN [outbox[i] EXCEPT !.claimed = w, !.fresh = TRUE] ELSE outbox[i]]
  BY DEF Claim
<1>2. \A i \in Rows : outbox[i] \in Row
  BY DEF TypeOK, Rows
<1>3. Rows' = Rows /\ \A i \in Rows : /\ outbox'[i].attempts = outbox[i].attempts
                                     /\ outbox'[i].published = outbox[i].published
  BY <1>1, <1>2 DEF Rows, Row
<1>4. refused' = refused
  BY <1>3 DEF refused
<1>5. done' = done
  BY <1>3 DEF done
<1>6. QED
  BY <1>4, <1>5 DEF BusSame, Claim

\* A row is marked by a worker that has sent its event.
LEMMA MarkSettles ==
  ASSUME TypeOK, Written, NEW w \in Workers, At(w, "mark") \/ At(w, "markdlq"),
         outbox' = [outbox EXCEPT ![Current(w)] = IF @.published THEN @ ELSE MarkedRow(@)],
         UNCHANGED <<topic, dlq>>
  PROVE  /\ Current(w) \in Rows /\ Sent(Current(w))
         /\ done' = done \cup {Current(w)}
         /\ UNCHANGED <<refused, topic, dlq>>
<1>1. PICK i \in Rows : i = Current(w)
  BY BatchParts DEF At
<1>2. Sent(i)
  BY <1>1 DEF Written, At, Sent
<1>3. outbox[i] \in Row
  BY DEF TypeOK, Rows
<1>4. PICK r : r = IF outbox[i].published THEN outbox[i] ELSE MarkedRow(outbox[i])
  OBVIOUS
<1>5. outbox' = [outbox EXCEPT ![i] = r]
  BY <1>1, <1>4
<1>6. r \in Row /\ r.attempts = outbox[i].attempts /\ r.published = TRUE
  <2>1. CASE outbox[i].published
    BY <1>3, <1>4, <2>1 DEF Row
  <2>2. CASE ~outbox[i].published
    BY <1>3, <1>4, <2>2, RowUpdates
  <2>3. QED
    BY <2>1, <2>2
<1>7. refused' = [refused EXCEPT ![i] = outbox[i].attempts] /\ done' = done \cup {i}
  <2>1. refused' = [refused EXCEPT ![i] = r.attempts] /\ done' = done \cup {i}
    BY <1>5, <1>6, BusRow
  <2>2. QED
    BY <1>6, <2>1
<1>8. refused' = refused
  BY <1>7 DEF refused
<1>9. QED
  BY <1>1, <1>2, <1>7, <1>8

\* A failure that is recorded is a refusal, unless somebody has marked the row.
LEMMA RecordRefuses ==
  ASSUME TypeOK, NEW w \in Workers, Record(w)
  PROVE  \/ BusSame
         \/ \E i \in Rows : /\ i \notin done
                            /\ refused' = [refused EXCEPT ![i] = @ + 1]
                            /\ UNCHANGED <<done, topic, dlq>>
<1>1. PICK i \in Rows : i = Current(w)
  BY BatchParts DEF Record, At
<1>2. outbox[i] \in Row
  BY DEF TypeOK, Rows
<1>3. UNCHANGED <<topic, dlq>>
  BY DEF Record
<1>4. CASE outbox[i].published
  <2>1. outbox' = [outbox EXCEPT ![i] = outbox[i]]
    BY <1>1, <1>4 DEF Record
  <2>2. outbox' = outbox
    BY <2>1 DEF TypeOK, Rows
  <2>3. QED
    BY <1>3, <2>2 DEF BusSame, refused, done, Rows
<1>5. CASE ~outbox[i].published
  <2>1. PICK r : r = FailedRow(outbox[i])
    OBVIOUS
  <2>2. outbox' = [outbox EXCEPT ![i] = r]
    BY <1>1, <1>5, <2>1 DEF Record
  <2>3. r \in Row /\ r.attempts = outbox[i].attempts + 1 /\ r.published = outbox[i].published
    BY <1>2, <2>1, RowUpdates
  <2>4. refused' = [refused EXCEPT ![i] = outbox[i].attempts + 1] /\ done' = done
    BY <2>2, <2>3, BusRow
  <2>5. refused[i] = outbox[i].attempts /\ i \notin done
    BY <1>5 DEF refused, done
  <2>6. QED
    BY <1>3, <2>4, <2>5
<1>6. QED
  BY <1>4, <1>5

\* An event is written again only after a fault that repeats events, and given up
\* only when its row has counted enough refusals.
LEMMA WriteSends ==
  ASSUME IInv, NEW w \in Workers, Write(w) \/ WriteDLQ(w)
  PROVE  /\ Current(w) \in Rows
         /\ Never(Repeats) => ~Sent(Current(w))
         /\ WriteDLQ(w) => refused[Current(w)] >= MaxAttempts
         /\ UNCHANGED <<refused, done>>
<1>1. Current(w) \in Rows
  BY BatchParts DEF IInv, Write, WriteDLQ, At
<1>2. Never(Repeats) => ~Sent(Current(w))
  BY Unsent DEF IInv, Write, WriteDLQ
<1>3. outbox' = outbox
  BY DEF Write, WriteDLQ
<1>4. UNCHANGED <<refused, done>>
  BY <1>3 DEF refused, done, Rows
<1>5. ASSUME WriteDLQ(w) PROVE refused[Current(w)] >= MaxAttempts
  <2>1. batch[w] # <<>> /\ Head(batch[w]).attempts >= MaxAttempts
    BY <1>5 DEF WriteDLQ, At, Spent
  <2>2. /\ 1 \in DOMAIN batch[w] /\ Head(batch[w]) = batch[w][1]
        /\ batch[w][1] \in Entry
    BY <2>1, BatchParts DEF IInv
  <2>3. batch[w][1].attempts <= outbox[Current(w)].attempts
    BY <2>2 DEF IInv, AttemptsKnown, Current
  <2>4. batch[w][1].attempts \in Nat /\ outbox[Current(w)].attempts \in Nat
    <3>1. outbox[Current(w)] \in Row
      BY <1>1 DEF IInv, TypeOK, Rows
    <3>2. QED
      BY <2>2, <3>1 DEF Entry, Row
  <2>5. refused[Current(w)] = outbox[Current(w)].attempts
    BY <1>1 DEF refused
  <2>6. MaxAttempts \in Nat
    BY BoundsAssumption
  <2>7. QED
    BY <2>1, <2>2, <2>3, <2>4, <2>5, <2>6
<1>6. QED
  BY <1>1, <1>2, <1>4, <1>5

LEMMA StepOfBus ==
  ASSUME IInv, [Next]_vars
  PROVE  [Bus!Next]_(Bus!vars)
<1>1. TypeOK /\ Written
  BY DEF IInv
<1>2. Never(Repeats)' = Never(Repeats)
  BY FaultsFixed DEF Never
<1>3. ASSUME BusSame PROVE UNCHANGED Bus!vars
  BY <1>2, <1>3 DEF BusSame, Bus!vars, refused, done
<1>4. Bus!Events = Rows
  BY DEF Bus!Events
<1>5. CASE Enqueue
  <2>1. Bus!Accept
    BY <1>1, <1>2, <1>5, EnqueueAccepts DEF Bus!Accept, refused, done
  <2>2. QED
    BY <2>1 DEF Bus!Next
<1>6. CASE Time
  BY <1>1, <1>3, <1>6, TimeHidden DEF Time
<1>7. ASSUME NEW w \in Workers, Claim(w) PROVE BusSame
  BY <1>1, <1>7, ClaimHidden
<1>8. ASSUME NEW w \in Workers, Write(w) PROVE Bus!Next
  <2>1. Bus!Send(Current(w))
    <3>1. Never(Repeats) => ~Sent(Current(w))
      BY <1>8, WriteSends
    <3>2. UNCHANGED <<refused, done>>
      BY <1>8, WriteSends
    <3>3. dlq' = dlq /\ topic' = Append(topic, Current(w))
      BY <1>1, <1>8, Writes
    <3>4. QED
      BY <1>2, <3>1, <3>2, <3>3 DEF Bus!Send, Bus!Sent, Sent, Bus!Range, Range, refused, done
  <2>2. QED
    BY <1>4, <1>8, <2>1, WriteSends DEF Bus!Next
<1>9. ASSUME NEW w \in Workers, WriteDLQ(w) PROVE Bus!Next
  <2>1. Bus!GiveUp(Current(w))
    <3>1. Never(Repeats) => ~Sent(Current(w))
      BY <1>9, WriteSends
    <3>2. UNCHANGED <<refused, done>> /\ refused[Current(w)] >= MaxAttempts
      BY <1>9, WriteSends
    <3>3. topic' = topic /\ dlq' = Append(dlq, Current(w))
      BY <1>1, <1>9, WritesDLQ
    <3>4. QED
      BY <1>2, <3>1, <3>2, <3>3 DEF Bus!GiveUp, Bus!Sent, Sent, Bus!Range, Range, refused, done
  <2>2. QED
    BY <1>4, <1>9, <2>1, WriteSends DEF Bus!Next
<1>10. ASSUME NEW w \in Workers, Mark(w) \/ MarkDLQ(w) PROVE BusSame \/ Bus!Next
  <2>1. CASE outbox' = outbox
    BY <1>10, <2>1 DEF BusSame, refused, done, Rows, Mark, MarkDLQ
  <2>2. CASE outbox' # outbox
    <3>1. PICK i \in Rows : /\ i = Current(w) /\ Sent(i)
                            /\ done' = done \cup {i}
                            /\ UNCHANGED <<refused, topic, dlq>>
      BY <1>1, <1>10, <2>2, MarkSettles DEF Mark, MarkDLQ
    <3>2. Bus!Settle(i)
      BY <1>2, <3>1 DEF Bus!Settle, Bus!Sent, Sent, Bus!Range, Range, refused, done
    <3>3. QED
      BY <1>4, <3>2 DEF Bus!Next
  <2>3. QED
    BY <2>1, <2>2
<1>11. ASSUME NEW w \in Workers, Record(w) PROVE BusSame \/ Bus!Next
  <2>1. CASE BusSame
    BY <2>1
  <2>2. CASE ~BusSame
    <3>1. PICK i \in Rows : /\ i \notin done
                            /\ refused' = [refused EXCEPT ![i] = @ + 1]
                            /\ UNCHANGED <<done, topic, dlq>>
      BY <1>1, <1>11, <2>2, RecordRefuses
    <3>2. Bus!Refuse(i)
      BY <1>2, <3>1 DEF Bus!Refuse, refused, done
    <3>3. QED
      BY <1>4, <3>2 DEF Bus!Next
  <2>3. QED
    BY <2>1, <2>2
<1>12. ASSUME NEW w \in Workers, Fail(w) PROVE BusSame
  BY <1>12 DEF Fail, WriteFails, MarkFails, RecordFails, WriteDLQFails, Restart, BusSame,
     refused, done, Rows
<1>13. UNCHANGED vars => BusSame
  BY DEF vars, BusSame, refused, done, Rows
<1>14. QED
  BY <1>3, <1>5, <1>6, <1>7, <1>8, <1>9, <1>10, <1>11, <1>12, <1>13 DEF Next, Succeed

\* Claims, batches, attempts and retries of any number of workers together are the
\* event bus: publishPendingTradeEvents sends, gives up or marks an event only when
\* the bus may.
THEOREM RelayImplementsEventBus == Spec => ImplementsEventBus
<1>1. Init => Bus!Init
  <2>1. SUFFICES ASSUME Init PROVE Bus!Init
    OBVIOUS
  <2>2. outbox = <<>> /\ Rows = {} /\ topic = <<>> /\ dlq = <<>>
    BY <2>1 DEF Init, Rows
  <2>3. [i \in Rows |-> outbox[i].attempts] = <<>>
    BY <2>2
  <2>4. Never(Repeats) \in BOOLEAN
    BY DEF Never
  <2>5. QED
    BY <2>2, <2>3, <2>4 DEF Bus!Init
<1>2. QED
  BY <1>1, InvariantHolds, StepOfBus, PTL DEF Spec, ImplementsEventBus, Bus!Spec
=============================================================================

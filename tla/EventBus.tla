------------------------------- MODULE EventBus -------------------------------
(***************************************************************************)
(* What the outbox promises to those who wait for its events, without      *)
(* claims, batches, workers or failing calls: an event that was accepted   *)
(* is sent, is given up only after enough refusals, and is settled only    *)
(* when it has been sent or given up; a careful bus sends nothing twice.   *)
(* TradeOutbox implements this specification.                              *)
(***************************************************************************)
EXTENDS Integers, Sequences, Functions

CONSTANT MaxAttempts

VARIABLES
  careful,   \* nothing is sent twice
  refusals,  \* for each event, how often the topic has refused it
  topic,     \* the events sent
  dlq,       \* the events given up
  settled    \* the events that are done with

vars == <<careful, refusals, topic, dlq, settled>>

Events  == DOMAIN refusals
Sent(i) == i \in Range(topic) \cup Range(dlq)

Init ==
  /\ careful \in BOOLEAN
  /\ refusals = <<>> /\ topic = <<>> /\ dlq = <<>> /\ settled = {}

Accept ==
  /\ refusals' = Append(refusals, 0)
  /\ UNCHANGED <<careful, topic, dlq, settled>>

Send(i) ==
  /\ careful => ~Sent(i)
  /\ topic' = Append(topic, i)
  /\ UNCHANGED <<careful, refusals, dlq, settled>>

Refuse(i) ==
  /\ i \notin settled
  /\ refusals' = [refusals EXCEPT ![i] = @ + 1]
  /\ UNCHANGED <<careful, topic, dlq, settled>>

GiveUp(i) ==
  /\ refusals[i] >= MaxAttempts
  /\ careful => ~Sent(i)
  /\ dlq' = Append(dlq, i)
  /\ UNCHANGED <<careful, refusals, topic, settled>>

Settle(i) ==
  /\ Sent(i)
  /\ settled' = settled \cup {i}
  /\ UNCHANGED <<careful, refusals, topic, dlq>>

Next == Accept \/ \E i \in Events : Send(i) \/ Refuse(i) \/ GiveUp(i) \/ Settle(i)

Spec == Init /\ [][Next]_vars

=============================================================================

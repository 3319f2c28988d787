------------------------------ MODULE FeedProofs ------------------------------
(***************************************************************************)
(* Proofs about Feed, for any topics, connections and number of restarts.  *)
(***************************************************************************)
EXTENDS Feed, TLAPS, FiniteSetTheorems

(***************************************************************************)
(* Types                                                                   *)
(***************************************************************************)
LEMMA InitType == Init => TypeOK
<1> SUFFICES ASSUME Init PROVE TypeOK
  OBVIOUS
<1>1. log \in [Topics -> Seq(Events)] /\ faults \in SUBSET AllFaults
  BY ScenariosAssumption DEF Init
<1>2. Positions
  BY <1>1 DEF Init, Positions
<1>3. ConnectionTypes /\ ConsumerTypes
  BY DEF Init, ConnectionTypes, ConsumerTypes, Handlers, Stages
<1>4. QED
  BY <1>1, <1>2, <1>3, BoundsAssumption DEF Init, TypeOK

LEMMA ConnectionStep == ASSUME TypeOK, NEW c \in Clients, Connection(c) PROVE TypeOK'
<1>0. UNCHANGED <<log, faults, backs, consumers, sent>>
  BY DEF Connection, Join, Count, RemoveClient, Leave, Notice
<1>1. ConnectionTypes'
  <2>1. ASSUME Join(c) \/ Count(c) \/ Leave(c) \/ Notice(c) PROVE ConnectionTypes'
    BY <2>1 DEF TypeOK, ConnectionTypes, Join, Count, Leave, Notice, Handlers
  <2>2. ASSUME RemoveClient(c) PROVE ConnectionTypes'
    <3>1. Cardinality(clients') \in Int
      BY <2>2, ClientsAssumption, FS_CardinalityType, FS_Subset
      DEF TypeOK, ConnectionTypes, RemoveClient
    <3>2. QED
      BY <2>2, <3>1 DEF TypeOK, ConnectionTypes, RemoveClient, Handlers
  <2>3. QED
    BY <2>1, <2>2 DEF Connection
<1>2. QED
  BY <1>0, <1>1 DEF TypeOK, ConsumerTypes, Positions, consumers

LEMMA CurrentType ==
  ASSUME TypeOK, NEW k \in Topics, stage[k] # "fetch"
  PROVE  event[k] \in 1..Len(log[k]) /\ Current(k) \in Events /\ Current(k).id \in Ids
<1>1. log[k] \in Seq(Events) /\ event[k] \in Nat /\ event[k] <= Len(log[k]) /\ event[k] > 0
  BY DEF TypeOK, Positions
<1>2. log[k][event[k]] \in Events
  BY <1>1
<1>3. QED
  BY <1>1, <1>2 DEF Current, Events

LEMMA ConsumerStep ==
  ASSUME TypeOK, NEW k \in Topics, Consume(k) \/ CheckFails(k) \/ MarkFails(k) \/ Rebalance(k)
  PROVE  TypeOK'
<1> DEFINE Reads == Fetch(k) \/ Commit(k) \/ Rebalance(k)
           Skips == SkipOther(k) \/ AlreadyProcessed(k) \/ CheckFails(k)
<1>1. faults' \in SUBSET AllFaults /\ backs' \in 0..MaxBacks
  BY BoundsAssumption
  DEF TypeOK, Consume, Fetch, SkipOther, AlreadyProcessed, Snapshot, EndBroadcast, Mark, Commit,
      Write, WriteFails, CheckFails, MarkFails, Rebalance
<1>2. ConnectionTypes'
  <2>1. ASSUME EndBroadcast(k) PROVE ConnectionTypes'
    <3>1. Cardinality(clients') \in Int
      BY <2>1, ClientsAssumption, FS_CardinalityType, FS_Subset
      DEF TypeOK, ConnectionTypes, EndBroadcast
    <3>2. QED
      BY <2>1, <3>1 DEF TypeOK, ConnectionTypes, EndBroadcast
  <2>2. ASSUME NEW c \in Clients, WriteFails(k, c) PROVE ConnectionTypes'
    BY <2>2 DEF TypeOK, ConnectionTypes, WriteFails
  <2>3. ASSUME UNCHANGED connections PROVE ConnectionTypes'
    BY <2>3 DEF TypeOK, ConnectionTypes, connections
  <2>4. QED
    BY <2>1, <2>2, <2>3
    DEF Consume, Fetch, SkipOther, AlreadyProcessed, Snapshot, Mark, Commit, Write, CheckFails,
        MarkFails, Rebalance
<1>3. ConsumerTypes'
  <2>1. ASSUME Reads \/ Skips PROVE ConsumerTypes'
    BY <2>1 DEF TypeOK, ConsumerTypes, Stages, Fetch, Commit, Rebalance, SkipOther,
                AlreadyProcessed, CheckFails
  <2>2. ASSUME Snapshot(k) \/ EndBroadcast(k) PROVE ConsumerTypes'
    BY <2>2 DEF TypeOK, ConsumerTypes, ConnectionTypes, Stages, Snapshot, EndBroadcast
  <2>3. ASSUME NEW c \in Clients, WriteFails(k, c) PROVE ConsumerTypes'
    BY <2>3 DEF TypeOK, ConsumerTypes, WriteFails
  <2>4. ASSUME NEW c \in Clients, Write(k, c) PROVE ConsumerTypes'
    <3>1. event[k] \in Nat
      BY DEF TypeOK, Positions
    <3>2. sent[c][k] \in Seq(Nat) /\ Append(sent[c][k], event[k]) \in Seq(Nat)
      BY <3>1 DEF TypeOK, ConsumerTypes
    <3>3. sent' \in [Clients -> [Topics -> Seq(Nat)]]
      BY <2>4, <3>2 DEF TypeOK, ConsumerTypes, Write
    <3>4. QED
      BY <2>4, <3>3 DEF TypeOK, ConsumerTypes, Write
  <2>5. ASSUME Mark(k) \/ MarkFails(k) PROVE ConsumerTypes'
    <3>1. Current(k).id \in Ids
      BY <2>5, CurrentType DEF Mark, MarkFails
    <3>2. processed' \in [Topics -> SUBSET Ids]
      <4>1. processed[k] \cup {Current(k).id} \in SUBSET Ids
        BY <3>1 DEF TypeOK, ConsumerTypes
      <4>2. QED
        BY <2>5, <4>1 DEF TypeOK, ConsumerTypes, Mark, MarkFails
    <3>3. QED
      BY <2>5, <3>2 DEF TypeOK, ConsumerTypes, Stages, Mark, MarkFails
  <2>6. QED
    BY <2>1, <2>2, <2>3, <2>4, <2>5 DEF Consume
<1>4. Positions'
  <2>1. ASSUME Fetch(k) PROVE Positions'
    <3>1. /\ event[k] \in Nat /\ offset[k] \in Nat /\ Len(log[k]) \in Nat
          /\ event[k] < Len(log[k]) /\ offset[k] <= event[k]
      BY <2>1 DEF TypeOK, Positions, Fetch
    <3>2. /\ event' = [event EXCEPT ![k] = event[k] + 1]
          /\ stage' = [stage EXCEPT ![k] = "check"]
          /\ UNCHANGED <<log, offset>>
      BY <2>1 DEF Fetch
    <3>3. event' \in [Topics -> Nat]
      BY <3>1, <3>2 DEF TypeOK, Positions
    <3>4. ASSUME NEW t \in Topics
          PROVE  event'[t] <= Len(log[t]) /\ offset[t] <= event'[t] /\ (stage'[t] # "fetch" => event'[t] > 0)
      <4>1. CASE t = k
        BY <3>1, <3>2, <4>1 DEF TypeOK, Positions
      <4>2. CASE t # k
        BY <3>2, <4>2 DEF TypeOK, Positions, ConsumerTypes
      <4>3. QED
        BY <4>1, <4>2
    <3>5. QED
      BY <3>2, <3>3, <3>4 DEF TypeOK, Positions
  <2>2. ASSUME Commit(k) PROVE Positions'
    <3>1. UNCHANGED <<log, event>> /\ stage[k] = "commit"
      BY <2>2 DEF Commit
    <3>2. offset' \in [Topics -> Nat] /\ \A t \in Topics : offset'[t] <= event[t]
      <4>1. \A t \in Topics : event[t] \in Nat /\ offset[t] \in Nat /\ offset[t] <= event[t]
        BY DEF TypeOK, Positions
      <4>2. offset' = offset \/ offset' = [offset EXCEPT ![k] = event[k]]
        BY <2>2 DEF Commit
      <4>3. offset' \in [Topics -> Nat] /\ \A t \in Topics : offset'[t] \in {offset[t], event[t]}
        BY <4>1, <4>2 DEF TypeOK, Positions
      <4>4. \A t \in Topics : event[t] <= event[t]
        BY <4>1
      <4>5. QED
        BY <4>1, <4>3, <4>4
    <3>3. \A t \in Topics : stage'[t] # "fetch" => stage[t] # "fetch"
      BY <2>2 DEF TypeOK, ConsumerTypes, Commit
    <3>4. QED
      BY <3>1, <3>2, <3>3 DEF TypeOK, Positions
  <2>3. ASSUME Rebalance(k) PROVE Positions'
    <3>1. UNCHANGED <<log, offset, stage>> /\ stage[k] = "fetch"
      BY <2>3 DEF Rebalance
    <3>2. event' \in [Topics -> Nat]
      BY <2>3 DEF TypeOK, Positions, Rebalance
    <3>3. \A t \in Topics : event'[t] = IF t = k THEN offset[t] ELSE event[t]
      BY <2>3 DEF TypeOK, Positions, Rebalance
    <3>4. \A t \in Topics : Len(log[t]) \in Nat
      BY DEF TypeOK, Positions
    <3>5. QED
      BY <3>1, <3>2, <3>3, <3>4 DEF TypeOK, Positions
  <2>4. ASSUME UNCHANGED <<log, event, offset>>,
               \A t \in Topics : stage'[t] # "fetch" => stage[t] # "fetch"
        PROVE  Positions'
    BY <2>4 DEF TypeOK, Positions
  <2>5. ASSUME Skips \/ Snapshot(k) \/ EndBroadcast(k) \/ Mark(k) \/ MarkFails(k)
        PROVE  Positions'
    BY <2>4, <2>5
    DEF TypeOK, ConsumerTypes, SkipOther, AlreadyProcessed, CheckFails, Snapshot, EndBroadcast,
        Mark, MarkFails
  <2>6. ASSUME NEW c \in Clients, Write(k, c) \/ WriteFails(k, c) PROVE Positions'
    BY <2>4, <2>6 DEF Write, WriteFails
  <2>7. QED
    BY <2>1, <2>2, <2>3, <2>5, <2>6 DEF Consume
<1>5. QED
  BY <1>1, <1>2, <1>3, <1>4 DEF TypeOK

LEMMA RestartStep == ASSUME TypeOK, Restart PROVE TypeOK'
<1>1. ConnectionTypes' /\ ConsumerTypes'
  BY DEF TypeOK, ConnectionTypes, ConsumerTypes, Restart, Handlers, Stages
<1>2. Positions'
  BY DEF TypeOK, Positions, Restart
<1>3. QED
  BY <1>1, <1>2, BoundsAssumption DEF TypeOK, Restart

LEMMA TypeStep == TypeOK /\ [Next]_vars => TypeOK'
<1> SUFFICES ASSUME TypeOK, [Next]_vars PROVE TypeOK'
  OBVIOUS
<1>1. CASE UNCHANGED vars
  BY <1>1 DEF TypeOK, ConnectionTypes, ConsumerTypes, Positions, vars, connections, consumers
<1>2. QED
  BY <1>1, ConnectionStep, ConsumerStep, RestartStep DEF Next

(***************************************************************************)
(* Every client is offered every event                                     *)
(*                                                                         *)
(* While a broadcast runs, each client of its snapshot is still to be      *)
(* written to, has failed, or has the event.  A removed client cannot      *)
(* come back, so it never turns up in the snapshot and the map again.      *)
(***************************************************************************)
Got(c, k) == \E i \in DOMAIN sent[c][k] : sent[c][k][i] = event[k]

Known == \A c \in Clients :
           handler[c] = "none" => /\ c \notin clients
                                  /\ \A k \in Topics : c \notin snapshot[k] /\ c \notin todo[k]

Offering ==
  \A k \in Topics :
    /\ stage[k] = "send" => \A c \in snapshot[k] : c \in todo[k] \/ c \in failed[k] \/ Got(c, k)
    /\ stage[k] = "mark" => \A c \in snapshot[k] : c \in clients => Got(c, k)

LEMMA KnownStep == TypeOK /\ Known /\ [Next]_vars => Known'
<1> SUFFICES ASSUME TypeOK, Known, [Next]_vars PROVE Known'
  OBVIOUS
<1> USE DEF TypeOK, ConnectionTypes, ConsumerTypes
<1>1. ASSUME NEW c \in Clients, Connection(c) PROVE Known'
  <2>1. ASSUME Join(c)
        PROVE  \A d \in Clients : handler'[d] = "none" =>
                 handler[d] = "none" /\ (d \in clients' => d \in clients)
    BY <2>1 DEF Join
  <2>2. ASSUME Count(c) \/ RemoveClient(c) \/ Leave(c) \/ Notice(c)
        PROVE  \A d \in Clients : handler'[d] = "none" =>
                 handler[d] = "none" /\ (d \in clients' => d \in clients)
    BY <2>2 DEF Count, RemoveClient, Leave, Notice
  <2>3. UNCHANGED consumers
    BY <1>1 DEF Connection, Join, Count, RemoveClient, Leave, Notice
  <2>4. QED
    BY <1>1, <2>1, <2>2, <2>3 DEF Known, consumers, Connection
<1>2. ASSUME NEW k \in Topics, Consume(k) \/ CheckFails(k) \/ MarkFails(k) \/ Rebalance(k)
      PROVE  Known'
  <2>1. UNCHANGED handler /\ clients' \subseteq clients
    BY <1>2 DEF Consume, Fetch, SkipOther, AlreadyProcessed, Snapshot, EndBroadcast, Mark, Commit,
                Write, WriteFails, CheckFails, MarkFails, Rebalance, connections
  <2>2. \A t \in Topics : /\ snapshot'[t] \subseteq snapshot[t] \cup clients
                          /\ todo'[t] \subseteq todo[t] \cup clients
    <3>1. ASSUME Snapshot(k)
          PROVE  \A t \in Topics : /\ snapshot'[t] \subseteq snapshot[t] \cup clients
                                  /\ todo'[t] \subseteq todo[t] \cup clients
      BY <3>1 DEF Snapshot
    <3>2. ASSUME Mark(k) \/ MarkFails(k)
          PROVE  /\ UNCHANGED todo
                 /\ \A t \in Topics : snapshot'[t] \subseteq snapshot[t]
      BY <3>2 DEF Mark, MarkFails
    <3>3. ASSUME NEW c \in Clients, Write(k, c) \/ WriteFails(k, c)
          PROVE  UNCHANGED snapshot /\ \A t \in Topics : todo'[t] \subseteq todo[t]
      <4>1. UNCHANGED snapshot /\ todo' = [todo EXCEPT ![k] = @ \ {c}]
        BY <3>3 DEF Write, WriteFails
      <4>2. QED
        BY <4>1
    <3>4. ASSUME \/ Fetch(k) \/ SkipOther(k) \/ AlreadyProcessed(k) \/ EndBroadcast(k)
                 \/ Commit(k) \/ CheckFails(k) \/ Rebalance(k)
          PROVE  UNCHANGED <<snapshot, todo>>
      BY <3>4 DEF Fetch, SkipOther, AlreadyProcessed, EndBroadcast, Commit, CheckFails, Rebalance
    <3>5. QED
      BY <1>2, <3>1, <3>2, <3>3, <3>4 DEF Consume
  <2>3. QED
    BY <2>1, <2>2 DEF Known
<1>3. ASSUME Restart PROVE Known'
  BY <1>3 DEF Known, Restart
<1>4. CASE UNCHANGED vars
  BY <1>4 DEF Known, vars, connections, consumers
<1>5. QED
  BY <1>1, <1>2, <1>3, <1>4 DEF Next

LEMMA OfferingStep == TypeOK /\ Known /\ Offering /\ [Next]_vars => Offering'
<1> SUFFICES ASSUME TypeOK, Known, Offering, [Next]_vars, NEW t \in Topics
             PROVE  /\ stage'[t] = "send" =>
                         \A d \in snapshot'[t] : d \in todo'[t] \/ d \in failed'[t] \/ Got(d, t)'
                    /\ stage'[t] = "mark" =>
                         \A d \in snapshot'[t] : d \in clients' => Got(d, t)'
  BY DEF Offering
<1> DEFINE Goal == /\ stage'[t] = "send" =>
                        \A d \in snapshot'[t] : d \in todo'[t] \/ d \in failed'[t] \/ Got(d, t)'
                   /\ stage'[t] = "mark" =>
                        \A d \in snapshot'[t] : d \in clients' => Got(d, t)'
<1>0. /\ snapshot[t] \subseteq Clients
      /\ \A d \in snapshot[t] : handler[d] # "none"
  BY DEF TypeOK, ConsumerTypes, Known
<1>1. ASSUME NEW c \in Clients, Connection(c) PROVE Goal
  <2>1. UNCHANGED <<stage, event, snapshot, todo, failed, sent>>
    BY <1>1 DEF Connection, Join, Count, RemoveClient, Leave, Notice, consumers
  <2>2. \A d \in snapshot[t] : d \in clients' => d \in clients
    BY <1>0, <1>1 DEF Connection, Join, Count, RemoveClient, Leave, Notice
  <2>3. QED
    BY <2>1, <2>2 DEF Offering, Got
<1>2. ASSUME UNCHANGED <<clients, sent>>, stage'[t] = stage[t], event'[t] = event[t],
             snapshot'[t] = snapshot[t], todo'[t] = todo[t], failed'[t] = failed[t]
      PROVE  Goal
  BY <1>2 DEF Offering, Got
<1>3. ASSUME NEW k \in Topics, Consume(k) \/ CheckFails(k) \/ MarkFails(k) \/ Rebalance(k)
      PROVE  Goal
  <2> USE DEF TypeOK, ConsumerTypes, Positions
  <2>1. ASSUME \/ Fetch(k) \/ SkipOther(k) \/ AlreadyProcessed(k) \/ Mark(k) \/ Commit(k)
               \/ CheckFails(k) \/ MarkFails(k) \/ Rebalance(k)
        PROVE  Goal
    <3>1. CASE t = k
      BY <2>1, <3>1 DEF Fetch, SkipOther, AlreadyProcessed, Mark, Commit, CheckFails, MarkFails,
                        Rebalance
    <3>2. CASE t # k
      BY <1>2, <2>1, <3>2 DEF Fetch, SkipOther, AlreadyProcessed, Mark, Commit, CheckFails,
                              MarkFails, Rebalance, connections
    <3>3. QED
      BY <3>1, <3>2
  <2>2. ASSUME Snapshot(k) PROVE Goal
    <3>1. CASE t = k
      BY <2>2, <3>1 DEF Snapshot
    <3>2. CASE t # k
      BY <1>2, <2>2, <3>2 DEF Snapshot, connections
    <3>3. QED
      BY <3>1, <3>2
  <2>3. ASSUME NEW c \in Clients, Write(k, c) PROVE Goal
    <3>1. CASE t = k
      <4>1. /\ stage'[t] = "send" /\ UNCHANGED <<event, snapshot, failed>>
            /\ todo'[t] = todo[t] \ {c} /\ stage[t] = "send"
        BY <2>3, <3>1 DEF Write
      <4>2. Got(c, t)'
        <5>1. sent[c][t] \in Seq(Nat) /\ sent'[c][t] = Append(sent[c][t], event[t])
          BY <2>3, <3>1 DEF Write
        <5>2. Len(sent[c][t]) + 1 \in DOMAIN sent'[c][t]
              /\ sent'[c][t][Len(sent[c][t]) + 1] = event[t]
          BY <5>1
        <5>3. QED
          BY <4>1, <5>2 DEF Got
      <4>3. \A d \in snapshot[t] : d # c => (Got(d, t) => Got(d, t)')
        BY <1>0, <2>3, <4>1 DEF Write, Got
      <4>4. QED
        BY <4>1, <4>2, <4>3 DEF Offering
    <3>2. CASE t # k
      <4>1. \A d \in Clients : sent'[d][t] = sent[d][t]
        BY <2>3, <3>2 DEF Write
      <4>2. /\ UNCHANGED <<clients, stage, event, snapshot, failed>> /\ todo'[t] = todo[t]
        BY <2>3, <3>2 DEF Write, connections
      <4>3. \A d \in Clients : Got(d, t) => Got(d, t)'
        BY <4>1, <4>2 DEF Got
      <4>4. QED
        BY <1>0, <4>2, <4>3 DEF Offering
    <3>3. QED
      BY <3>1, <3>2
  <2>4. ASSUME NEW c \in Clients, WriteFails(k, c) PROVE Goal
    <3>1. CASE t = k
      BY <2>4, <3>1 DEF WriteFails, Offering, Got
    <3>2. CASE t # k
      BY <1>2, <2>4, <3>2 DEF WriteFails
    <3>3. QED
      BY <3>1, <3>2
  <2>5. ASSUME EndBroadcast(k) PROVE Goal
    <3>1. CASE t = k
      BY <2>5, <3>1 DEF EndBroadcast, Offering, Got
    <3>2. CASE t # k
      BY <2>5, <3>2 DEF EndBroadcast, Offering, Got
    <3>3. QED
      BY <3>1, <3>2
  <2>6. QED
    BY <1>3, <2>1, <2>2, <2>3, <2>4, <2>5 DEF Consume
<1>4. ASSUME Restart PROVE Goal
  BY <1>4 DEF Restart
<1>5. CASE UNCHANGED vars
  BY <1>2, <1>5 DEF vars, connections, consumers
<1>6. QED
  BY <1>1, <1>3, <1>4, <1>5 DEF Next

(***************************************************************************)
(* The gauge                                                               *)
(***************************************************************************)
Serving == {c \in clients : handler[c] = "serving"}

LEMMA SetsOfClients ==
  ASSUME NEW C \in SUBSET Clients, NEW S \in SUBSET C
  PROVE  /\ IsFiniteSet(S) /\ Cardinality(C) \in Nat /\ Cardinality(S) \in Nat
         /\ Cardinality(S) <= Cardinality(C)
<1>1. IsFiniteSet(C)
  BY ClientsAssumption, FS_Subset
<1>2. QED
  BY <1>1, FS_Subset, FS_CardinalityType

LEMMA GaugeStep ==
  ASSUME TypeOK, TypeOK', gauge >= Cardinality(Serving), [Next]_vars
  PROVE  gauge' >= Cardinality(Serving)'
<1> USE DEF TypeOK, ConnectionTypes
<1>0. gauge \in Int /\ Cardinality(Serving)' \in Nat
  BY SetsOfClients DEF Serving
<1>1. ASSUME UNCHANGED gauge, Serving' \subseteq Serving PROVE gauge' >= Cardinality(Serving)'
  <2>1. Cardinality(Serving') <= Cardinality(Serving)
    <3>1. Serving \in SUBSET Clients /\ Serving' \in SUBSET Serving
      BY <1>1 DEF Serving
    <3>2. QED
      BY <3>1, SetsOfClients
  <2>2. Cardinality(Serving) \in Nat /\ Cardinality(Serving') \in Nat
    BY SetsOfClients DEF Serving
  <2>3. QED
    BY <1>0, <1>1, <2>1, <2>2
<1>2. ASSUME gauge' = Cardinality(clients') PROVE gauge' >= Cardinality(Serving)'
  <2>1. Cardinality(Serving') <= Cardinality(clients') /\ Cardinality(clients') \in Nat
    BY SetsOfClients DEF Serving
  <2>2. QED
    BY <1>0, <1>2, <2>1
<1>3. ASSUME NEW c \in Clients, Count(c) PROVE gauge' >= Cardinality(Serving)'
  <2>1. Serving' \subseteq Serving \cup {c} /\ gauge' = gauge + 1
    BY <1>3 DEF Count, Serving
  <2>2. Serving \in SUBSET Clients /\ IsFiniteSet(Serving) /\ Cardinality(Serving) \in Nat
    BY SetsOfClients DEF Serving
  <2>3. Cardinality(Serving \cup {c}) \in {Cardinality(Serving), Cardinality(Serving) + 1}
    BY <2>2, FS_AddElement
  <2>4. Cardinality(Serving') <= Cardinality(Serving \cup {c})
    <3>1. Serving \cup {c} \in SUBSET Clients /\ Serving' \in SUBSET (Serving \cup {c})
      BY <2>1, <2>2
    <3>2. QED
      BY <3>1, SetsOfClients
  <2>5. QED
    BY <1>0, <2>1, <2>2, <2>3, <2>4
<1>4. ASSUME NEW c \in Clients, Connection(c) PROVE gauge' >= Cardinality(Serving)'
  <2>1. ASSUME Join(c) PROVE UNCHANGED gauge /\ Serving' \subseteq Serving
    BY <2>1 DEF Join, Serving
  <2>2. ASSUME Leave(c) \/ Notice(c) PROVE UNCHANGED gauge /\ Serving' \subseteq Serving
    BY <2>2 DEF Leave, Notice, Serving
  <2>3. ASSUME RemoveClient(c) PROVE gauge' = Cardinality(clients')
    BY <2>3 DEF RemoveClient
  <2>4. QED
    BY <1>1, <1>2, <1>3, <1>4, <2>1, <2>2, <2>3 DEF Connection
<1>5. ASSUME NEW k \in Topics, Consume(k) \/ CheckFails(k) \/ MarkFails(k) \/ Rebalance(k)
      PROVE  gauge' >= Cardinality(Serving)'
  <2>1. ASSUME EndBroadcast(k) PROVE gauge' >= Cardinality(Serving)'
    BY <1>1, <1>2, <2>1 DEF EndBroadcast, Serving
  <2>2. ASSUME UNCHANGED <<clients, gauge, handler>> PROVE gauge' >= Cardinality(Serving)'
    BY <1>1, <2>2 DEF Serving
  <2>3. QED
    BY <1>5, <2>1, <2>2
    DEF Consume, Fetch, SkipOther, AlreadyProcessed, Snapshot, Mark, Commit, Write, WriteFails,
        CheckFails, MarkFails, Rebalance, connections
<1>6. ASSUME Restart PROVE gauge' >= Cardinality(Serving)'
  <2>1. Serving' = {} /\ gauge' = 0
    BY <1>6 DEF Restart, Serving
  <2>2. QED
    BY <2>1, FS_EmptySet
<1>7. CASE UNCHANGED vars
  BY <1>1, <1>7 DEF vars, connections, Serving
<1>8. QED
  BY <1>4, <1>5, <1>6, <1>7 DEF Next

(***************************************************************************)
(* Order                                                                   *)
(*                                                                         *)
(* While processed_events works, a consumer never leaves an event behind   *)
(* that is not done with, so what a live connection has been sent is done  *)
(* with, up to and including the last of it; an event that is not done     *)
(* with comes after all of that.                                           *)
(***************************************************************************)
Clean == {"dbfail", "markfail"} \cap faults = {}

Done(k, j) == log[k][j].type = "other" \/ log[k][j].id \in processed[k]

OrderOf(k) ==
  /\ \A j \in 1..offset[k] : Done(k, j)
  /\ \A j \in 1..event[k] : j < event[k] \/ stage[k] \in {"fetch", "commit"} => Done(k, j)
  /\ stage[k] \in {"send", "mark"} => ~Done(k, event[k])

Sent(c, k) ==
  /\ handler[c] = "none" => sent[c][k] = <<>>
  /\ \A i \in DOMAIN sent[c][k] :
       /\ sent[c][k][i] > 0 /\ log[k][sent[c][k][i]].type # "other"
       /\ \/ link[c] = "closed"
          \/ \A j \in 1..sent[c][k][i] : Done(k, j)
          \/ stage[k] \in {"send", "mark"} /\ sent[c][k][i] = event[k] /\ c \notin todo[k]
  /\ \A i, j \in DOMAIN sent[c][k] :
       i < j => /\ sent[c][k][i] < sent[c][k][j]
                /\ log[k][sent[c][k][i]].id # log[k][sent[c][k][j]].id

Ordering == Clean => \A k \in Topics : OrderOf(k) /\ \A c \in Clients : Sent(c, k)

\* What a step that leaves topic k alone keeps.
LEMMA OrderFrame ==
  ASSUME NEW k \in Topics, Ordering, Clean,
         UNCHANGED log, stage'[k] = stage[k], event'[k] = event[k], offset'[k] = offset[k],
         todo'[k] = todo[k], processed'[k] = processed[k],
         \A c \in Clients : /\ sent'[c][k] = sent[c][k]
                            /\ handler'[c] = "none" => handler[c] = "none"
                            /\ link[c] = "closed" => link'[c] = "closed"
  PROVE  OrderOf(k)' /\ \A c \in Clients : Sent(c, k)'
<1>1. \A j : Done(k, j)' <=> Done(k, j)
  BY DEF Done
<1>2. OrderOf(k)'
  BY <1>1 DEF Ordering, OrderOf
<1>3. ASSUME NEW c \in Clients PROVE Sent(c, k)'
  BY <1>1, <1>3 DEF Ordering, Sent
<1>4. QED
  BY <1>2, <1>3

\* A step of consumer k that writes to nobody keeps what was sent, if it keeps
\* what is done with and leaves no broadcast unfinished.
LEMMA SentFrame ==
  ASSUME NEW k \in Topics, NEW c \in Clients, Sent(c, k),
         UNCHANGED <<log, sent, handler, link>>,
         \A j : Done(k, j) => Done(k, j)',
         \/ stage[k] \notin {"send", "mark"}
         \/ stage'[k] \in {"send", "mark"} /\ event'[k] = event[k] /\ todo'[k] \subseteq todo[k]
         \/ \A j \in 1..event[k] : Done(k, j)'
  PROVE  Sent(c, k)'
BY DEF Sent

LEMMA ConsumerOrder ==
  ASSUME TypeOK, Known, Ordering, Clean, NEW k \in Topics,
         Consume(k) \/ CheckFails(k) \/ MarkFails(k) \/ Rebalance(k)
  PROVE  OrderOf(k)' /\ \A c \in Clients : Sent(c, k)'
<1> USE DEF TypeOK, ConsumerTypes, Positions
<1>0. /\ OrderOf(k) /\ \A c \in Clients : Sent(c, k)
      /\ event[k] \in Nat /\ offset[k] \in Nat /\ offset[k] <= event[k]
      /\ stage[k] # "fetch" => event[k] > 0
  BY DEF Ordering
<1>1. ASSUME Fetch(k) PROVE OrderOf(k)' /\ \A c \in Clients : Sent(c, k)'
  <2>1. /\ stage[k] = "fetch" /\ stage'[k] = "check" /\ event'[k] = event[k] + 1
        /\ UNCHANGED <<log, offset, processed, sent, handler, link>>
    BY <1>1 DEF Fetch, connections
  <2>2. \A j : Done(k, j)' <=> Done(k, j)
    BY <2>1 DEF Done
  <2>3. OrderOf(k)'
    <3>1. /\ \A j \in 1..offset[k] : Done(k, j)
          /\ \A j \in 1..event[k] : Done(k, j)
      BY <1>0, <2>1 DEF OrderOf
    <3>2. \A j \in 1..event'[k] : j < event'[k] => j \in 1..event[k]
      BY <1>0, <2>1
    <3>3. QED
      BY <2>1, <2>2, <3>1, <3>2 DEF OrderOf
  <2>4. QED
    BY <1>0, <2>1, <2>2, <2>3, SentFrame
<1>2. ASSUME SkipOther(k) \/ AlreadyProcessed(k) PROVE OrderOf(k)' /\ \A c \in Clients : Sent(c, k)'
  <2>1. /\ stage[k] = "check" /\ stage'[k] = "commit" /\ Done(k, event[k])
        /\ UNCHANGED <<log, event, offset, processed, sent, handler, link>>
    BY <1>2 DEF SkipOther, AlreadyProcessed, connections, Done, Current
  <2>2. \A j : Done(k, j)' <=> Done(k, j)
    BY <2>1 DEF Done
  <2>3. OrderOf(k)'
    <3>1. \A j \in 1..event[k] : Done(k, j)
      BY <1>0, <2>1 DEF OrderOf
    <3>2. QED
      BY <1>0, <2>1, <2>2, <3>1 DEF OrderOf
  <2>4. QED
    BY <1>0, <2>1, <2>2, <2>3, SentFrame
<1>3. ASSUME Snapshot(k) PROVE OrderOf(k)' /\ \A c \in Clients : Sent(c, k)'
  <2>1. /\ stage[k] = "check" /\ stage'[k] = "send" /\ ~Done(k, event[k])
        /\ UNCHANGED <<log, event, offset, processed, sent, handler, link>>
    BY <1>3 DEF Snapshot, connections, Done, Current
  <2>2. \A j : Done(k, j)' <=> Done(k, j)
    BY <2>1 DEF Done
  <2>3. OrderOf(k)'
    BY <1>0, <2>1, <2>2 DEF OrderOf
  <2>4. QED
    BY <1>0, <2>1, <2>2, <2>3, SentFrame
<1>4. ASSUME EndBroadcast(k) PROVE OrderOf(k)' /\ \A c \in Clients : Sent(c, k)'
  <2>1. /\ stage[k] = "send" /\ stage'[k] = "mark"
        /\ UNCHANGED <<log, event, offset, todo, processed, sent, handler, link>>
    BY <1>4 DEF EndBroadcast
  <2>2. \A j : Done(k, j)' <=> Done(k, j)
    BY <2>1 DEF Done
  <2>3. OrderOf(k)'
    BY <1>0, <2>1, <2>2 DEF OrderOf
  <2>4. QED
    BY <1>0, <2>1, <2>2, <2>3, SentFrame
<1>5. ASSUME Mark(k) PROVE OrderOf(k)' /\ \A c \in Clients : Sent(c, k)'
  <2>1. /\ stage[k] = "mark" /\ stage'[k] = "commit"
        /\ processed'[k] = processed[k] \cup {log[k][event[k]].id}
        /\ UNCHANGED <<log, event, offset, sent, handler, link>>
    BY <1>5 DEF Mark, connections, Current
  <2>2. /\ \A j : Done(k, j) => Done(k, j)'
        /\ \A j \in 1..event[k] : Done(k, j)'
    <3>1. /\ \A j : Done(k, j) => Done(k, j)'
          /\ Done(k, event[k])'
      BY <2>1 DEF Done
    <3>2. \A j \in 1..event[k] : j = event[k] \/ Done(k, j)
      <4> TAKE j \in 1..event[k]
      <4>1. j = event[k] \/ j < event[k]
        BY <1>0
      <4>2. QED
        BY <1>0, <4>1 DEF OrderOf
    <3>3. ASSUME NEW j \in 1..event[k] PROVE Done(k, j)'
      <4>1. CASE j = event[k]
        BY <2>1, <4>1 DEF Done
      <4>2. CASE Done(k, j)
        BY <3>1, <4>2
      <4>3. QED
        BY <3>2, <4>1, <4>2
    <3>4. QED
      BY <3>1, <3>3
  <2>3. OrderOf(k)'
    BY <1>0, <2>1, <2>2 DEF OrderOf
  <2>4. QED
    BY <1>0, <2>1, <2>2, <2>3, SentFrame
<1>6. ASSUME Commit(k) PROVE OrderOf(k)' /\ \A c \in Clients : Sent(c, k)'
  <2>1. /\ stage[k] = "commit" /\ stage'[k] = "fetch" /\ offset'[k] \in {offset[k], event[k]}
        /\ UNCHANGED <<log, event, processed, sent, handler, link>>
    BY <1>6 DEF Commit, connections
  <2>2. \A j : Done(k, j)' <=> Done(k, j)
    BY <2>1 DEF Done
  <2>3. OrderOf(k)'
    BY <1>0, <2>1, <2>2 DEF OrderOf
  <2>4. QED
    BY <1>0, <2>1, <2>2, <2>3, SentFrame
<1>7. ASSUME Rebalance(k) PROVE OrderOf(k)' /\ \A c \in Clients : Sent(c, k)'
  <2>1. /\ stage[k] = "fetch" /\ event'[k] = offset[k]
        /\ UNCHANGED <<log, stage, offset, processed, sent, handler, link>>
    BY <1>7 DEF Rebalance, connections
  <2>2. \A j : Done(k, j)' <=> Done(k, j)
    BY <2>1 DEF Done
  <2>3. OrderOf(k)'
    BY <1>0, <2>1, <2>2 DEF OrderOf
  <2>4. QED
    BY <1>0, <2>1, <2>2, <2>3, SentFrame
<1>8. ~CheckFails(k) /\ ~MarkFails(k)
  BY DEF Clean, CheckFails, MarkFails
<1>9. ASSUME NEW c \in Clients, Write(k, c) PROVE OrderOf(k)' /\ \A d \in Clients : Sent(d, k)'
  <2>1. /\ stage[k] = "send" /\ c \in todo[k] /\ link[c] # "closed"
        /\ todo'[k] = todo[k] \ {c} /\ sent'[c][k] = Append(sent[c][k], event[k])
        /\ \A d \in Clients : d # c => sent'[d][k] = sent[d][k]
        /\ UNCHANGED <<log, stage, event, offset, processed, handler, link>>
    BY <1>9 DEF Write, connections
  <2>2. \A j : Done(k, j)' <=> Done(k, j)
    BY <2>1 DEF Done
  <2>3. OrderOf(k)'
    BY <1>0, <2>1, <2>2 DEF OrderOf
  <2>4. ASSUME NEW d \in Clients, d # c PROVE Sent(d, k)'
    <3>1. sent'[d][k] = sent[d][k] /\ Sent(d, k)
      BY <1>0, <2>1, <2>4
    <3>2. d \notin todo[k] => d \notin todo'[k]
      BY <2>1
    <3>3. QED
      BY <2>1, <2>2, <3>1, <3>2 DEF Sent
  <2>5. Sent(c, k)'
    <3> DEFINE s == sent[c][k]
               n == Len(s)
    <3>1. s \in Seq(Nat) /\ n \in Nat /\ event[k] \in Nat /\ event[k] > 0
      BY <1>0, <2>1
    <3>2. handler[c] # "none"
      BY <2>1 DEF Known
    <3>3. \A i \in 1..n : /\ s[i] \in Nat /\ s[i] > 0 /\ log[k][s[i]].type # "other"
                         /\ \A j \in 1..s[i] : Done(k, j)
      BY <1>0, <2>1, <3>1 DEF Sent
    <3>4. log[k][event[k]].type # "other" /\ log[k][event[k]].id \notin processed[k]
      BY <1>0, <2>1 DEF OrderOf, Done
    <3>5. \A i \in 1..n : s[i] < event[k] /\ log[k][s[i]].id # log[k][event[k]].id
      <4> TAKE i \in 1..n
      <4>1. Done(k, s[i])
        BY <3>3
      <4>2. ~(event[k] \in 1..s[i])
        BY <3>3, <3>4 DEF Done
      <4>3. QED
        BY <3>1, <3>3, <3>4, <4>1, <4>2 DEF Done
    <3>6. /\ DOMAIN sent'[c][k] = 1..(n + 1)
          /\ \A i \in 1..n : sent'[c][k][i] = s[i]
          /\ sent'[c][k][n + 1] = event[k]
      BY <2>1, <3>1
    <3>7. \A i, j \in 1..n : i < j => s[i] < s[j] /\ log[k][s[i]].id # log[k][s[j]].id
      BY <1>0, <3>1, SMTT(30) DEF Sent
    <3> HIDE DEF s, n
    <3>8. \A i \in DOMAIN sent'[c][k] :
            /\ sent'[c][k][i] > 0 /\ log[k][sent'[c][k][i]].type # "other"
            /\ (\A j \in 1..sent'[c][k][i] : Done(k, j)) \/ sent'[c][k][i] = event[k]
      <4> TAKE i \in DOMAIN sent'[c][k]
      <4>1. i \in 1..n \/ i = n + 1
        BY <3>1, <3>6
      <4>2. QED
        BY <3>1, <3>3, <3>4, <3>6, <4>1
    <3>9. ASSUME NEW i \in DOMAIN sent'[c][k], NEW j \in DOMAIN sent'[c][k], i < j
          PROVE  /\ sent'[c][k][i] < sent'[c][k][j]
                 /\ log[k][sent'[c][k][i]].id # log[k][sent'[c][k][j]].id
      <4>1. i \in 1..n /\ (j \in 1..n \/ j = n + 1)
        BY <3>1, <3>6, <3>9
      <4>2. CASE j = n + 1
        BY <3>5, <3>6, <4>1, <4>2
      <4>3. CASE j \in 1..n
        <5>1. s[i] < s[j] /\ log[k][s[i]].id # log[k][s[j]].id
          BY <3>7, <3>9, <4>1, <4>3
        <5>2. QED
          BY <3>6, <4>1, <4>3, <5>1
      <4>4. QED
        BY <4>1, <4>2, <4>3
    <3>10. QED
      BY <2>1, <2>2, <3>2, <3>8, <3>9, SMTT(30) DEF Sent
  <2>6. QED
    BY <2>3, <2>4, <2>5
<1>10. ASSUME NEW c \in Clients, WriteFails(k, c) PROVE OrderOf(k)' /\ \A d \in Clients : Sent(d, k)'
  <2>1. /\ stage[k] = "send" /\ todo'[k] = todo[k] \ {c}
        /\ \A d \in Clients : link[d] = "closed" => link'[d] = "closed"
        /\ UNCHANGED <<log, stage, event, offset, processed, sent, handler>>
    BY <1>10 DEF WriteFails, ConnectionTypes
  <2>2. \A j : Done(k, j)' <=> Done(k, j)
    BY <2>1 DEF Done
  <2>3. OrderOf(k)'
    BY <1>0, <2>1, <2>2 DEF OrderOf
  <2>4. \A d \in Clients : Sent(d, k)'
    BY <1>0, <2>1, <2>2 DEF Sent
  <2>5. QED
    BY <2>3, <2>4
<1>11. QED
  BY <1>1, <1>2, <1>3, <1>4, <1>5, <1>6, <1>7, <1>8, <1>9, <1>10 DEF Consume

LEMMA OrderingStep == TypeOK /\ TypeOK' /\ Known /\ Ordering /\ [Next]_vars => Ordering'
<1> SUFFICES ASSUME TypeOK, TypeOK', Known, Ordering, [Next]_vars, Clean', NEW t \in Topics
             PROVE  OrderOf(t)' /\ \A c \in Clients : Sent(c, t)'
  BY DEF Ordering
<1>0. Clean /\ UNCHANGED log
  BY DEF Clean, Next, Connection, Join, Count, RemoveClient, Leave, Notice, Consume, Fetch,
         SkipOther, AlreadyProcessed, Snapshot, EndBroadcast, Mark, Commit, Write, WriteFails,
         CheckFails, MarkFails, Rebalance, Restart, vars
<1>1. ASSUME NEW c \in Clients, Connection(c) PROVE OrderOf(t)' /\ \A d \in Clients : Sent(d, t)'
  <2>1. UNCHANGED <<stage, event, offset, todo, processed, sent>>
    BY <1>1 DEF Connection, Join, Count, RemoveClient, Leave, Notice, consumers
  <2>2. \A d \in Clients : /\ handler'[d] = "none" => handler[d] = "none"
                           /\ link[d] = "closed" => link'[d] = "closed"
    BY <1>1 DEF TypeOK, ConnectionTypes, Connection, Join, Count, RemoveClient, Leave, Notice
  <2>3. QED
    BY <1>0, <2>1, <2>2, OrderFrame
<1>2. ASSUME NEW k \in Topics, Consume(k) \/ CheckFails(k) \/ MarkFails(k) \/ Rebalance(k)
      PROVE  OrderOf(t)' /\ \A d \in Clients : Sent(d, t)'
  <2>1. CASE t = k
    BY <1>0, <1>2, <2>1, ConsumerOrder
  <2>2. CASE t # k
    <3>1. /\ stage'[t] = stage[t] /\ event'[t] = event[t] /\ offset'[t] = offset[t]
          /\ todo'[t] = todo[t] /\ processed'[t] = processed[t] /\ UNCHANGED handler
      BY <1>2, <2>2
      DEF TypeOK, ConsumerTypes, Positions, connections, Consume, Fetch, SkipOther, AlreadyProcessed,
          Snapshot, EndBroadcast, Mark, Commit, Write, WriteFails, CheckFails, MarkFails, Rebalance
    <3>2. \A d \in Clients : sent'[d][t] = sent[d][t]
      BY <1>2, <2>2
      DEF TypeOK, ConsumerTypes, Consume, Fetch, SkipOther, AlreadyProcessed, Snapshot,
          EndBroadcast, Mark, Commit, Write, WriteFails, CheckFails, MarkFails, Rebalance
    <3>3. \A d \in Clients : link[d] = "closed" => link'[d] = "closed"
      BY <1>2
      DEF TypeOK, ConnectionTypes, connections, Consume, Fetch, SkipOther, AlreadyProcessed,
          Snapshot, EndBroadcast, Mark, Commit, Write, WriteFails, CheckFails, MarkFails, Rebalance
    <3>4. QED
      BY <1>0, <3>1, <3>2, <3>3, OrderFrame
  <2>3. QED
    BY <2>1, <2>2
<1>3. ASSUME Restart PROVE OrderOf(t)' /\ \A d \in Clients : Sent(d, t)'
  <2>1. /\ OrderOf(t) /\ \A d \in Clients : Sent(d, t)
        /\ stage'[t] = "fetch" /\ event'[t] = offset[t] /\ UNCHANGED <<log, offset, processed, sent>>
        /\ \A d \in Clients : handler'[d] = "none" \/ link'[d] = "closed"
        /\ \A d \in Clients : handler'[d] = "none" => handler[d] = "none"
    BY <1>0, <1>3 DEF Ordering, Restart
  <2>2. \A j : Done(t, j)' <=> Done(t, j)
    BY <2>1 DEF Done
  <2>3. OrderOf(t)'
    BY <2>1, <2>2 DEF OrderOf
  <2>4. ASSUME NEW d \in Clients PROVE Sent(d, t)'
    <3>1. CASE handler'[d] = "none"
      BY <2>1, <3>1 DEF Sent
    <3>2. CASE handler'[d] # "none"
      BY <2>1, <3>2 DEF Sent
    <3>3. QED
      BY <3>1, <3>2
  <2>5. QED
    BY <2>3, <2>4
<1>4. CASE UNCHANGED vars
  BY <1>0, <1>4, OrderFrame DEF vars, connections, consumers
<1>5. QED
  BY <1>1, <1>2, <1>3, <1>4 DEF Next

(***************************************************************************)
(* The theorems                                                            *)
(***************************************************************************)
IInv == TypeOK /\ Known /\ Offering /\ gauge >= Cardinality(Serving) /\ Ordering

LEMMA InitIInv == Init => IInv
<1> SUFFICES ASSUME Init PROVE IInv
  OBVIOUS
<1>1. TypeOK
  BY InitType
<1>2. Known /\ Offering
  BY DEF Init, Known, Offering
<1>3. gauge >= Cardinality(Serving)
  <2>1. Serving = {} /\ gauge = 0
    BY DEF Init, Serving
  <2>2. QED
    BY <2>1, FS_EmptySet
<1>4. Ordering
  BY DEF Init, Ordering, OrderOf, Sent
<1>5. QED
  BY <1>1, <1>2, <1>3, <1>4 DEF IInv

\* The feed keeps its inductive invariant, for any topics, clients and events.
THEOREM Inductive == Spec => []IInv
<1>1. IInv /\ [Next]_vars => IInv'
  BY TypeStep, KnownStep, OfferingStep, GaugeStep, OrderingStep DEF IInv
<1>2. QED
  BY <1>1, InitIInv, PTL DEF Spec

\* Offsets never run ahead of the events handled.
THEOREM TypeCorrect == Spec => []TypeOK
<1>1. IInv => TypeOK
  BY DEF IInv
<1>2. QED
  BY <1>1, Inductive, PTL

\* One slow connection keeps no other from an event.
THEOREM EveryClientOffered == Spec => []OfferedToAll
<1>1. IInv => OfferedToAll
  BY DEF IInv, TypeOK, ConsumerTypes, Offering, OfferedToAll, Got
<1>2. QED
  BY <1>1, Inductive, PTL

\* However many goroutines remove a client, the gauge covers those it counted.
THEOREM GaugeCovers == Spec => []NeverUndercounts
<1>1. IInv => NeverUndercounts
  BY DEF IInv, NeverUndercounts, Serving
<1>2. QED
  BY <1>1, Inductive, PTL

\* Restarts and rebalances show a connection no event twice or out of order
\* while processed_events works.
THEOREM EventsInOrderOnce == Spec => []InOrderOnce
<1>1. IInv => InOrderOnce
  BY DEF IInv, InOrderOnce, Ordering, Sent, Clean
<1>2. QED
  BY <1>1, Inductive, PTL

=============================================================================

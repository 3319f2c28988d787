--------------------------------- MODULE Feed ---------------------------------
(***************************************************************************)
(* The websocket-service: two consumers, one of each topic, broadcast what *)
(* they read to the connected browsers and mark it in processed_events;    *)
(* one goroutine per connection pings it and removes it.                   *)
(*                                                                         *)
(* broadcast takes a snapshot of the clients under the lock and writes to  *)
(* them outside it, in any order.  readLoop changes nothing when it ends.  *)
(* A consumer commits its offset after each event it is done with.         *)
(***************************************************************************)
EXTENDS Integers, Sequences, FiniteSets

CONSTANTS
  Clients,     \* connections that browsers may open
  Topics,
  Ids,         \* of events
  MaxBacks,    \* bound: rebalances and restarts
  Scenarios    \* initial choices of what is in the topics and what may go wrong

AllFaults ==
  {"leave",     \* a browser goes away
   "slow",      \* a write to a connection passes its deadline
   "dbfail",    \* the event cannot be looked up in processed_events
   "markfail",  \* the event is not marked, or marked with an error reported
   "nocommit",  \* the offset is not committed
   "rebalance", \* a consumer rejoins its group and resumes at its offset
   "restart"}   \* the process dies and starts again

Types == {"TRADE", "ORDER_UPDATE", "ORDER_CANCELLED", "other"}

Events == [id : Ids, type : Types]

ASSUME ScenariosAssumption ==
  \A s \in Scenarios : s.faults \in SUBSET AllFaults /\ s.log \in [Topics -> Seq(Events)]
ASSUME BoundsAssumption  == MaxBacks \in Nat
ASSUME ClientsAssumption == IsFiniteSet(Clients)

VARIABLES
  log,        \* the events of each topic
  faults,     \* the faults that may happen in this behaviour
  backs,      \* rebalances and restarts so far
  clients,    \* the registered clients
  gauge,      \* websocket_connections and WebsocketClientsActive
  handler,    \* the goroutine of each connection
  link,       \* each connection: "up", "lost" (unnoticed) or "closed"
  stage,      \* what each consumer does next
  event,      \* position of the event it handles, or of the last one
  offset,     \* the committed offset
  snapshot,   \* the clients of the current broadcast
  todo,       \* those not written to yet
  failed,     \* those whose write failed
  processed,  \* the ids marked in processed_events
  sent        \* positions written to each connection, in order

connections == <<clients, gauge, handler, link>>
consumers   == <<stage, event, offset, snapshot, todo, failed, processed>>
vars        == <<log, faults, backs, connections, consumers, sent>>

Handlers == {"none", "joining", "serving", "gone"}
Stages   == {"fetch", "check", "send", "mark", "commit"}
Current(k) == log[k][event[k]]

Init ==
  /\ \E s \in Scenarios : log = s.log /\ faults = s.faults
  /\ backs = 0
  /\ clients = {} /\ gauge = 0
  /\ handler = [c \in Clients |-> "none"]
  /\ link    = [c \in Clients |-> "up"]
  /\ stage   = [k \in Topics |-> "fetch"]
  /\ event   = [k \in Topics |-> 0]
  /\ offset  = [k \in Topics |-> 0]
  /\ snapshot = [k \in Topics |-> {}]
  /\ todo     = [k \in Topics |-> {}]
  /\ failed   = [k \in Topics |-> {}]
  /\ processed = [k \in Topics |-> {}]
  /\ sent = [c \in Clients |-> [k \in Topics |-> <<>>]]

-----------------------------------------------------------------------------
(* Connections *)

\* handleConnections: the client is registered under the lock and counted later.
Join(c) ==
  /\ handler[c] = "none"
  /\ clients' = clients \cup {c}
  /\ handler' = [handler EXCEPT ![c] = "joining"]
  /\ UNCHANGED <<log, faults, backs, gauge, link, consumers, sent>>

Count(c) ==
  /\ handler[c] = "joining"
  /\ gauge'   = gauge + 1
  /\ handler' = [handler EXCEPT ![c] = "serving"]
  /\ UNCHANGED <<log, faults, backs, clients, link, consumers, sent>>

\* Mutant of RemoveClient: the connection is closed and stays in the map.
CloseClient(c) ==
  /\ handler[c] = "serving"
  /\ link[c] # "up" \/ "slow" \in faults
  /\ handler' = [handler EXCEPT ![c] = "gone"]
  /\ link'    = [link    EXCEPT ![c] = "closed"]
  /\ UNCHANGED <<log, faults, backs, clients, gauge, consumers, sent>>

\* A ping can be written to a connection that nobody reads any more, until the
\* network reports it.
PingFails(c) ==
  /\ handler[c] = "serving"
  /\ link[c] # "up" \/ "slow" \in faults

\* Mutant of RemoveClient: count down.
RemoveClientCountingDown(c) ==
  /\ PingFails(c)
  /\ clients' = clients \ {c}
  /\ gauge'   = gauge - 1
  /\ handler' = [handler EXCEPT ![c] = "gone"]
  /\ link'    = [link    EXCEPT ![c] = "closed"]
  /\ UNCHANGED <<log, faults, backs, consumers, sent>>

\* The ping goroutine ends: removeClient.
RemoveClient(c) ==
  /\ PingFails(c)
  /\ clients' = clients \ {c}
  /\ gauge'   = Cardinality(clients')
  /\ handler' = [handler EXCEPT ![c] = "gone"]
  /\ link'    = [link    EXCEPT ![c] = "closed"]
  /\ UNCHANGED <<log, faults, backs, consumers, sent>>

\* The browser goes away; later the network reports it.
Leave(c) ==
  /\ "leave" \in faults
  /\ handler[c] # "none" /\ link[c] = "up"
  /\ link' = [link EXCEPT ![c] = "lost"]
  /\ UNCHANGED <<log, faults, backs, clients, gauge, handler, consumers, sent>>

Notice(c) ==
  /\ link[c] = "lost"
  /\ link' = [link EXCEPT ![c] = "closed"]
  /\ UNCHANGED <<log, faults, backs, clients, gauge, handler, consumers, sent>>

-----------------------------------------------------------------------------
(* Consumers *)

\* Mutant of Fetch: the offset is committed when the event is read.
FetchAndCommit(k) ==
  /\ stage[k] = "fetch" /\ event[k] < Len(log[k])
  /\ event'  = [event  EXCEPT ![k] = @ + 1]
  /\ offset' = [offset EXCEPT ![k] = event[k] + 1]
  /\ stage'  = [stage  EXCEPT ![k] = "check"]
  /\ UNCHANGED <<log, faults, backs, connections, snapshot, todo, failed, processed, sent>>

Fetch(k) ==
  /\ stage[k] = "fetch" /\ event[k] < Len(log[k])
  /\ event' = [event EXCEPT ![k] = @ + 1]
  /\ stage' = [stage EXCEPT ![k] = "check"]
  /\ UNCHANGED <<log, faults, backs, connections, offset, snapshot, todo, failed, processed, sent>>

\* buildOrderEventMessage has no message for the event: only its offset matters.
SkipOther(k) ==
  /\ stage[k] = "check" /\ Current(k).type = "other"
  /\ stage' = [stage EXCEPT ![k] = "commit"]
  /\ UNCHANGED <<log, faults, backs, connections, event, offset, snapshot, todo, failed, processed, sent>>

\* processEvent returns an error; the consumer goes on with the next event.
CheckFails(k) ==
  /\ stage[k] = "check" /\ Current(k).type # "other"
  /\ "dbfail" \in faults
  /\ stage' = [stage EXCEPT ![k] = "fetch"]
  /\ UNCHANGED <<log, faults, backs, connections, event, offset, snapshot, todo, failed, processed, sent>>

AlreadyProcessed(k) ==
  /\ stage[k] = "check" /\ Current(k).type # "other"
  /\ Current(k).id \in processed[k]
  /\ stage' = [stage EXCEPT ![k] = "commit"]
  /\ UNCHANGED <<log, faults, backs, connections, event, offset, snapshot, todo, failed, processed, sent>>

\* Mutant of Snapshot: the lookup in processed_events is left out.
SnapshotAny(k) ==
  /\ stage[k] = "check" /\ Current(k).type # "other"
  /\ snapshot' = [snapshot EXCEPT ![k] = clients]
  /\ todo'     = [todo     EXCEPT ![k] = clients]
  /\ stage'    = [stage    EXCEPT ![k] = "send"]
  /\ UNCHANGED <<log, faults, backs, connections, event, offset, failed, processed, sent>>

\* The event is new: broadcast begins.
Snapshot(k) ==
  /\ stage[k] = "check" /\ Current(k).type # "other"
  /\ Current(k).id \notin processed[k]
  /\ snapshot' = [snapshot EXCEPT ![k] = clients]
  /\ todo'     = [todo     EXCEPT ![k] = clients]
  /\ stage'    = [stage    EXCEPT ![k] = "send"]
  /\ UNCHANGED <<log, faults, backs, connections, event, offset, failed, processed, sent>>

Write(k, c) ==
  /\ stage[k] = "send" /\ c \in todo[k]
  /\ link[c] # "closed"
  /\ todo' = [todo EXCEPT ![k] = @ \ {c}]
  /\ sent' = [sent EXCEPT ![c][k] = Append(@, event[k])]
  /\ UNCHANGED <<log, faults, backs, connections, stage, event, offset, snapshot, failed, processed>>

\* Mutant of WriteFails: the loop over the snapshot ends at the first failure.
WriteFailsAndStops(k, c) ==
  /\ stage[k] = "send" /\ c \in todo[k]
  /\ link[c] # "up" \/ "slow" \in faults
  /\ todo'   = [todo   EXCEPT ![k] = {}]
  /\ failed' = [failed EXCEPT ![k] = @ \cup {c}]
  /\ link'   = [link   EXCEPT ![c] = "closed"]
  /\ UNCHANGED <<log, faults, backs, clients, gauge, handler, stage, event, offset, snapshot, processed, sent>>

WriteFails(k, c) ==
  /\ stage[k] = "send" /\ c \in todo[k]
  /\ link[c] # "up" \/ "slow" \in faults
  /\ todo'   = [todo   EXCEPT ![k] = @ \ {c}]
  /\ failed' = [failed EXCEPT ![k] = @ \cup {c}]
  /\ link'   = [link   EXCEPT ![c] = "closed"]
  /\ UNCHANGED <<log, faults, backs, clients, gauge, handler, stage, event, offset, snapshot, processed, sent>>

\* The end of broadcast: clients that failed are removed.
EndBroadcast(k) ==
  /\ stage[k] = "send" /\ todo[k] = {}
  /\ clients' = clients \ failed[k]
  /\ gauge'   = IF failed[k] = {} THEN gauge ELSE Cardinality(clients')
  /\ failed'  = [failed EXCEPT ![k] = {}]
  /\ stage'   = [stage EXCEPT ![k] = "mark"]
  /\ UNCHANGED <<log, faults, backs, handler, link, event, offset, snapshot, todo, processed, sent>>

Mark(k) ==
  /\ stage[k] = "mark"
  /\ processed' = [processed EXCEPT ![k] = @ \cup {Current(k).id}]
  /\ snapshot'  = [snapshot  EXCEPT ![k] = {}]
  /\ stage'     = [stage     EXCEPT ![k] = "commit"]
  /\ UNCHANGED <<log, faults, backs, connections, event, offset, todo, failed, sent>>

MarkFails(k) ==
  /\ stage[k] = "mark" /\ "markfail" \in faults
  /\ \/ UNCHANGED processed
     \/ processed' = [processed EXCEPT ![k] = @ \cup {Current(k).id}]
  /\ snapshot' = [snapshot EXCEPT ![k] = {}]
  /\ stage'    = [stage    EXCEPT ![k] = "fetch"]
  /\ UNCHANGED <<log, faults, backs, connections, event, offset, todo, failed, sent>>

\* A committed offset stands for all events before it, skipped ones included.
Commit(k) ==
  /\ stage[k] = "commit"
  /\ \/ offset' = [offset EXCEPT ![k] = event[k]]
     \/ "nocommit" \in faults /\ UNCHANGED offset
  /\ stage' = [stage EXCEPT ![k] = "fetch"]
  /\ UNCHANGED <<log, faults, backs, connections, event, snapshot, todo, failed, processed, sent>>

Rebalance(k) ==
  /\ "rebalance" \in faults /\ backs < MaxBacks
  /\ stage[k] = "fetch" /\ event[k] # offset[k]
  /\ event' = [event EXCEPT ![k] = offset[k]]
  /\ backs' = backs + 1
  /\ UNCHANGED <<log, faults, connections, stage, offset, snapshot, todo, failed, processed, sent>>

\* The connections die with the process; browsers may open others.
Restart ==
  /\ "restart" \in faults /\ backs < MaxBacks
  /\ backs' = backs + 1
  /\ clients' = {} /\ gauge' = 0
  /\ handler' = [c \in Clients |-> IF handler[c] = "none" THEN "none" ELSE "gone"]
  /\ link'    = [c \in Clients |-> IF handler[c] = "none" THEN "up" ELSE "closed"]
  /\ stage'   = [k \in Topics |-> "fetch"]
  /\ event'   = offset
  /\ snapshot' = [k \in Topics |-> {}]
  /\ todo'     = [k \in Topics |-> {}]
  /\ failed'   = [k \in Topics |-> {}]
  /\ UNCHANGED <<log, faults, offset, processed, sent>>

-----------------------------------------------------------------------------
Connection(c) == Join(c) \/ Count(c) \/ RemoveClient(c) \/ Leave(c) \/ Notice(c)

\* processEvent and the loop around it, when nothing fails.
Consume(k) ==
  \/ Fetch(k) \/ SkipOther(k) \/ AlreadyProcessed(k) \/ Snapshot(k)
  \/ EndBroadcast(k) \/ Mark(k) \/ Commit(k)
  \/ \E c \in Clients : Write(k, c) \/ WriteFails(k, c)

Next ==
  \/ \E c \in Clients : Connection(c)
  \/ \E k \in Topics  : Consume(k) \/ CheckFails(k) \/ MarkFails(k) \/ Rebalance(k)
  \/ Restart

\* Goroutines run; the ticker fires; TCP reports a peer that is gone.
Fairness ==
  /\ \A c \in Clients : WF_vars(Count(c)) /\ WF_vars(RemoveClient(c)) /\ WF_vars(Notice(c))
  /\ \A k \in Topics  : WF_vars(Consume(k))

Spec == Init /\ [][Next]_vars /\ Fairness

-----------------------------------------------------------------------------
(* Properties *)

ConnectionTypes ==
  /\ clients \in SUBSET Clients
  /\ gauge   \in Int
  /\ handler \in [Clients -> Handlers]
  /\ link    \in [Clients -> {"up", "lost", "closed"}]

ConsumerTypes ==
  /\ stage    \in [Topics -> Stages]
  /\ snapshot \in [Topics -> SUBSET Clients]
  /\ todo     \in [Topics -> SUBSET Clients]
  /\ failed   \in [Topics -> SUBSET Clients]
  /\ processed \in [Topics -> SUBSET Ids]
  /\ sent \in [Clients -> [Topics -> Seq(Nat)]]

Positions ==
  /\ log    \in [Topics -> Seq(Events)]
  /\ event  \in [Topics -> Nat]
  /\ offset \in [Topics -> Nat]
  /\ \A k \in Topics :
       /\ event[k] <= Len(log[k])
       /\ offset[k] <= event[k]
       /\ stage[k] # "fetch" => event[k] > 0

TypeOK ==
  /\ faults \in SUBSET AllFaults
  /\ backs \in 0..MaxBacks
  /\ ConnectionTypes /\ ConsumerTypes /\ Positions

\* A slow or broken connection keeps no other from an event: before an event is
\* marked, each client of the snapshot has been written to or is removed.
OfferedToAll ==
  \A k \in Topics : stage[k] = "mark" =>
    \A c \in snapshot[k] \cap clients :
      \E i \in DOMAIN sent[c][k] : sent[c][k][i] = event[k]

\* A connection gets the events of a topic in order and each id once, whatever
\* the relay and Kafka deliver again, unless processed_events cannot be read or
\* written.
InOrderOnce ==
  {"dbfail", "markfail"} \cap faults = {} =>
    \A c \in Clients, k \in Topics : \A i, j \in DOMAIN sent[c][k] :
      i < j => /\ sent[c][k][i] < sent[c][k][j]
               /\ log[k][sent[c][k][i]].id # log[k][sent[c][k][j]].id

\* The gauge of connections never falls short of the clients it has counted,
\* although consumers and ping goroutines remove the same client.
NeverUndercounts ==
  gauge >= Cardinality({c \in clients : handler[c] = "serving"})

\* A connection that breaks is removed in the end, events or no events.
BrokenClientsLeave ==
  \A c \in Clients : link[c] # "up" ~> c \notin clients

\* Each event is marked in the end, over restarts and redelivery, unless the
\* database fails: then the offset of a later event passes over it.
EventsMarked ==
  {"dbfail", "markfail"} \cap faults = {} =>
    <>(\A k \in Topics : \A i \in DOMAIN log[k] :
         log[k][i].type # "other" => log[k][i].id \in processed[k])

=============================================================================

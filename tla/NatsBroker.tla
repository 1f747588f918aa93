------------------------------- MODULE NatsBroker ------------------------------
(******************************************************************************)
(* The JetStream broker of several server nodes: durable consumers that keep  *)
(* their position while a node is away, acknowledgement after the handler,    *)
(* lost connections, crashes and restarts under the same node id.             *)
(*                                                                            *)
(* The stream is external.  It keeps an event for every durable consumer that *)
(* existed when it was stored, until that consumer acknowledges it or the     *)
(* event is too old, and hands an event to one consumer of a durable at a     *)
(* time.                                                                      *)
(*                                                                            *)
(*   process[n]  down -> open (NewNATSBroker) -> stopping (Close) -> down      *)
(******************************************************************************)
EXTENDS Naturals, Sequences

CONSTANTS
    Node,
    NodeID,       \* the id of each node, a sequence of characters
    Event,        \* events that are published
    NoEvent,      \* not an event
    MaxFaults     \* bound: crashes, disconnections and lost acknowledgements

ASSUME NodeIDAssumption == DOMAIN NodeID = Node
ASSUME EventAssumption == NoEvent \notin Event
ASSUME FaultsAssumption == MaxFaults \in Nat

VARIABLES
    process,      \* the node's process and its broker
    connected,    \* b.conn.IsConnected()
    consuming,    \* Consume is running
    holding,      \* the event the consume callback was given, or NoEvent
    done,         \* its handler has returned
    durables,     \* names of the durable consumers of the stream
    backlog,      \* events the stream keeps for each durable
    faults,       \* faults so far
    stored, expired, owed, handled
      \* history: events stored, events too old, and for each node those stored
      \* while its durable existed and those its handler was called with

stream == <<durables, backlog, stored, expired, owed>>
client == <<process, connected, consuming, holding, done>>
nats == <<client, stream, faults, handled>>

\* sanitizeConsumerName.
sanitize(name) ==
    [i \in DOMAIN name |-> IF name[i] \in {".", ">", "*", " "} THEN "-" ELSE name[i]]

Subject == <<"blockforge", ".", ">">>

\* Mutant of DurableName: one durable for all nodes.
SharedName(n) == sanitize(<<"blockforge-node-">> \o Subject)

\* The durable consumer of a node.
DurableName(n) == sanitize(<<"blockforge-node-">> \o NodeID[n] \o <<"-">> \o Subject)

Names == {DurableName(n) : n \in Node}

NatsInit ==
    /\ process = [n \in Node |-> "down"]
    /\ connected = [n \in Node |-> FALSE] /\ consuming = [n \in Node |-> FALSE]
    /\ holding = [n \in Node |-> NoEvent] /\ done = [n \in Node |-> FALSE]
    /\ durables = {} /\ backlog = [d \in Names |-> {}]
    /\ stored = {} /\ expired = {} /\ faults = 0
    /\ owed = [n \in Node |-> {}] /\ handled = [n \in Node |-> {}]

Fault == faults < MaxFaults /\ faults' = faults + 1

--------------------------------------------------------------------------------
\* NewNATSBroker: connected, and the stream exists.
NewNATSBroker(n) ==
    /\ process[n] = "down"
    /\ process' = [process EXCEPT ![n] = "open"]
    /\ connected' = [connected EXCEPT ![n] = TRUE]
    /\ UNCHANGED <<consuming, holding, done, stream, faults, handled>>

\* Subscribe: the durable is created, or found where it was, and consumed.
NatsSubscribe(n) ==
    /\ process[n] = "open" /\ connected[n] /\ ~ consuming[n]
    /\ durables' = durables \cup {DurableName(n)}
    /\ consuming' = [consuming EXCEPT ![n] = TRUE]
    /\ UNCHANGED <<process, connected, holding, done, backlog, stored, expired, owed, faults, handled>>

\* The stream stores an event for the durables there are.
Store(e) ==
    /\ stored' = stored \cup {e}
    /\ backlog' = [d \in Names |-> IF d \in durables THEN backlog[d] \cup {e} ELSE backlog[d]]
    /\ owed' = [n \in Node |-> IF DurableName(n) \in durables THEN owed[n] \cup {e} ELSE owed[n]]
    /\ UNCHANGED <<durables, expired>>

\* Publish: stored, with or without the caller knowing; or refused because the
\* broker is closed or not connected, which changes nothing.
NatsPublish(n, e) ==
    /\ process[n] = "open" /\ connected[n] /\ e \notin stored
    /\ Store(e)
    /\ UNCHANGED <<client, faults, handled>>

\* Mutant of Deliver: the event counts as acknowledged once it is delivered.
DeliverForgetting(n) ==
    /\ consuming[n] /\ connected[n] /\ holding[n] = NoEvent
    /\ \E e \in backlog[DurableName(n)] :
         /\ holding' = [holding EXCEPT ![n] = e]
         /\ done' = [done EXCEPT ![n] = FALSE]
         /\ backlog' = [backlog EXCEPT ![DurableName(n)] = @ \ {e}]
    /\ UNCHANGED <<process, connected, consuming, durables, stored, expired, owed, faults, handled>>

\* The stream hands the consumer an event that no other consumer of the durable
\* is working on.
Deliver(n) ==
    /\ consuming[n] /\ connected[n] /\ holding[n] = NoEvent
    /\ \E e \in backlog[DurableName(n)] :
         /\ \A m \in Node : DurableName(m) = DurableName(n) => holding[m] # e
         /\ holding' = [holding EXCEPT ![n] = e]
         /\ done' = [done EXCEPT ![n] = FALSE]
    /\ UNCHANGED <<process, connected, consuming, stream, faults, handled>>

\* handler(msg.Subject(), msg.Data()).
Handle(n) ==
    /\ holding[n] # NoEvent /\ ~ done[n]
    /\ handled' = [handled EXCEPT ![n] = @ \cup {holding[n]}]
    /\ done' = [done EXCEPT ![n] = TRUE]
    /\ UNCHANGED <<process, connected, consuming, holding, stream, faults>>

\* msg.Ack, whose error is dropped: the stream forgets the event for this durable.
Ack(n) ==
    /\ holding[n] # NoEvent /\ done[n] /\ connected[n]
    /\ backlog' = [backlog EXCEPT ![DurableName(n)] = @ \ {holding[n]}]
    /\ holding' = [holding EXCEPT ![n] = NoEvent]
    /\ UNCHANGED <<process, connected, consuming, done, durables, stored, expired, owed, faults, handled>>

\* The acknowledgement is lost, or cannot be sent: the event will come again.
AckLost(n) ==
    /\ holding[n] # NoEvent /\ done[n]
    /\ IF connected[n] THEN Fault ELSE UNCHANGED faults
    /\ holding' = [holding EXCEPT ![n] = NoEvent]
    /\ UNCHANGED <<process, connected, consuming, done, stream, handled>>

\* The connection is lost; it is retried for ever.
Disconnect(n) ==
    /\ process[n] = "open" /\ connected[n] /\ Fault
    /\ connected' = [connected EXCEPT ![n] = FALSE]
    /\ UNCHANGED <<process, consuming, holding, done, stream, handled>>

Reconnect(n) ==
    /\ process[n] = "open" /\ ~ connected[n]
    /\ connected' = [connected EXCEPT ![n] = TRUE]
    /\ UNCHANGED <<process, consuming, holding, done, stream, faults, handled>>

\* Close, once: every consume context is stopped, which does not wait for its
\* callback ...
NatsClose(n) ==
    /\ process[n] = "open" /\ Fault
    /\ process' = [process EXCEPT ![n] = "stopping"]
    /\ consuming' = [consuming EXCEPT ![n] = FALSE]
    /\ UNCHANGED <<connected, holding, done, stream, handled>>

\* The process is gone, and with it its connection and its callback.
Gone(n) ==
    /\ process' = [process EXCEPT ![n] = "down"]
    /\ connected' = [connected EXCEPT ![n] = FALSE]
    /\ consuming' = [consuming EXCEPT ![n] = FALSE]
    /\ holding' = [holding EXCEPT ![n] = NoEvent]
    /\ UNCHANGED <<done, stream, handled>>

\* ... and the connection is closed.
Exit(n) == process[n] = "stopping" /\ Gone(n) /\ UNCHANGED faults

\* The process dies.
Crash(n) == process[n] = "open" /\ Gone(n) /\ Fault

\* MaxAge: the stream drops an event.
Expire(e) ==
    /\ e \in stored \ expired
    /\ expired' = expired \cup {e}
    /\ backlog' = [d \in Names |-> backlog[d] \ {e}]
    /\ UNCHANGED <<client, durables, stored, owed, faults, handled>>

NodeStep(n) ==
    \/ NewNATSBroker(n) \/ NatsSubscribe(n) \/ Reconnect(n)
    \/ Deliver(n) \/ Handle(n) \/ Ack(n)
    \/ Exit(n)

NatsNext ==
    \/ \E n \in Node :
         \/ NodeStep(n)
         \/ \E e \in Event : NatsPublish(n, e)
         \/ AckLost(n) \/ Disconnect(n) \/ NatsClose(n) \/ Crash(n)
    \/ \E e \in Event : Expire(e)

--------------------------------------------------------------------------------
(* Properties. *)

\* No other node's id gives the same durable name.
OwnName(n) == \A m \in Node \ {n} : DurableName(m) # DurableName(n)

\* An event that was stored after a node first subscribed has been handled by
\* the node, is kept for it, or is too old: crashes between delivery, handler
\* and acknowledgement, and restarts, lose nothing.
NothingDropped ==
    \A n \in Node : OwnName(n) =>
        owed[n] \subseteq handled[n] \cup backlog[DurableName(n)] \cup expired

\* And every node handles it eventually, unless it gets too old first.
EveryNodeHandles ==
    \A n \in Node, e \in Event : e \in owed[n] ~> e \in handled[n] \cup expired
================================================================================

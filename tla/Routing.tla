-------------------------------- MODULE Routing --------------------------------
(******************************************************************************)
(* Message routing between nodes: room.broadcast and private.send, delivered  *)
(* to local sessions first and to the other nodes through the broker.         *)
(*                                                                            *)
(* A routing operation runs on a goroutine: the reader of the session that    *)
(* sent the command, or the broker consumer of a node.  It takes a snapshot   *)
(* of the recipients under the hub's read lock and sends to them after it has *)
(* released it, while sessions join, leave, are replaced and are closed.      *)
(*                                                                            *)
(*   job[g].stage   idle -> local -> deliver -> publish -> idle    (reader)   *)
(*                  idle -> local -> deliver -> ack -> idle        (consumer) *)
(*                                                                            *)
(* There is one room: rooms do not interact.  The broker is JetStream as      *)
(* nats.go uses it: one durable consumer per node that gets every stored      *)
(* event, one at a time, and again when its acknowledgement is lost.          *)
(******************************************************************************)
EXTENDS Naturals, Sequences, FiniteSets
LOCAL INSTANCE FiniteSetsExt

CONSTANTS
    Node,            \* server processes, each with its own hub
    Conn,            \* connections
    User,            \* users
    None,            \* no session
    NodeOf,          \* the node each connection is on
    UserOf,          \* the user each connection authenticated as
    PublishAllowed,  \* users who may broadcast without being members
    Sender,          \* bound: connections whose peers send commands
    MaxEvents,       \* bound: commands routed
    MaxRedeliveries  \* bound: acknowledgements lost

ASSUME PlacesAssumption == NodeOf \in [Conn -> Node] /\ UserOf \in [Conn -> User]
ASSUME RoutingNoneAssumption == None \notin Conn /\ Conn \cap Node = {}
ASSUME RoutingBoundsAssumption == MaxEvents \in Nat /\ MaxRedeliveries \in Nat
ASSUME PublishAssumption == PublishAllowed \subseteq User /\ Sender \subseteq Conn

VARIABLES
    session,   \* progress of Client.Close for each connection, as in Hub
    clients,   \* per node: user -> registered connection, or None
    members,   \* the connections in the room, on all nodes
    events,    \* the routed commands, in the order they were read
    job,       \* what each goroutine is routing
    stream,    \* per node: stored events its consumer has not acknowledged
    inbox,     \* per connection: the events Send accepted, in order
    reply,     \* how each command was answered
    repeated,  \* history, per node: how often each event was redelivered
    entitled   \* history: who must get each event (see NothingLost)

sessions == <<session, clients, members>>
routing == <<events, job, stream, inbox, reply>>
vars == <<sessions, routing, repeated, entitled>>

Goroutine == Conn \cup Node
EventId == 1..MaxEvents
Event == [type : {"broadcast", "private"}, sender : Conn, to : User \cup {None}]

Idle == [stage |-> "idle", event |-> 0, pending |-> {}, found |-> FALSE, refused |-> FALSE]

Home(g) == IF g \in Node THEN g ELSE NodeOf[g]
EventOf(g) == events[job[g].event]
SenderID(e) == UserOf[events[e].sender]
Origin(e) == NodeOf[events[e].sender]

Init ==
    /\ session = [c \in Conn |-> "none"]
    /\ clients = [n \in Node |-> [u \in User |-> None]]
    /\ members = {}
    /\ events = <<>>
    /\ job = [g \in Goroutine |-> Idle]
    /\ stream = [n \in Node |-> <<>>]
    /\ inbox = [c \in Conn |-> <<>>]
    /\ reply = [e \in EventId |-> "none"]
    /\ repeated = [n \in Node |-> [e \in EventId |-> 0]]
    /\ entitled = [e \in EventId |-> {}]

--------------------------------------------------------------------------------
(******************************************************************************)
(* Sessions come and go: the part of Hub that routing can see.                *)
(******************************************************************************)

\* The sessions in D have no claim on events any more.
Disentitle(D) == entitled' = [e \in EventId |-> entitled[e] \ D]

\* Hub.Register: the displaced session stays open until it is closed.
Register(c) ==
    /\ session[c] = "none"
    /\ session' = [session EXCEPT ![c] = "open"]
    /\ clients' = [clients EXCEPT ![NodeOf[c]][UserOf[c]] = c]
    /\ Disentitle({clients[NodeOf[c]][UserOf[c]]})
    /\ UNCHANGED <<members, routing, repeated>>

\* Hub.Join and Hub.Leave, on the reader of c between two commands.  The one join
\* that may land after Unregister is left to Hub: it adds a member that refuses
\* every event.
Reading(c) == session[c] \in {"open", "closing"} /\ job[c] = Idle

Join(c) ==
    /\ Reading(c)
    /\ members' = members \cup {c}
    /\ UNCHANGED <<session, clients, routing, repeated, entitled>>

Leave(c) ==
    /\ Reading(c)
    /\ members' = members \ {c}
    /\ Disentitle({c})
    /\ UNCHANGED <<session, clients, routing, repeated>>

\* Client.Close, by anybody: from now on Send refuses.
Close(c) ==
    /\ session[c] = "open"
    /\ session' = [session EXCEPT ![c] = "closing"]
    /\ Disentitle({c})
    /\ UNCHANGED <<clients, members, routing, repeated>>

\* Hub.Unregister.
Unregister(c) ==
    /\ session[c] = "closing"
    /\ session' = [session EXCEPT ![c] = "closed"]
    /\ members' = members \ {c}
    /\ clients' = IF clients[NodeOf[c]][UserOf[c]] = c
                  THEN [clients EXCEPT ![NodeOf[c]][UserOf[c]] = None] ELSE clients
    /\ UNCHANGED <<routing, repeated, entitled>>

--------------------------------------------------------------------------------
(******************************************************************************)
(* Reading a command and routing it on the sender's node.                     *)
(******************************************************************************)

\* Whom a broadcast of user u is for, on the node n.
Audience(n, u) == {d \in members : NodeOf[d] = n /\ UserOf[d] # u}

\* Whom a private message to user u is for, on the node n.
Addressee(n, u) == {clients[n][u]} \ {None}

\* The recipients of event ev on node n as the hub of n sees them now.
Recipients(n, ev) ==
    IF ev.type = "broadcast" THEN Audience(n, UserOf[ev.sender]) ELSE Addressee(n, ev.to)

\* AuthorizeBroadcast: a member, or a user with the permission.
AuthorizeBroadcast(c) == c \in members \/ UserOf[c] \in PublishAllowed

\* The reader of c decoded and authorized a command.
ReadCommand(c, ev) ==
    /\ Reading(c)
    /\ Len(events) < MaxEvents
    /\ ev.sender = c /\ c \in Sender
    /\ \/ ev.type = "broadcast" /\ ev.to = None /\ AuthorizeBroadcast(c)
       \/ ev.type = "private" /\ ev.to # None
    /\ events' = Append(events, ev)
    /\ job' = [job EXCEPT ![c] = [Idle EXCEPT !.stage = "local", !.event = Len(events) + 1]]
    /\ entitled' = [entitled EXCEPT ![Len(events) + 1] =
         {d \in UNION {Recipients(n, ev) : n \in Node} : session[d] = "open"}]
    /\ UNCHANGED <<sessions, stream, inbox, reply, repeated>>

\* Mutant of Snapshot: the sender is recognised by its connection.
SnapshotByConnection(g) ==
    /\ job[g].stage = "local"
    /\ LET to == IF EventOf(g).type = "broadcast"
                 THEN {d \in members : NodeOf[d] = Home(g)} \ {EventOf(g).sender}
                 ELSE Addressee(Home(g), EventOf(g).to)
       IN  job' = [job EXCEPT ![g].stage = "deliver", ![g].pending = to, ![g].found = (to # {})]
    /\ UNCHANGED <<sessions, events, stream, inbox, reply, repeated, entitled>>

\* The read-locked section of localBroadcast, SendPrivate, localSendPrivate.
Snapshot(g) ==
    /\ job[g].stage = "local"
    /\ LET to == Recipients(Home(g), EventOf(g))
       IN  job' = [job EXCEPT ![g].stage = "deliver", ![g].pending = to, ![g].found = (to # {})]
    /\ UNCHANGED <<sessions, events, stream, inbox, reply, repeated, entitled>>

\* The goroutine has served its snapshot.
AfterLocal(g) == IF g \in Node THEN "ack" ELSE "publish"

\* newOutboundMessage fails: nothing is delivered here.  A broadcast is published
\* all the same; SendPrivate returns the error, and the reader reports it as an
\* offline recipient.
EventIdFails(g) ==
    LET e == job[g].event
        returns == g \in Conn /\ EventOf(g).type = "private"
    IN
    /\ job[g].stage = "local"
    /\ Recipients(Home(g), EventOf(g)) # {}
    /\ job' = [job EXCEPT ![g] = IF returns THEN Idle ELSE [@ EXCEPT !.stage = AfterLocal(g)]]
    /\ reply' = IF returns THEN [reply EXCEPT ![e] = "offline"] ELSE reply
    /\ entitled' = [entitled EXCEPT ![e] = {d \in @ : ~ returns /\ NodeOf[d] # Home(g)}]
    /\ UNCHANGED <<sessions, events, stream, inbox, repeated>>

\* SendJSON to one recipient of the snapshot: it is accepted by an open session,
\* or is the last straw for a full queue; any other session refuses it.
Deliver(g) ==
    \E d \in job[g].pending :
        /\ job[g].stage = "deliver"
        /\ \/ /\ session[d] = "open"
              /\ inbox' = [inbox EXCEPT ![d] = Append(@, job[g].event)]
              /\ job' = [job EXCEPT ![g].pending = @ \ {d}]
              /\ UNCHANGED <<session, entitled>>
           \/ /\ session[d] # "none"
              /\ session' = [session EXCEPT ![d] = IF @ = "open" THEN "closing" ELSE @]
              /\ job' = [job EXCEPT ![g].pending = @ \ {d}, ![g].refused = TRUE]
              /\ Disentitle({d})
              /\ UNCHANGED inbox
        /\ UNCHANGED <<clients, members, events, stream, reply, repeated>>

Delivered(g) ==
    /\ job[g].stage = "deliver" /\ job[g].pending = {}
    /\ job' = [job EXCEPT ![g].stage = AfterLocal(g)]
    /\ UNCHANGED <<sessions, events, stream, inbox, reply, repeated, entitled>>

--------------------------------------------------------------------------------
(******************************************************************************)
(* The broker.                                                                *)
(******************************************************************************)

\* Mutant of Unpublished: the local recipient is forgotten.
UnpublishedIgnoringLocal(c) == IF EventOf(c).type = "broadcast" THEN "ack" ELSE "offline"

\* What the command is answered when the event could not be published.  Broadcast
\* has no result; SendPrivate reports what happened to the local recipient.
Unpublished(c) ==
    IF EventOf(c).type = "broadcast" THEN "ack"
    ELSE IF ~ job[c].found THEN "offline"
    ELSE IF job[c].refused THEN "overloaded" ELSE "ack"

\* br.Publish returned: the stream stored the event, for the consumer of every
\* node; it may have stored it even if Publish reports an error (a timeout).
Publish(c) ==
    LET e == job[c].event IN
    /\ job[c].stage = "publish"
    /\ \/ /\ stream' = [n \in Node |-> Append(stream[n], e)]
          /\ reply' \in {[reply EXCEPT ![e] = "ack"], [reply EXCEPT ![e] = Unpublished(c)]}
          /\ UNCHANGED entitled
       \/ /\ UNCHANGED stream
          /\ reply' = [reply EXCEPT ![e] = Unpublished(c)]
          /\ entitled' = [entitled EXCEPT ![e] = {d \in @ : NodeOf[d] = Home(c)}]
    /\ job' = [job EXCEPT ![c] = Idle]
    /\ UNCHANGED <<sessions, events, inbox, repeated>>

\* Mutant of HandleBrokerEvent: the origin node is not compared.
HandleBrokerEcho(n) ==
    /\ job[n] = Idle /\ stream[n] # <<>>
    /\ job' = [job EXCEPT ![n] = [Idle EXCEPT !.event = Head(stream[n]), !.stage = "local"]]
    /\ UNCHANGED <<sessions, events, stream, inbox, reply, repeated, entitled>>

\* Mutant of HandleBrokerEvent: events are dispatched without regard to order.
HandleBrokerEventAnyOrder(n) ==
    \E i \in DOMAIN stream[n] :
        LET e == stream[n][i] IN
        /\ job[n] = Idle
        /\ stream' = [stream EXCEPT ![n] = <<e>> \o SelectSeq(@, LAMBDA x : x # e)]
        /\ job' = [job EXCEPT ![n] =
             [Idle EXCEPT !.event = e, !.stage = IF Origin(e) = n THEN "ack" ELSE "local"]]
        /\ UNCHANGED <<sessions, events, inbox, reply, repeated, entitled>>

\* Mutant of HandleBrokerEvent: the node's own events are not acknowledged.
HandleBrokerEventKeepingEcho(n) ==
    /\ job[n] = Idle /\ stream[n] # <<>>
    /\ Origin(Head(stream[n])) # n
    /\ job' = [job EXCEPT ![n] = [Idle EXCEPT !.event = Head(stream[n]), !.stage = "local"]]
    /\ UNCHANGED <<sessions, events, stream, inbox, reply, repeated, entitled>>

\* The consumer of node n hands the next event to HandleBrokerEvent, which skips
\* what the node itself published.
HandleBrokerEvent(n) ==
    /\ job[n] = Idle /\ stream[n] # <<>>
    /\ LET e == Head(stream[n])
       IN  job' = [job EXCEPT ![n] =
             [Idle EXCEPT !.event = e, !.stage = IF Origin(e) = n THEN "ack" ELSE "local"]]
    /\ UNCHANGED <<sessions, events, stream, inbox, reply, repeated, entitled>>

\* Mutant of Ack: every stored event is acknowledged along with this one.
AckAll(n) ==
    /\ job[n].stage = "ack"
    /\ stream' = [stream EXCEPT ![n] = <<>>]
    /\ job' = [job EXCEPT ![n] = Idle]
    /\ UNCHANGED <<sessions, events, inbox, reply, repeated, entitled>>

\* msg.Ack().
Ack(n) ==
    /\ job[n].stage = "ack"
    /\ stream' = [stream EXCEPT ![n] = Tail(@)]
    /\ job' = [job EXCEPT ![n] = Idle]
    /\ UNCHANGED <<sessions, events, inbox, reply, repeated, entitled>>

\* The acknowledgements lost so far, on all nodes.
Redeliveries == MapThenSumSet(LAMBDA p : repeated[p[1]][p[2]], Node \X EventId)

\* The acknowledgement is lost, its error ignored: the event comes again, behind
\* what was stored meanwhile.  The consumer has no limit on deliveries, so this
\* may happen to one event any number of times.
LoseAck(n) ==
    LET e == job[n].event IN
    /\ job[n].stage = "ack"
    /\ Redeliveries < MaxRedeliveries
    /\ repeated' = [repeated EXCEPT ![n][e] = @ + 1]
    /\ stream' = [stream EXCEPT ![n] = Append(Tail(@), e)]
    /\ job' = [job EXCEPT ![n] = Idle]
    /\ UNCHANGED <<sessions, events, inbox, reply, entitled>>

--------------------------------------------------------------------------------
\* A goroutine that routes goes on by itself.
Route(g) == Snapshot(g) \/ EventIdFails(g) \/ Deliver(g) \/ Delivered(g)

ReaderStep(c) == Route(c) \/ Publish(c)
ConsumerStep(n) == Route(n) \/ HandleBrokerEvent(n) \/ Ack(n) \/ LoseAck(n)

\* Every session has gone and nothing is in flight; any other standstill is a
\* deadlock.
AllGone ==
    /\ \A c \in Conn : session[c] = "closed"
    /\ \A g \in Goroutine : job[g] = Idle
    /\ \A n \in Node : stream[n] = <<>>
    /\ UNCHANGED vars

Next ==
    \/ \E c \in Conn :
         \/ Register(c) \/ Join(c) \/ Leave(c) \/ Close(c) \/ Unregister(c)
         \/ \E ev \in Event : ReadCommand(c, ev)
         \/ ReaderStep(c)
    \/ \E n \in Node : ConsumerStep(n)
    \/ AllGone

Spec == Init /\ [][Next]_vars

\* Running goroutines go on; readers of other connections have nothing to route.
FairSpec ==
    /\ Spec
    /\ \A c \in Sender : WF_vars(ReaderStep(c))
    /\ \A n \in Node : WF_vars(ConsumerStep(n))

--------------------------------------------------------------------------------
(* Properties. *)

\* Types of the sessions, of the goroutines and of the broker.
Job ==
    [stage : {"idle", "local", "deliver", "publish", "ack"}, event : EventId \cup {0},
     pending : SUBSET Conn, found : BOOLEAN, refused : BOOLEAN]
TypeOK ==
    /\ session \in [Conn -> {"none", "open", "closing", "closed"}]
    /\ clients \in [Node -> [User -> Conn \cup {None}]]
    /\ members \subseteq Conn
    /\ events \in Seq(Event) /\ Len(events) <= MaxEvents
    /\ job \in [Goroutine -> Job]
    /\ stream \in [Node -> Seq(EventId)]
    /\ inbox \in [Conn -> Seq(EventId)]
    /\ reply \in [EventId -> {"none", "ack", "offline", "overloaded"}]
    /\ repeated \in [Node -> [EventId -> Nat]]
    /\ entitled \in [EventId -> SUBSET Conn]

Copies(d, e) == Cardinality({i \in DOMAIN inbox[d] : inbox[d][i] = e})

\* The event is neither being routed nor waiting in any stream.
Settled(e) ==
    /\ \A g \in Goroutine : job[g].event # e
    /\ \A n \in Node : \A i \in DOMAIN stream[n] : stream[n][i] # e

\* On the sender's node a session receives an event at most once, although the
\* broker echoes it there and repeats it any number of times; on another node
\* at most once more than the broker redelivered it to that node.
NoDuplicates ==
    \A d \in Conn, e \in 1..Len(events) :
        Copies(d, e) <= IF NodeOf[d] = Origin(e) THEN 1 ELSE 1 + repeated[NodeOf[d]][e]

\* No session of the sending user receives the broadcast, on any node and after
\* any reconnection, and only the recipient's sessions receive a private message.
OnlyAddressed ==
    \A d \in Conn : \A i \in DOMAIN inbox[d] :
        LET e == inbox[d][i] IN
        IF events[e].type = "broadcast" THEN UserOf[d] # SenderID(e)
        ELSE UserOf[d] = events[e].to

\* Nothing is lost between the snapshot, the broker and the other nodes: once an
\* event is settled every recipient it had when the command was read has got it,
\* unless it left, was closed or replaced, its node failed to make the event, or
\* the event could not be published to it.
NothingLost ==
    \A e \in 1..Len(events) : Settled(e) => \A d \in entitled[e] : Copies(d, e) > 0

\* Two events of one session reach a session in the order they were sent, as
\* long as the broker has not redelivered the earlier one.
SenderOrder ==
    \A d \in Conn : \A i, k \in DOMAIN inbox[d] :
        LET e == inbox[d][i]
            f == inbox[d][k]
        IN  events[e].sender = events[f].sender /\ e < f /\ repeated[NodeOf[d]][e] = 0
            => i < k

\* An error answer is honest about the local recipient: a private message whose
\* sender is told "offline" or "overloaded" was accepted by no session on the
\* sender's node.
ErrorMeansNotAccepted ==
    \A e \in 1..Len(events) : reply[e] \in {"offline", "overloaded"} =>
        \A d \in Conn : NodeOf[d] = Origin(e) => Copies(d, e) = 0

\* Every command is answered and every event settles.
EventsSettle == \A e \in EventId : e <= Len(events) ~> reply[e] # "none" /\ Settled(e)

--------------------------------------------------------------------------------
(* What the code's comments say and the code does not guarantee. *)

\* "ErrRecipientOffline is returned when recipient is not registered in the Hub":
\* a private message to a user who never connected is not acknowledged.
OfflineIsReported ==
    \A e \in 1..Len(events) : events[e].type = "private" /\ reply[e] = "ack" =>
        \E d \in Conn : UserOf[d] = events[e].to /\ session[d] # "none"
================================================================================

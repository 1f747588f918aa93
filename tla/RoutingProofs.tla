----------------------------- MODULE RoutingProofs -----------------------------
(******************************************************************************)
(* Proofs about Routing, for any number of nodes, connections, users, events  *)
(* and redeliveries.                                                          *)
(*                                                                            *)
(* The invariant says, for every event, where it is: with the reader that     *)
(* routes it on the sender's node, which has not answered it yet; or, once it *)
(* is answered, in the streams of the nodes, each at one place.  A node works *)
(* on the head of its stream only.  What the properties say of an event then  *)
(* follows from what it has still to meet on its way.                         *)
(******************************************************************************)
EXTENDS Routing, FiniteSetTheorems, TLAPS

USE PlacesAssumption, RoutingNoneAssumption, RoutingBoundsAssumption, PublishAssumption

Known == 1..Len(events)

\* The event is for the session d.
Addressed(d, e) ==
    IF events[e].type = "broadcast" THEN UserOf[d] # SenderID(e) ELSE UserOf[d] = events[e].to

Got(d, e) == \E i \in DOMAIN inbox[d] : inbox[d][i] = e
InStream(n, e) == \E i \in DOMAIN stream[n] : stream[n][i] = e

\* The goroutine g has still to send the event e to d.
Owes(g, d, e) == job[g].event = e /\ (job[g].stage = "local" \/ d \in job[g].pending)

--------------------------------------------------------------------------------
(* The invariant. *)

\* A hub's map holds its own sessions under their users.
ClientsInv ==
    \A n \in Node, u \in User : clients[n][u] # None =>
        NodeOf[clients[n][u]] = n /\ UserOf[clients[n][u]] = u

\* A private message names its recipient.
EventsInv == \A e \in Known : events[e].type = "private" => events[e].to \in User

\* A goroutine is idle, or routes an event to sessions of its node it is for.
JobInv ==
    \A g \in Goroutine :
        /\ job[g].stage = "idle" => job[g] = Idle
        /\ job[g].stage # "idle" => job[g].event \in Known
        /\ job[g].stage # "deliver" => job[g].pending = {}
        /\ \A d \in job[g].pending : NodeOf[d] = Home(g) /\ Addressed(d, job[g].event)

\* A reader routes the latest event of its session, which is not answered yet.
ReaderInv ==
    \A c \in Conn : job[c].stage # "idle" =>
        /\ job[c].stage # "ack"
        /\ EventOf(c).sender = c
        /\ reply[job[c].event] = "none"
        /\ \A f \in Known : events[f].sender = c => f <= job[c].event

\* A consumer routes the head of its stream, and no event of its own node.
ConsumerInv ==
    \A n \in Node : job[n].stage # "idle" =>
        /\ job[n].stage # "publish"
        /\ Len(stream[n]) > 0 /\ job[n].event = stream[n][1]
        /\ job[n].stage # "ack" => Origin(job[n].event) # n

\* What was published is answered, is stored once per node, and what one session
\* sent is stored in order, as far as it was not redelivered.
StreamInv ==
    /\ \A n \in Node :
         /\ \A i \in DOMAIN stream[n] : stream[n][i] \in Known /\ reply[stream[n][i]] # "none"
         /\ \A i, k \in DOMAIN stream[n] : stream[n][i] = stream[n][k] => i = k
         /\ \A i, k \in DOMAIN stream[n] :
              /\ events[stream[n][i]].sender = events[stream[n][k]].sender
              /\ stream[n][i] < stream[n][k] /\ repeated[n][stream[n][i]] = 0
              => i < k
    /\ \A n \in Node, e \in EventId : repeated[n][e] # 0 => reply[e] # "none"
    /\ \A e \in EventId : reply[e] # "none" => e \in Known

\* Sessions hold events that are for them; on other nodes than the sender's only
\* published ones, and only when those the same session sent before have gone
\* through the stream, as far as they were not redelivered.
InboxInv ==
    \A d \in Conn : \A i \in DOMAIN inbox[d] :
        LET f == inbox[d][i]
            n == NodeOf[d] IN
        /\ f \in Known /\ Addressed(d, f)
        /\ n # Origin(f) =>
             /\ reply[f] # "none"
             /\ \A k \in DOMAIN stream[n] :
                  events[stream[n][k]].sender = events[f].sender /\ stream[n][k] < f =>
                      repeated[n][stream[n][k]] # 0

\* What a session has got is bounded by the rounds its node has made.
Repeats(d, e) == IF NodeOf[d] = Origin(e) THEN 0 ELSE repeated[NodeOf[d]][e]
CopyInv ==
    \A d \in Conn, e \in Known :
        /\ Copies(d, e) <= Repeats(d, e) + 1
        /\ NodeOf[d] = Origin(e) /\ Owes(events[e].sender, d, e) => ~ Got(d, e)
        /\ /\ NodeOf[d] # Origin(e) /\ InStream(NodeOf[d], e)
           /\ job[NodeOf[d]].event = e => Owes(NodeOf[d], d, e)
           => Copies(d, e) <= Repeats(d, e)

\* A private message has at most one local recipient, and the reader remembers
\* whether that one has accepted it.
NoneAccepted(e) == \A d \in Conn : NodeOf[d] = Origin(e) => ~ Got(d, e)
ErrorInv ==
    \A e \in Known :
        /\ reply[e] \in {"offline", "overloaded"} => NoneAccepted(e)
        /\ events[e].type = "private" /\ job[events[e].sender].event = e =>
             LET j == job[events[e].sender] IN
             /\ j.stage = "local" => ~ j.refused
             /\ j.stage = "local" \/ ~ j.found \/ j.refused \/ j.pending # {} => NoneAccepted(e)
             /\ ~ j.found \/ j.refused => j.pending = {}
             /\ \A d1, d2 \in j.pending : d1 = d2

\* Who is entitled to an event is open and a recipient now; and has got it, or
\* it is on its way to it.
EntitledInv ==
    \A e \in EventId : \A d \in entitled[e] :
        /\ e \in Known /\ session[d] = "open" /\ d \in Recipients(NodeOf[d], events[e])
        /\ \/ Got(d, e)
           \/ NodeOf[d] = Origin(e) /\ Owes(events[e].sender, d, e)
           \/ NodeOf[d] # Origin(e) /\ job[events[e].sender].event = e
           \/ /\ NodeOf[d] # Origin(e) /\ InStream(NodeOf[d], e)
              /\ job[NodeOf[d]].event = e => Owes(NodeOf[d], d, e)

RoutingInv ==
    /\ TypeOK /\ ClientsInv /\ EventsInv /\ JobInv /\ ReaderInv /\ ConsumerInv /\ StreamInv /\ InboxInv
    /\ CopyInv /\ ErrorInv /\ EntitledInv /\ SenderOrder

--------------------------------------------------------------------------------
(* Facts about the operators. *)

\* A sequence with one more element.
LEMMA AppendIs ==
    ASSUME NEW S, NEW s \in Seq(S), NEW x \in S
    PROVE  /\ Append(s, x) \in Seq(S) /\ Len(s) \in Nat /\ Len(Append(s, x)) = Len(s) + 1
           /\ DOMAIN s = 1..Len(s) /\ DOMAIN Append(s, x) = 1..(Len(s) + 1)
           /\ Append(s, x)[Len(s) + 1] = x
           /\ \A i \in 1..Len(s) : Append(s, x)[i] = s[i]
OBVIOUS

\* A sequence without its first element.
LEMMA TailIs ==
    ASSUME NEW S, NEW s \in Seq(S), s # << >>
    PROVE  /\ Tail(s) \in Seq(S) /\ Len(s) \in Nat /\ Len(s) > 0 /\ Len(Tail(s)) = Len(s) - 1
           /\ DOMAIN s = 1..Len(s) /\ DOMAIN Tail(s) = 1..(Len(s) - 1)
           /\ Head(s) = s[1] /\ Head(s) \in S
           /\ \A i \in 1..(Len(s) - 1) : Tail(s)[i] = s[i + 1]
OBVIOUS

\* The recipients of an event on a node are sessions of that node it is for.
LEMMA RecipientsAre ==
    ASSUME TypeOK, ClientsInv, NEW n \in Node, NEW ev \in Event,
           ev.type = "private" => ev.to \in User
    PROVE  /\ Recipients(n, ev) \subseteq Conn
           /\ \A d \in Recipients(n, ev) :
                /\ NodeOf[d] = n
                /\ IF ev.type = "broadcast" THEN UserOf[d] # UserOf[ev.sender] ELSE UserOf[d] = ev.to
           /\ ev.type = "private" => \A d1, d2 \in Recipients(n, ev) : d1 = d2
<1>1. CASE ev.type = "broadcast"
  BY <1>1 DEF Recipients, Audience, TypeOK
<1>2. CASE ev.type = "private"
  <2>1. clients[n][ev.to] \in Conn \cup {None}
    BY <1>2 DEF TypeOK
  <2> QED BY <1>2, <2>1 DEF Recipients, Addressee, ClientsInv
<1> QED BY <1>1, <1>2 DEF Event

\* Copies counts what Got looks for.
LEMMA CopiesAre ==
    ASSUME TypeOK, NEW d \in Conn, NEW e
    PROVE  /\ Copies(d, e) \in Nat
           /\ Copies(d, e) = 0 <=> ~ Got(d, e)
<1> DEFINE S == {i \in DOMAIN inbox[d] : inbox[d][i] = e}
<1>1. inbox[d] \in Seq(EventId) /\ DOMAIN inbox[d] = 1..Len(inbox[d]) /\ Len(inbox[d]) \in Nat
  BY DEF TypeOK
<1>2. IsFiniteSet(1..Len(inbox[d]))
  BY <1>1, FS_Interval
<1>3. IsFiniteSet(S)
  BY <1>1, <1>2, FS_Subset
<1>4. Cardinality(S) \in Nat /\ (Cardinality(S) = 0 <=> S = {})
  BY <1>3, FS_CardinalityType, FS_EmptySet
<1>5. S = {} <=> ~ Got(d, e)
  BY DEF Got
<1> QED BY <1>4, <1>5 DEF Copies

\* One more event in the inbox of d.
LEMMA CopiesGrow ==
    ASSUME TypeOK, NEW d \in Conn, NEW x \in EventId,
           inbox' = [inbox EXCEPT ![d] = Append(@, x)], NEW c \in Conn, NEW e
    PROVE  /\ Copies(c, e)' = IF c = d /\ x = e THEN Copies(c, e) + 1 ELSE Copies(c, e)
           /\ Got(c, e)' <=> Got(c, e) \/ (c = d /\ x = e)
<1>1. /\ inbox[d] \in Seq(EventId) /\ inbox'[d] = Append(inbox[d], x)
      /\ c # d => inbox'[c] = inbox[c]
  BY DEF TypeOK
<1> DEFINE n == Len(inbox[d])
           S == {i \in DOMAIN inbox[d] : inbox[d][i] = e}
           T == {i \in DOMAIN inbox'[d] : inbox'[d][i] = e}
<1>2. /\ n \in Nat /\ DOMAIN inbox[d] = 1..n /\ DOMAIN inbox'[d] = 1..(n + 1)
      /\ inbox'[d][n + 1] = x /\ \A i \in 1..n : inbox'[d][i] = inbox[d][i]
  BY <1>1, AppendIs
<1>3. T = IF x = e THEN S \cup {n + 1} ELSE S
  BY <1>2
<1>4. IsFiniteSet(S) /\ n + 1 \notin S
  <2>1. IsFiniteSet(1..n)
    BY <1>2, FS_Interval
  <2> QED BY <1>2, <2>1, FS_Subset
<1>5. Cardinality(S \cup {n + 1}) = Cardinality(S) + 1
  BY <1>4, FS_AddElement
<1>6. CASE c = d
  <2>1. (Got(d, e) <=> S # {}) /\ Copies(d, e) = Cardinality(S)
    BY DEF Got, Copies
  <2>2. (Got(d, e)' <=> T # {}) /\ Copies(d, e)' = Cardinality(T)
    BY DEF Got, Copies
  <2> HIDE DEF S, T, n
  <2>3. CASE x = e
    BY <1>3, <1>5, <1>6, <2>1, <2>2, <2>3
  <2>4. CASE x # e
    BY <1>3, <1>6, <2>1, <2>2, <2>4
  <2> QED BY <2>3, <2>4
<1>7. CASE c # d
  BY <1>1, <1>7 DEF Copies, Got
<1> QED BY <1>6, <1>7

\* No goroutine is both, and each is at home on a node.
LEMMA GoroutinesAre ==
    /\ \A c \in Conn : c \in Goroutine /\ c \notin Node /\ Home(c) = NodeOf[c] /\ AfterLocal(c) = "publish"
    /\ \A n \in Node : n \in Goroutine /\ n \notin Conn /\ Home(n) = n /\ AfterLocal(n) = "ack"
    /\ \A g \in Goroutine : Home(g) \in Node /\ (g \in Conn \/ g \in Node)
BY DEF Goroutine, Home, AfterLocal

LEMMA IdleIs ==
    /\ Idle \in Job /\ Idle.stage = "idle" /\ Idle.event = 0 /\ Idle.pending = {}
    /\ Idle.found = FALSE /\ Idle.refused = FALSE
BY DEF Idle, Job

\* Events that were read, and goroutines, have their types.
LEMMA EventsAre ==
    ASSUME TypeOK, NEW e \in Known
    PROVE  /\ events[e] \in Event /\ events[e].sender \in Conn /\ events[e].type \in {"broadcast", "private"}
           /\ e \in EventId /\ e \in Nat /\ e # 0 /\ Origin(e) \in Node
<1>1. events \in Seq(Event) /\ Len(events) \in Nat /\ Len(events) <= MaxEvents
  BY DEF TypeOK
<1>2. events[e] \in Event /\ e \in EventId /\ e \in Nat /\ e # 0
  BY <1>1 DEF Known, EventId
<1> QED BY <1>2 DEF Event, Origin

LEMMA RepeatsAre ==
    ASSUME TypeOK, NEW d \in Conn, NEW e \in Known
    PROVE  Repeats(d, e) \in Nat
BY EventsAre DEF TypeOK, Repeats

LEMMA JobIs ==
    ASSUME TypeOK, NEW g \in Goroutine
    PROVE  /\ job[g] \in Job /\ job[g].stage \in {"idle", "local", "deliver", "publish", "ack"}
           /\ job[g].event \in EventId \cup {0} /\ job[g].pending \subseteq Conn
BY DEF TypeOK, Job

--------------------------------------------------------------------------------
(* Preservation. *)

\* Nothing is routed at first.
LEMMA InitRoutingInv == Init => RoutingInv
<1> SUFFICES ASSUME Init PROVE RoutingInv
  OBVIOUS
<1>1. TypeOK
  BY IdleIs DEF Init, TypeOK
<1>2. Known = {}
  BY DEF Init, Known
<1>3. \A g \in Goroutine : job[g] = Idle
  BY DEF Init
<1>4. \A n \in Node : DOMAIN stream[n] = {}
  BY DEF Init
<1>5. \A d \in Conn : DOMAIN inbox[d] = {}
  BY DEF Init
<1>6. ClientsInv /\ EventsInv
  BY <1>2 DEF Init, ClientsInv, EventsInv
<1>7. JobInv /\ ReaderInv /\ ConsumerInv
  BY <1>3, IdleIs, GoroutinesAre DEF JobInv, ReaderInv, ConsumerInv
<1>8. StreamInv
  BY <1>4 DEF Init, StreamInv
<1>9. InboxInv /\ SenderOrder
  BY <1>5 DEF InboxInv, SenderOrder
<1>10. CopyInv /\ ErrorInv
  BY <1>2 DEF CopyInv, ErrorInv
<1>11. EntitledInv
  BY DEF Init, EntitledInv
<1> QED BY <1>1, <1>6, <1>7, <1>8, <1>9, <1>10, <1>11 DEF RoutingInv

\* What a step that routes nothing leaves alone.
LEMMA RoutingUntouched ==
    ASSUME RoutingInv, UNCHANGED <<routing, repeated>>
    PROVE  /\ EventsInv' /\ JobInv' /\ ReaderInv' /\ ConsumerInv' /\ StreamInv' /\ InboxInv'
           /\ CopyInv' /\ ErrorInv' /\ SenderOrder'
<1>1. UNCHANGED <<events, job, stream, inbox, reply, repeated>>
  BY DEF routing
<1>2. EventsInv' /\ JobInv' /\ ReaderInv' /\ ConsumerInv'
  BY <1>1 DEF RoutingInv, EventsInv, JobInv, ReaderInv, ConsumerInv, Known, Addressed, SenderID,
              EventOf, Origin
<1>3. StreamInv' /\ InboxInv' /\ SenderOrder'
  <2>1. StreamInv'
    BY <1>1 DEF RoutingInv, StreamInv, Known
  <2>2. InboxInv'
    BY <1>1 DEF RoutingInv, InboxInv, Known, Addressed, SenderID, Origin
  <2>3. SenderOrder'
    BY <1>1 DEF RoutingInv, SenderOrder
  <2> QED BY <2>1, <2>2, <2>3
<1>4. CopyInv' /\ ErrorInv'
  <2>0. CopyInv /\ ErrorInv
    BY DEF RoutingInv
  <2>1. CopyInv'
    <3> SUFFICES ASSUME NEW d \in Conn, NEW e \in Known PROVE CopyInv!(d, e)'
      BY <1>1 DEF CopyInv, Known
    <3>1. CopyInv!(d, e)
      BY <2>0 DEF CopyInv
    <3>2. /\ Copies(d, e)' = Copies(d, e) /\ Repeats(d, e)' = Repeats(d, e) /\ Got(d, e)' = Got(d, e)
          /\ Origin(e)' = Origin(e) /\ InStream(NodeOf[d], e)' = InStream(NodeOf[d], e)
          /\ \A g : Owes(g, d, e)' = Owes(g, d, e)
      BY ONLY <1>1 DEF Copies, Repeats, Got, Origin, InStream, Owes
    <3> QED BY ONLY <1>1, <3>1, <3>2
  <2>2. ErrorInv'
    BY ONLY <1>1, <2>0 DEF ErrorInv, Known, Got, Origin, NoneAccepted
  <2> QED BY <2>1, <2>2
<1> QED BY <1>2, <1>3, <1>4

\* Entitled sessions that stay open and recipients are still on their way.
LEMMA EntitledUntouched ==
    ASSUME RoutingInv, UNCHANGED <<routing, repeated>>,
           \A e \in EventId : entitled'[e] \subseteq entitled[e],
           \A e \in EventId : \A d \in entitled'[e] :
               session'[d] = "open" /\ d \in Recipients(NodeOf[d], events[e])'
    PROVE  EntitledInv'
<1>1. UNCHANGED <<events, job, stream, inbox, reply, repeated>>
  BY DEF routing
<1> SUFFICES ASSUME NEW e \in EventId, NEW d \in entitled'[e]
             PROVE  EntitledInv!(e)!(d)'
  BY DEF EntitledInv
<1>2. EntitledInv!(e)!(d)
  BY DEF RoutingInv, EntitledInv
<1> QED BY <1>1, <1>2 DEF Known, Got, Owes, InStream, Origin

\* Sessions come and go: entitled are those that stay.
LEMMA SessionStepInv ==
    ASSUME RoutingInv, NEW c \in Conn,
           Register(c) \/ Join(c) \/ Leave(c) \/ Close(c) \/ Unregister(c)
    PROVE  RoutingInv'
<1>1. UNCHANGED <<routing, repeated>>
  BY DEF Register, Join, Leave, Close, Unregister
<1>2. /\ session \in [Conn -> {"none", "open", "closing", "closed"}] /\ members \subseteq Conn
      /\ clients \in [Node -> [User -> Conn \cup {None}]]
      /\ entitled \in [EventId -> SUBSET Conn]
      /\ NodeOf[c] \in Node /\ UserOf[c] \in User
  BY DEF RoutingInv, TypeOK
<1>3. TypeOK'
  <2>1. session' \in [Conn -> {"none", "open", "closing", "closed"}] /\ members' \subseteq Conn
    BY <1>2 DEF Register, Join, Leave, Close, Unregister
  <2>2. clients' \in [Node -> [User -> Conn \cup {None}]]
    <3>1. ASSUME NEW x \in Conn \cup {None}
          PROVE  [clients EXCEPT ![NodeOf[c]][UserOf[c]] = x] \in [Node -> [User -> Conn \cup {None}]]
      BY <1>2
    <3>2. PICK x \in Conn \cup {None} :
            clients' \in {clients, [clients EXCEPT ![NodeOf[c]][UserOf[c]] = x]}
      BY DEF Register, Join, Leave, Close, Unregister
    <3> QED BY <1>2, <3>1, <3>2
  <2>3. entitled' \in [EventId -> SUBSET Conn]
    BY <1>2 DEF Register, Join, Leave, Close, Unregister, Disentitle
  <2> QED BY <1>1, <2>1, <2>2, <2>3 DEF RoutingInv, TypeOK, routing
<1>4. ClientsInv'
  <2>1. \A n \in Node, u \in User :
          clients'[n][u] \in {clients[n][u], None} \/ (clients'[n][u] = c /\ n = NodeOf[c] /\ u = UserOf[c])
    BY <1>2 DEF Register, Join, Leave, Close, Unregister
  <2> QED BY <2>1 DEF ClientsInv, RoutingInv
<1>5. EntitledInv'
  <2>1. \A e \in EventId : entitled'[e] \subseteq entitled[e]
    BY <1>2 DEF Register, Join, Leave, Close, Unregister, Disentitle
  <2>2. ASSUME NEW e \in EventId, NEW d \in entitled'[e]
        PROVE  session'[d] = "open" /\ d \in Recipients(NodeOf[d], events[e])'
    <3>1. /\ d \in Conn /\ session[d] = "open" /\ d \in Recipients(NodeOf[d], events[e])
          /\ events' = events /\ events[e] \in Event /\ e \in Known
      BY <1>1, <1>2, <2>1, <2>2 DEF RoutingInv, EntitledInv, routing, TypeOK, Known
    <3>2. session'[d] = "open" /\ (d \in members => d \in members')
      BY <1>2, <2>2, <3>1 DEF Register, Join, Leave, Close, Unregister, Disentitle
    <3>3. CASE events[e].type = "broadcast"
      BY <3>1, <3>2, <3>3 DEF Recipients, Audience
    <3>4. CASE events[e].type = "private"
      <4>1. events[e].to \in User /\ NodeOf[d] \in Node /\ d # None
        BY <3>1, <3>4 DEF RoutingInv, EventsInv
      <4>2. d = clients[NodeOf[d]][events[e].to]
        BY <3>1, <3>4 DEF Recipients, Addressee
      <4>3. clients'[NodeOf[d]][events[e].to] = d
        <5>1. CASE Register(c)
          BY <1>2, <2>2, <3>1, <4>1, <4>2, <5>1 DEF Register, Disentitle
        <5>2. CASE Unregister(c)
          BY <1>2, <3>1, <4>1, <4>2, <5>2 DEF Unregister
        <5>3. CASE Join(c) \/ Leave(c) \/ Close(c)
          BY <4>2, <5>3 DEF Join, Leave, Close
        <5> QED BY <5>1, <5>2, <5>3
      <4> QED BY <3>1, <3>2, <3>4, <4>1, <4>3 DEF Recipients, Addressee
    <3> QED BY <3>1, <3>3, <3>4 DEF Event
  <2> QED BY <1>1, <2>1, <2>2, EntitledUntouched
<1> QED BY <1>1, <1>3, <1>4, <1>5, RoutingUntouched DEF RoutingInv

\* A command is read: its event is new, with the reader, and nobody has got it.
LEMMA ReadCommandInv ==
    ASSUME RoutingInv, NEW c \in Conn, NEW ev \in Event, ReadCommand(c, ev)
    PROVE  RoutingInv'
<1> DEFINE n == Len(events) + 1
<1>1. /\ events \in Seq(Event) /\ Len(events) \in Nat /\ Len(events) < MaxEvents
      /\ n \in EventId /\ n \notin Known /\ Known \subseteq EventId
  BY DEF RoutingInv, TypeOK, ReadCommand, Known, EventId
<1>2. /\ events' \in Seq(Event) /\ Len(events') = n /\ Known' = Known \cup {n}
      /\ events'[n] = ev /\ \A e \in Known : events'[e] = events[e] /\ e < n
  BY <1>1, AppendIs DEF ReadCommand, Known
<1>3. /\ job' = [job EXCEPT ![c] = [Idle EXCEPT !.stage = "local", !.event = n]]
      /\ entitled' = [entitled EXCEPT ![n] =
           {d \in UNION {Recipients(m, ev) : m \in Node} : session[d] = "open"}]
      /\ UNCHANGED <<session, clients, members, stream, inbox, reply, repeated>>
      /\ job[c] = Idle /\ ev.sender = c
      /\ ev.type = "private" => ev.to \in User
  BY DEF ReadCommand, Reading, sessions, Event
<1>4. /\ job'[c].stage = "local" /\ job'[c].event = n /\ job'[c].pending = {}
      /\ job'[c].refused = FALSE
      /\ \A h \in Goroutine : h # c => job'[h] = job[h]
      /\ job' \in [Goroutine -> Job]
  <2>1. [Idle EXCEPT !.stage = "local", !.event = n] \in Job
    BY <1>1 DEF Idle, Job
  <2> QED BY <1>3, <2>1, GoroutinesAre DEF RoutingInv, TypeOK, Idle
<1>5. /\ reply[n] = "none" /\ job[c].stage = "idle" /\ job[c].event = 0
      /\ \A d \in Conn : ~ Got(d, n) /\ Copies(d, n) = 0
      /\ \A m \in Node : ~ InStream(m, n) /\ repeated[m][n] = 0
  <2>1. reply[n] = "none" /\ job[c].stage = "idle" /\ job[c].event = 0
    BY <1>1, <1>3, IdleIs DEF RoutingInv, StreamInv
  <2>2. \A d \in Conn : ~ Got(d, n)
    BY <1>1 DEF RoutingInv, InboxInv, Got
  <2>3. \A m \in Node : ~ InStream(m, n) /\ repeated[m][n] = 0
    BY <1>1, <2>1 DEF RoutingInv, StreamInv, InStream
  <2> QED BY <2>1, <2>2, <2>3, CopiesAre DEF RoutingInv
<1>6. UNION {Recipients(m, ev) : m \in Node} \subseteq Conn
  BY <1>3, RecipientsAre DEF RoutingInv
<1> HIDE DEF n
<1>7. TypeOK'
  <2>1. entitled' \in [EventId -> SUBSET Conn]
    BY <1>1, <1>3, <1>6 DEF RoutingInv, TypeOK
  <2> QED BY <1>1, <1>2, <1>3, <1>4, <2>1 DEF RoutingInv, TypeOK, n
<1>8. ClientsInv' /\ EventsInv'
  BY <1>2, <1>3 DEF RoutingInv, ClientsInv, EventsInv
<1>9. \A e \in Known : /\ Origin(e)' = Origin(e) /\ SenderID(e)' = SenderID(e)
                       /\ \A d \in Conn : Addressed(d, e)' = Addressed(d, e)
  BY <1>2 DEF Origin, SenderID, Addressed
<1>10. JobInv'
  <2> SUFFICES ASSUME NEW g \in Goroutine PROVE JobInv!(g)'
    BY DEF JobInv
  <2>1. CASE g = c
    BY <1>2, <1>4, <2>1
  <2>2. CASE g # c
    <3>1. job'[g] = job[g] /\ job[g].pending \subseteq Conn /\ JobInv!(g)
      BY <1>4, <2>2, JobIs DEF RoutingInv, JobInv
    <3>2. job[g].pending # {} => job[g].event \in Known
      BY <3>1
    <3> QED BY <1>2, <1>9, <3>1, <3>2
  <2> QED BY <2>1, <2>2
<1>11. ReaderInv'
  <2> SUFFICES ASSUME NEW b \in Conn, job'[b].stage # "idle" PROVE ReaderInv!(b)!2'
    BY DEF ReaderInv
  <2>1. CASE b = c
    <3>1. \A f \in Known' : f <= n
      BY <1>1, <1>2 DEF Known, n
    <3> QED BY <1>2, <1>3, <1>4, <1>5, <2>1, <3>1 DEF EventOf
  <2>2. CASE b # c
    <3>1. job'[b] = job[b] /\ job[b].event \in Known /\ ReaderInv!(b)!2
      BY <1>4, <2>2, GoroutinesAre DEF RoutingInv, JobInv, ReaderInv
    <3> QED BY <1>2, <1>3, <2>2, <3>1 DEF EventOf
  <2> QED BY <2>1, <2>2
<1>12. ConsumerInv'
  BY <1>3, <1>4, <1>9, GoroutinesAre DEF RoutingInv, ConsumerInv, JobInv
<1>13. StreamInv'
  BY <1>2, <1>3 DEF RoutingInv, StreamInv
<1>14. InboxInv'
  <2> SUFFICES ASSUME NEW d \in Conn, NEW i \in DOMAIN inbox[d] PROVE InboxInv!(d)!(i)'
    BY <1>3 DEF InboxInv
  <2>1. inbox[d][i] \in Known /\ \A k \in DOMAIN stream[NodeOf[d]] : stream[NodeOf[d]][k] \in Known
    BY DEF RoutingInv, InboxInv, StreamInv
  <2>2. InboxInv!(d)!(i)
    BY DEF RoutingInv, InboxInv
  <2> QED BY <1>2, <1>3, <1>9, <2>1, <2>2
<1>15. CopyInv'
  <2> SUFFICES ASSUME NEW d \in Conn, NEW e \in Known' PROVE CopyInv!(d, e)'
    BY DEF CopyInv
  <2>1. /\ Copies(d, e)' = Copies(d, e) /\ Got(d, e)' = Got(d, e)
        /\ InStream(NodeOf[d], e)' = InStream(NodeOf[d], e)
    BY <1>3 DEF Copies, Got, InStream
  <2>2. CASE e = n
    BY <1>3, <1>5, <2>1, <2>2 DEF Repeats
  <2>3. CASE e # n
    <3>1. e \in Known /\ Origin(e)' = Origin(e) /\ events'[e] = events[e]
      BY <1>2, <1>9, <2>3
    <3>2. CopyInv!(d, e)
      BY <3>1 DEF RoutingInv, CopyInv
    <3>3. /\ Owes(events[e].sender, d, e)' => Owes(events[e].sender, d, e)
          /\ events[e].sender \in Conn
      <4>1. events[e].sender \in Conn /\ events[e].sender \in Goroutine
        BY <3>1, EventsAre, GoroutinesAre DEF RoutingInv
      <4> QED BY <1>4, <2>3, <3>1, <4>1 DEF Owes
    <3>4. job'[NodeOf[d]] = job[NodeOf[d]]
      BY <1>4, GoroutinesAre
    <3> QED BY <1>3, <2>1, <3>1, <3>2, <3>3, <3>4 DEF Repeats, Owes
  <2> QED BY <2>2, <2>3
<1>16. ErrorInv'
  <2> SUFFICES ASSUME NEW e \in Known' PROVE ErrorInv!(e)'
    BY DEF ErrorInv
  <2>1. \A d \in Conn : Got(d, e)' = Got(d, e)
    BY <1>3 DEF Got
  <2>2. CASE e = n
    BY <1>2, <1>3, <1>4, <1>5, <2>1, <2>2 DEF NoneAccepted
  <2>3. CASE e # n
    <3>1. e \in Known /\ Origin(e)' = Origin(e) /\ events'[e] = events[e]
      BY <1>2, <1>9, <2>3
    <3>2. events[e].sender \in Conn /\ NoneAccepted(e)' = NoneAccepted(e)
      BY <2>1, <3>1, EventsAre DEF RoutingInv, NoneAccepted
    <3>3. job'[events[e].sender].event = e => job'[events[e].sender] = job[events[e].sender]
      BY <1>4, <2>3, <3>2, GoroutinesAre
    <3>4. ErrorInv!(e)
      BY <3>1 DEF RoutingInv, ErrorInv
    <3> QED BY <1>3, <3>1, <3>2, <3>3, <3>4
  <2> QED BY <2>2, <2>3
<1>17. EntitledInv'
  <2> SUFFICES ASSUME NEW e \in EventId, NEW d \in entitled'[e] PROVE EntitledInv!(e)!(d)'
    BY DEF EntitledInv
  <2>1. CASE e = n
    <3>1. session[d] = "open" /\ \E m \in Node : d \in Recipients(m, ev)
      BY <1>1, <1>3, <2>1 DEF RoutingInv, TypeOK
    <3>2. d \in Conn /\ d \in Recipients(NodeOf[d], ev)
      BY <1>3, <1>6, <3>1, RecipientsAre DEF RoutingInv
    <3>3. Recipients(NodeOf[d], ev)' = Recipients(NodeOf[d], ev)
      BY <1>3 DEF Recipients, Audience, Addressee
    <3>4. events'[e] = ev /\ e \in Known' /\ session'[d] = "open"
      BY <1>2, <1>3, <2>1, <3>1
    <3>5. Owes(c, d, e)' /\ job'[c].event = e /\ events'[e].sender = c
      BY <1>3, <1>4, <2>1, <3>4 DEF Owes
    <3> QED BY <3>2, <3>3, <3>4, <3>5
  <2>2. CASE e # n
    <3>1. d \in entitled[e]
      BY <1>1, <1>3, <2>2 DEF RoutingInv, TypeOK
    <3>2. EntitledInv!(e)!(d) /\ e \in Known /\ d \in Conn
      BY <3>1 DEF RoutingInv, EntitledInv, TypeOK
    <3>3. Origin(e)' = Origin(e) /\ events'[e] = events[e] /\ e # 0 /\ events[e].sender \in Conn
      BY <1>2, <1>9, <3>2, EventsAre DEF RoutingInv
    <3>4. job[events[e].sender].event = e => job'[events[e].sender] = job[events[e].sender]
      BY <1>4, <1>5, <3>3, GoroutinesAre
    <3>5. job'[NodeOf[d]] = job[NodeOf[d]]
      BY <1>4, <3>2, GoroutinesAre
    <3>6. Recipients(NodeOf[d], events[e])' = Recipients(NodeOf[d], events[e])
      BY <1>3, <3>3 DEF Recipients, Audience, Addressee
    <3> QED BY <1>2, <1>3, <3>2, <3>3, <3>4, <3>5, <3>6 DEF Got, InStream, Owes
  <2> QED BY <2>1, <2>2
<1>18. SenderOrder'
  <2>1. \A d \in Conn : \A i \in DOMAIN inbox[d] : inbox[d][i] \in Known
    BY DEF RoutingInv, InboxInv
  <2> QED BY <1>2, <1>3, <2>1 DEF RoutingInv, SenderOrder
<1> QED BY <1>7, <1>8, <1>10, <1>11, <1>12, <1>13, <1>14, <1>15, <1>16, <1>17, <1>18 DEF RoutingInv

\* What does not depend on the goroutines.
LEMMA OnlyJobsMove ==
    ASSUME RoutingInv, UNCHANGED <<sessions, events, stream, inbox, reply, repeated>>
    PROVE  ClientsInv' /\ EventsInv' /\ StreamInv' /\ InboxInv' /\ SenderOrder'
<1>1. UNCHANGED <<clients, events, stream, inbox, reply, repeated>>
  BY DEF sessions
<1>2. ClientsInv' /\ EventsInv'
  BY <1>1 DEF RoutingInv, ClientsInv, EventsInv, Known
<1>3. StreamInv'
  BY <1>1 DEF RoutingInv, StreamInv, Known
<1>4. InboxInv'
  BY <1>1 DEF RoutingInv, InboxInv, Known, Addressed, SenderID, Origin
<1>5. SenderOrder'
  BY <1>1 DEF RoutingInv, SenderOrder
<1> QED BY <1>2, <1>3, <1>4, <1>5

\* Goroutines that owe no more than before make no copy too many.
LEMMA OwingLess ==
    ASSUME RoutingInv, UNCHANGED <<events, stream, inbox, repeated>>,
           \A n \in Node : job'[n].event = job[n].event,
           \A h \in Goroutine, d \in Conn, e \in Known : Owes(h, d, e)' => Owes(h, d, e)
    PROVE  CopyInv'
<1> SUFFICES ASSUME NEW d \in Conn, NEW e \in Known PROVE CopyInv!(d, e)'
  BY DEF CopyInv, Known
<1>1. CopyInv!(d, e)
  BY DEF RoutingInv, CopyInv
<1>2. events[e].sender \in Goroutine /\ NodeOf[d] \in Goroutine
  BY EventsAre, GoroutinesAre DEF RoutingInv
<1>3. /\ Copies(d, e)' = Copies(d, e) /\ Got(d, e)' = Got(d, e) /\ Repeats(d, e)' = Repeats(d, e)
      /\ InStream(NodeOf[d], e)' = InStream(NodeOf[d], e) /\ Origin(e)' = Origin(e)
      /\ events'[e].sender = events[e].sender
  BY DEF Copies, Got, InStream, Origin, Repeats
<1>4. /\ Owes(events[e].sender, d, e)' => Owes(events[e].sender, d, e)
      /\ Owes(NodeOf[d], d, e)' => Owes(NodeOf[d], d, e)
      /\ job'[NodeOf[d]].event = job[NodeOf[d]].event
  BY <1>2, <1>3
<1> QED BY <1>1, <1>3, <1>4

\* A goroutine goes on with its event.
LEMMA GoingOn ==
    ASSUME RoutingInv, NEW g \in Goroutine, UNCHANGED <<events, stream, reply>>,
           \A h \in Goroutine : h # g => job'[h] = job[h],
           job'[g].event = job[g].event, job[g].stage # "idle",
           job'[g].stage \in {"deliver", AfterLocal(g)},
           job[g].stage # "ack"
    PROVE  ReaderInv' /\ ConsumerInv'
<1>1. ReaderInv'
  <2> SUFFICES ASSUME NEW c \in Conn, job'[c].stage # "idle" PROVE ReaderInv!(c)!2'
    BY DEF ReaderInv
  <2>1. job'[c].event = job[c].event /\ job[c].stage # "idle" /\ (c # g => job'[c] = job[c])
    BY GoroutinesAre
  <2>2. ReaderInv!(c)!2
    BY <2>1 DEF RoutingInv, ReaderInv
  <2> QED BY <2>1, <2>2, GoroutinesAre DEF EventOf, Known
<1>2. ConsumerInv'
  <2> SUFFICES ASSUME NEW n \in Node, job'[n].stage # "idle" PROVE ConsumerInv!(n)!2'
    BY DEF ConsumerInv
  <2>1. job'[n].event = job[n].event /\ job[n].stage # "idle" /\ (n # g => job'[n] = job[n])
    BY GoroutinesAre
  <2>2. ConsumerInv!(n)!2
    BY <2>1 DEF RoutingInv, ConsumerInv
  <2> QED BY <2>1, <2>2, GoroutinesAre DEF Origin
<1> QED BY <1>1, <1>2

\* The snapshot: it holds every recipient who is entitled.
LEMMA SnapshotInv ==
    ASSUME RoutingInv, NEW g \in Goroutine, Snapshot(g)
    PROVE  RoutingInv'
<1> DEFINE to == Recipients(Home(g), EventOf(g))
           e0 == job[g].event
<1>1. /\ job[g].stage = "local" /\ UNCHANGED <<sessions, events, stream, inbox, reply, repeated, entitled>>
      /\ job' = [job EXCEPT ![g].stage = "deliver", ![g].pending = to, ![g].found = (to # {})]
  BY DEF Snapshot
<1>2. /\ e0 \in Known /\ EventOf(g) \in Event /\ EventOf(g) = events[e0]
      /\ EventOf(g).type = "private" => EventOf(g).to \in User
      /\ Home(g) \in Node /\ job[g].pending = {}
  BY <1>1, EventsAre, GoroutinesAre DEF RoutingInv, JobInv, EventOf, EventsInv
<1>3. /\ to \subseteq Conn
      /\ \A d \in to : NodeOf[d] = Home(g) /\ Addressed(d, e0)
      /\ events[e0].type = "private" => \A d1, d2 \in to : d1 = d2
  BY <1>2, RecipientsAre DEF RoutingInv, Addressed, SenderID
<1>4. /\ job'[g].stage = "deliver" /\ job'[g].event = e0 /\ job'[g].pending = to
      /\ job'[g].found = (to # {}) /\ job'[g].refused = job[g].refused
      /\ job' \in [Goroutine -> Job]
      /\ \A h \in Goroutine : h # g => job'[h] = job[h]
  <2>1. [[[job[g] EXCEPT !.stage = "deliver"] EXCEPT !.pending = to] EXCEPT !.found = (to # {})] \in Job
    BY <1>3, JobIs DEF RoutingInv, Job
  <2>2. job \in [Goroutine -> Job] /\ job[g] \in Job
    BY DEF RoutingInv, TypeOK
  <2> HIDE DEF to
  <2>3. /\ job'[g].stage = "deliver" /\ job'[g].event = e0 /\ job'[g].pending = to
        /\ job'[g].found = (to # {}) /\ job'[g].refused = job[g].refused
    BY <1>1, <2>2 DEF Job
  <2>4. job' \in [Goroutine -> Job] /\ \A h \in Goroutine : h # g => job'[h] = job[h]
    BY <1>1, <2>1, <2>2
  <2> QED BY <2>3, <2>4
<1> HIDE DEF to, e0
<1>5. TypeOK'
  BY <1>1, <1>4 DEF RoutingInv, TypeOK, sessions
<1>6. ReaderInv' /\ ConsumerInv'
  BY <1>1, <1>4, GoingOn DEF e0
<1>7. JobInv'
  BY <1>1, <1>2, <1>3, <1>4 DEF RoutingInv, JobInv, Known, Addressed, SenderID
<1>8. CopyInv'
  <2>1. \A n \in Node : job'[n].event = job[n].event
    BY <1>4, GoroutinesAre DEF e0
  <2>2. \A h \in Goroutine, d \in Conn, e \in Known : Owes(h, d, e)' => Owes(h, d, e)
    BY <1>1, <1>4 DEF Owes, e0
  <2> QED BY <1>1, <2>1, <2>2, OwingLess
<1>9. ErrorInv'
  <2> SUFFICES ASSUME NEW e \in Known PROVE ErrorInv!(e)'
    BY <1>1 DEF ErrorInv, Known
  <2>1. ErrorInv!(e) /\ NoneAccepted(e)' = NoneAccepted(e) /\ events[e].sender \in Goroutine
    BY <1>1, EventsAre, GoroutinesAre DEF RoutingInv, ErrorInv, NoneAccepted, Got, Origin
  <2>2. CASE events[e].sender # g
    BY <1>1, <1>4, <2>1, <2>2
  <2>3. CASE events[e].sender = g
    <3>1. CASE e = e0 /\ events[e].type = "private"
      <4>1. ~ job[g].refused /\ NoneAccepted(e)
        BY <1>1, <2>1, <2>3, <3>1 DEF e0
      <4>2. events'[e].sender = g /\ reply'[e] = reply[e] /\ NoneAccepted(e)'
        BY <1>1, <2>1, <2>3, <4>1
      <4>3. ~ job'[g].found => job'[g].pending = {}
        BY <1>4
      <4>4. ~ job'[g].refused /\ \A d1, d2 \in job'[g].pending : d1 = d2
        BY <1>3, <1>4, <3>1, <4>1
      <4> QED BY <1>4, <4>2, <4>3, <4>4
    <3>2. CASE ~ (e = e0 /\ events[e].type = "private")
      BY <1>1, <1>4, <2>1, <2>3, <3>2
    <3> QED BY <3>1, <3>2
  <2> QED BY <2>2, <2>3
<1>10. EntitledInv'
  <2> SUFFICES ASSUME NEW e \in EventId, NEW d \in entitled[e] PROVE EntitledInv!(e)!(d)'
    BY <1>1 DEF EntitledInv
  <2>1. EntitledInv!(e)!(d) /\ e \in Known /\ d \in Conn
    BY DEF RoutingInv, EntitledInv, TypeOK
  <2>2. /\ Got(d, e)' = Got(d, e) /\ InStream(NodeOf[d], e)' = InStream(NodeOf[d], e)
        /\ Origin(e)' = Origin(e) /\ events'[e] = events[e] /\ Known' = Known /\ session' = session
        /\ Recipients(NodeOf[d], events[e])' = Recipients(NodeOf[d], events[e])
    BY <1>1 DEF Got, InStream, Origin, Known, Recipients, Audience, Addressee, sessions
  <2>3. ASSUME NEW h \in Goroutine, Home(h) = NodeOf[d], Owes(h, d, e) PROVE Owes(h, d, e)'
    <3>1. CASE h = g
      <4>1. e = e0 /\ d \in to
        BY <1>2, <2>1, <2>3, <3>1 DEF Owes, e0, to
      <4> QED BY <1>4, <3>1, <4>1 DEF Owes
    <3>2. CASE h # g
      BY <1>4, <2>3, <3>2 DEF Owes
    <3> QED BY <3>1, <3>2
  <2>4. /\ events[e].sender \in Goroutine /\ Home(events[e].sender) = Origin(e)
        /\ NodeOf[d] \in Goroutine /\ Home(NodeOf[d]) = NodeOf[d]
    BY <2>1, EventsAre, GoroutinesAre DEF RoutingInv, Origin
  <2>5. \A h \in Goroutine : job'[h].event = job[h].event
    BY <1>4 DEF e0
  <2> QED BY <2>1, <2>2, <2>3, <2>4, <2>5
<1> QED BY <1>1, <1>5, <1>6, <1>7, <1>8, <1>9, <1>10, OnlyJobsMove DEF RoutingInv

\* The snapshot has been served.
LEMMA DeliveredInv ==
    ASSUME RoutingInv, NEW g \in Goroutine, Delivered(g)
    PROVE  RoutingInv'
<1>1. /\ job[g].stage = "deliver" /\ job[g].pending = {}
      /\ UNCHANGED <<sessions, events, stream, inbox, reply, repeated, entitled>>
      /\ job' = [job EXCEPT ![g].stage = AfterLocal(g)]
  BY DEF Delivered
<1>2. AfterLocal(g) \in {"publish", "ack"}
  BY DEF AfterLocal
<1>3. /\ job'[g].stage = AfterLocal(g) /\ job'[g].event = job[g].event /\ job'[g].pending = {}
      /\ job'[g].found = job[g].found /\ job'[g].refused = job[g].refused
      /\ job' \in [Goroutine -> Job]
      /\ \A h \in Goroutine : h # g => job'[h] = job[h]
  <2>1. [job[g] EXCEPT !.stage = AfterLocal(g)] \in Job
    BY <1>2, JobIs DEF RoutingInv, Job
  <2> QED BY <1>1, <2>1, JobIs DEF RoutingInv, TypeOK, Job
<1>4. TypeOK'
  BY <1>1, <1>3 DEF RoutingInv, TypeOK, sessions
<1>5. ReaderInv' /\ ConsumerInv'
  BY <1>1, <1>3, GoingOn
<1>6. JobInv'
  BY <1>1, <1>2, <1>3 DEF RoutingInv, JobInv, Known, Addressed, SenderID
<1>7. \A h \in Goroutine, d \in Conn, e \in Known : Owes(h, d, e)' = Owes(h, d, e)
  BY <1>1, <1>2, <1>3 DEF Owes
<1>8. CopyInv'
  <2>1. \A n \in Node : job'[n].event = job[n].event
    BY <1>3, GoroutinesAre
  <2> QED BY <1>1, <1>7, <2>1, OwingLess
<1>9. ErrorInv'
  <2> SUFFICES ASSUME NEW e \in Known PROVE ErrorInv!(e)'
    BY <1>1 DEF ErrorInv, Known
  <2>1. ErrorInv!(e) /\ NoneAccepted(e)' = NoneAccepted(e) /\ events[e].sender \in Goroutine
    BY <1>1, EventsAre, GoroutinesAre DEF RoutingInv, ErrorInv, NoneAccepted, Got, Origin
  <2>2. CASE events[e].sender # g
    BY <1>1, <1>3, <2>1, <2>2
  <2>3. CASE events[e].sender = g
    BY <1>1, <1>2, <1>3, <2>1, <2>3
  <2> QED BY <2>2, <2>3
<1>10. EntitledInv'
  <2> SUFFICES ASSUME NEW e \in EventId, NEW d \in entitled[e] PROVE EntitledInv!(e)!(d)'
    BY <1>1 DEF EntitledInv
  <2>1. EntitledInv!(e)!(d) /\ e \in Known /\ d \in Conn
    BY DEF RoutingInv, EntitledInv, TypeOK
  <2>2. /\ Got(d, e)' = Got(d, e) /\ InStream(NodeOf[d], e)' = InStream(NodeOf[d], e)
        /\ Origin(e)' = Origin(e) /\ events'[e] = events[e] /\ Known' = Known /\ session' = session
        /\ Recipients(NodeOf[d], events[e])' = Recipients(NodeOf[d], events[e])
    BY <1>1 DEF Got, InStream, Origin, Known, Recipients, Audience, Addressee, sessions
  <2>3. /\ events[e].sender \in Goroutine /\ NodeOf[d] \in Goroutine
    BY <2>1, EventsAre, GoroutinesAre DEF RoutingInv
  <2>4. \A h \in Goroutine : job'[h].event = job[h].event
    BY <1>3
  <2> QED BY <1>7, <2>1, <2>2, <2>3, <2>4
<1> QED BY <1>1, <1>4, <1>5, <1>6, <1>8, <1>9, <1>10, OnlyJobsMove DEF RoutingInv

\* An answer more.
LEMMA RepliesGrow ==
    ASSUME RoutingInv, UNCHANGED <<clients, events, stream, inbox, repeated>>,
           \A e \in EventId : (reply[e] # "none" => reply'[e] # "none") /\ (reply'[e] # "none" => e \in Known)
    PROVE  ClientsInv' /\ EventsInv' /\ StreamInv' /\ InboxInv' /\ SenderOrder'
<1>1. ClientsInv' /\ EventsInv'
  BY DEF RoutingInv, ClientsInv, EventsInv, Known
<1>2. Known \subseteq EventId
  BY EventsAre DEF RoutingInv
<1>3. StreamInv'
  BY <1>2 DEF RoutingInv, StreamInv, Known
<1>4. InboxInv'
  BY <1>2 DEF RoutingInv, InboxInv, Known, Addressed, SenderID, Origin
<1>5. SenderOrder'
  BY DEF RoutingInv, SenderOrder
<1> QED BY <1>1, <1>3, <1>4, <1>5

\* No event id: a private message is given up before anybody has accepted it, and
\* other events go on without the sessions of this node.
LEMMA EventIdFailsInv ==
    ASSUME RoutingInv, NEW g \in Goroutine, EventIdFails(g)
    PROVE  RoutingInv'
<1> DEFINE e0 == job[g].event
           returns == g \in Conn /\ EventOf(g).type = "private"
<1>1. /\ job[g].stage = "local" /\ UNCHANGED <<sessions, events, stream, inbox, repeated>>
      /\ job' = [job EXCEPT ![g] = IF returns THEN Idle ELSE [job[g] EXCEPT !.stage = AfterLocal(g)]]
      /\ reply' = IF returns THEN [reply EXCEPT ![e0] = "offline"] ELSE reply
      /\ entitled' = [entitled EXCEPT ![e0] = {d \in entitled[e0] : ~ returns /\ NodeOf[d] # Home(g)}]
  BY DEF EventIdFails
<1>2. AfterLocal(g) \in {"publish", "ack"}
  BY DEF AfterLocal
<1>3. /\ e0 \in Known /\ e0 \in EventId /\ e0 # 0 /\ EventOf(g) = events[e0] /\ job[g].pending = {}
      /\ g \in Conn => events[e0].sender = g /\ reply[e0] = "none"
  BY <1>1, EventsAre DEF RoutingInv, JobInv, ReaderInv, EventOf
<1>4. /\ [job[g] EXCEPT !.stage = AfterLocal(g)] \in Job
      /\ [job[g] EXCEPT !.stage = AfterLocal(g)].stage = AfterLocal(g)
      /\ [job[g] EXCEPT !.stage = AfterLocal(g)].event = e0
      /\ [job[g] EXCEPT !.stage = AfterLocal(g)].pending = {}
  BY <1>2, <1>3, JobIs DEF RoutingInv, Job
<1>5. /\ job' \in [Goroutine -> Job] /\ job'[g].pending = {}
      /\ job'[g].stage # "local" /\ job'[g].stage # "deliver"
      /\ \A h \in Goroutine : h # g => job'[h] = job[h]
      /\ returns => job'[g] = Idle
      /\ ~ returns => job'[g].stage = AfterLocal(g) /\ job'[g].event = e0
  BY <1>1, <1>2, <1>4, IdleIs DEF RoutingInv, TypeOK
<1>6. \A e \in EventId : entitled'[e] \subseteq entitled[e]
  BY <1>1, <1>3 DEF RoutingInv, TypeOK
<1>7. \A e \in EventId : /\ e # e0 \/ ~ returns => reply'[e] = reply[e]
                         /\ e = e0 /\ returns => reply'[e] = "offline"
  BY <1>1, <1>3 DEF RoutingInv, TypeOK
<1>8. \A d \in entitled'[e0] : ~ returns /\ NodeOf[d] # Home(g)
  BY <1>1, <1>3 DEF RoutingInv, TypeOK
<1> HIDE DEF e0, returns
<1>9. TypeOK'
  <2>1. reply' \in [EventId -> {"none", "ack", "offline", "overloaded"}]
    BY <1>1 DEF RoutingInv, TypeOK
  <2>2. entitled' \in [EventId -> SUBSET Conn]
    BY <1>1, <1>6 DEF RoutingInv, TypeOK
  <2> QED BY <1>1, <1>5, <2>1, <2>2 DEF RoutingInv, TypeOK, sessions
<1>10. ClientsInv' /\ EventsInv' /\ StreamInv' /\ InboxInv' /\ SenderOrder'
  <2>1. \A e \in EventId : (reply[e] # "none" => reply'[e] # "none") /\ (reply'[e] # "none" => e \in Known)
    BY <1>3, <1>7 DEF RoutingInv, StreamInv
  <2> QED BY <1>1, <2>1, RepliesGrow DEF sessions
<1>11. ReaderInv' /\ ConsumerInv'
  <2>1. CASE ~ returns
    BY <1>1, <1>5, <2>1, GoingOn DEF e0
  <2>2. CASE returns
    <3>1. \A c \in Conn : job'[c].stage # "idle" => c # g /\ job'[c] = job[c] /\ job[c].event # e0
      BY <1>3, <1>5, <2>2, IdleIs, GoroutinesAre DEF RoutingInv, ReaderInv, EventOf, returns
    <3>2. \A c \in Conn : job[c].stage # "idle" => job[c].event \in EventId
      BY EventsAre, GoroutinesAre DEF RoutingInv, JobInv
    <3>3. ReaderInv'
      BY <1>1, <1>7, <3>1, <3>2 DEF RoutingInv, ReaderInv, EventOf, Known
    <3>4. \A n \in Node : job'[n] = job[n]
      BY <1>5, <2>2, GoroutinesAre DEF returns
    <3>5. ConsumerInv'
      BY <1>1, <3>4 DEF RoutingInv, ConsumerInv, Origin
    <3> QED BY <3>3, <3>5
  <2> QED BY <2>1, <2>2
<1>12. JobInv'
  <2> SUFFICES ASSUME NEW h \in Goroutine PROVE JobInv!(h)'
    BY DEF JobInv
  <2>1. CASE h = g
    BY <1>1, <1>2, <1>3, <1>5, <2>1, IdleIs DEF Known
  <2>2. CASE h # g
    BY <1>1, <1>5, <2>2 DEF RoutingInv, JobInv, Known, Addressed, SenderID
  <2> QED BY <2>1, <2>2
<1>13. \A h \in Goroutine, d \in Conn, e \in Known :
         /\ Owes(h, d, e)' <=> h # g /\ Owes(h, d, e)
         /\ job'[h].event = e => job[h].event = e
  BY <1>5, IdleIs, EventsAre DEF Owes, RoutingInv, e0
<1>14. CopyInv'
  <2>1. \A n \in Node : job'[n].event = job[n].event
    BY <1>5, GoroutinesAre DEF e0, returns
  <2> QED BY <1>1, <1>13, <2>1, OwingLess
<1>15. ErrorInv'
  <2> SUFFICES ASSUME NEW e \in Known PROVE ErrorInv!(e)'
    BY <1>1 DEF ErrorInv, Known
  <2>1. /\ ErrorInv!(e) /\ NoneAccepted(e)' = NoneAccepted(e) /\ events[e].sender \in Goroutine
        /\ e \in EventId /\ e # 0 /\ events[e].sender \in Conn
    BY <1>1, EventsAre, GoroutinesAre DEF RoutingInv, ErrorInv, NoneAccepted, Got, Origin
  <2>2. reply'[e] \in {"offline", "overloaded"} => NoneAccepted(e)
    <3>1. CASE e = e0 /\ returns
      BY <1>1, <1>3, <2>1, <3>1 DEF e0, returns
    <3>2. CASE ~ (e = e0 /\ returns)
      BY <1>7, <2>1, <3>2
    <3> QED BY <3>1, <3>2
  <2>3. CASE events[e].sender # g
    BY <1>1, <1>5, <2>1, <2>2, <2>3
  <2>4. CASE events[e].sender = g
    <3>1. job'[g].event = e => events[e].type # "private"
      BY <1>3, <1>5, <2>1, <2>4, IdleIs DEF returns
    <3> QED BY <1>1, <2>1, <2>2, <2>4, <3>1
  <2> QED BY <2>3, <2>4
<1>16. EntitledInv'
  <2> SUFFICES ASSUME NEW e \in EventId, NEW d \in entitled'[e] PROVE EntitledInv!(e)!(d)'
    BY DEF EntitledInv
  <2>1. EntitledInv!(e)!(d) /\ e \in Known /\ d \in Conn
    BY <1>6 DEF RoutingInv, EntitledInv, TypeOK
  <2>2. /\ Got(d, e)' = Got(d, e) /\ InStream(NodeOf[d], e)' = InStream(NodeOf[d], e)
        /\ Origin(e)' = Origin(e) /\ events'[e] = events[e] /\ Known' = Known /\ session' = session
        /\ Recipients(NodeOf[d], events[e])' = Recipients(NodeOf[d], events[e])
    BY <1>1 DEF Got, InStream, Origin, Known, Recipients, Audience, Addressee, sessions
  <2>3. /\ events[e].sender \in Goroutine /\ Home(events[e].sender) = Origin(e)
        /\ NodeOf[d] \in Goroutine /\ Home(NodeOf[d]) = NodeOf[d] /\ events[e].sender \in Conn
    BY <2>1, EventsAre, GoroutinesAre DEF RoutingInv, Origin
  <2>4. \A h \in Goroutine : Home(h) = NodeOf[d] /\ job[h].event = e => h # g
    BY <1>8 DEF e0
  <2>5. ASSUME job[events[e].sender].event = e PROVE job'[events[e].sender].event = e
    <3>1. CASE events[e].sender = g
      BY <1>5, <1>8, <2>5, <3>1 DEF e0
    <3>2. CASE events[e].sender # g
      BY <1>5, <2>3, <2>5, <3>2
    <3> QED BY <3>1, <3>2
  <2>6. \A h \in Goroutine : Home(h) = NodeOf[d] /\ Owes(h, d, e) => Owes(h, d, e)'
    BY <1>13, <2>1, <2>4 DEF Owes
  <2>7. job'[NodeOf[d]].event = e => job[NodeOf[d]].event = e
    BY <1>13, <2>1, <2>3
  <2> QED BY <2>1, <2>2, <2>3, <2>5, <2>6, <2>7
<1> QED BY <1>9, <1>10, <1>11, <1>12, <1>14, <1>15, <1>16 DEF RoutingInv

\* Whom a goroutine sends to: a session of its node, which for a reader is the
\* node of the event, and for a consumer another one.
LEMMA PendingIs ==
    ASSUME RoutingInv, NEW g \in Goroutine, job[g].stage = "deliver", NEW d \in job[g].pending
    PROVE  LET e == job[g].event IN
           /\ d \in Conn /\ e \in Known /\ NodeOf[d] = Home(g) /\ Addressed(d, e)
           /\ g \in Conn => events[e].sender = g /\ NodeOf[d] = Origin(e) /\ reply[e] = "none"
           /\ g \in Node => /\ NodeOf[d] = g /\ NodeOf[d] # Origin(e) /\ events[e].sender # g
                            /\ Len(stream[g]) > 0 /\ stream[g][1] = e
<1> DEFINE e == job[g].event
<1>1. d \in Conn /\ e \in Known /\ NodeOf[d] = Home(g) /\ Addressed(d, e)
  BY JobIs DEF RoutingInv, JobInv
<1>2. ASSUME g \in Conn PROVE events[e].sender = g /\ NodeOf[d] = Origin(e) /\ reply[e] = "none"
  BY <1>1, <1>2, GoroutinesAre DEF RoutingInv, ReaderInv, EventOf, Origin
<1>3. ASSUME g \in Node
      PROVE  /\ NodeOf[d] = g /\ NodeOf[d] # Origin(e) /\ events[e].sender # g
             /\ Len(stream[g]) > 0 /\ stream[g][1] = e
  BY <1>1, <1>3, GoroutinesAre, EventsAre DEF RoutingInv, ConsumerInv
<1> QED BY <1>1, <1>2, <1>3

\* An open session accepts an event.
LEMMA AcceptInv ==
    ASSUME RoutingInv, NEW g \in Goroutine, job[g].stage = "deliver", NEW d0 \in job[g].pending,
           inbox' = [inbox EXCEPT ![d0] = Append(@, job[g].event)],
           job' = [job EXCEPT ![g].pending = @ \ {d0}],
           UNCHANGED <<session, clients, members, events, stream, reply, repeated, entitled>>
    PROVE  RoutingInv'
<1> DEFINE e0 == job[g].event
<1>1. /\ d0 \in Conn /\ e0 \in Known /\ e0 \in EventId /\ NodeOf[d0] = Home(g) /\ Addressed(d0, e0)
      /\ g \in Conn => events[e0].sender = g /\ NodeOf[d0] = Origin(e0) /\ reply[e0] = "none"
      /\ g \in Node => /\ NodeOf[d0] = g /\ NodeOf[d0] # Origin(e0) /\ events[e0].sender # g
                       /\ Len(stream[g]) > 0 /\ stream[g][1] = e0
      /\ g \in Conn \/ g \in Node
  BY PendingIs, EventsAre, GoroutinesAre DEF RoutingInv
<1>2. /\ job'[g].stage = "deliver" /\ job'[g].event = e0 /\ job'[g].pending = job[g].pending \ {d0}
      /\ job'[g].found = job[g].found /\ job'[g].refused = job[g].refused
      /\ job' \in [Goroutine -> Job]
      /\ \A h \in Goroutine : h # g => job'[h] = job[h]
  <2>1. [job[g] EXCEPT !.pending = @ \ {d0}] \in Job
    BY JobIs DEF RoutingInv, Job
  <2> QED BY <2>1, JobIs DEF RoutingInv, TypeOK, Job
<1>3. /\ inbox[d0] \in Seq(EventId) /\ Len(inbox[d0]) \in Nat /\ inbox' \in [Conn -> Seq(EventId)]
      /\ DOMAIN inbox[d0] = 1..Len(inbox[d0]) /\ DOMAIN inbox'[d0] = 1..(Len(inbox[d0]) + 1)
      /\ inbox'[d0][Len(inbox[d0]) + 1] = e0
      /\ \A i \in 1..Len(inbox[d0]) : inbox'[d0][i] = inbox[d0][i]
      /\ \A d \in Conn : d # d0 => inbox'[d] = inbox[d]
  <2>1. inbox[d0] \in Seq(EventId) /\ inbox'[d0] = Append(inbox[d0], e0)
    BY <1>1 DEF RoutingInv, TypeOK
  <2>2. Append(inbox[d0], e0) \in Seq(EventId)
    BY <1>1, <2>1, AppendIs
  <2> QED BY <1>1, <2>1, <2>2, AppendIs DEF RoutingInv, TypeOK
<1>4. ASSUME NEW d \in Conn, NEW e
      PROVE  /\ Copies(d, e)' = IF d = d0 /\ e0 = e THEN Copies(d, e) + 1 ELSE Copies(d, e)
             /\ Got(d, e)' <=> Got(d, e) \/ (d = d0 /\ e0 = e)
             /\ Copies(d, e) \in Nat /\ (Copies(d, e) = 0 <=> ~ Got(d, e))
  <2>1. TypeOK /\ d0 \in Conn /\ e0 \in EventId /\ inbox' = [inbox EXCEPT ![d0] = Append(@, e0)]
    BY <1>1 DEF RoutingInv
  <2> HIDE DEF e0
  <2>2. /\ Copies(d, e)' = IF d = d0 /\ e0 = e THEN Copies(d, e) + 1 ELSE Copies(d, e)
        /\ Got(d, e)' <=> Got(d, e) \/ (d = d0 /\ e0 = e)
    BY ONLY <2>1, CopiesGrow, d \in Conn
  <2>3. Copies(d, e) \in Nat /\ (Copies(d, e) = 0 <=> ~ Got(d, e))
    BY ONLY <2>1, CopiesAre, d \in Conn
  <2> QED BY <2>2, <2>3
<1>5. \A h \in Goroutine, d \in Conn, e \in Known :
        /\ Owes(h, d, e)' <=> Owes(h, d, e) /\ ~ (h = g /\ d = d0 /\ e = e0)
        /\ job'[h].event = job[h].event
  BY <1>2 DEF Owes
<1>6. Owes(g, d0, e0)
  BY DEF Owes
<1> HIDE DEF e0
<1>7. TypeOK'
  BY <1>2, <1>3 DEF RoutingInv, TypeOK
<1>8. ClientsInv' /\ EventsInv' /\ StreamInv'
  BY DEF RoutingInv, ClientsInv, EventsInv, StreamInv, Known
<1>9. ReaderInv' /\ ConsumerInv'
  BY <1>2, GoingOn DEF e0
<1>10. JobInv'
  BY <1>1, <1>2 DEF RoutingInv, JobInv, Known, Addressed, SenderID, e0
<1>11. ASSUME NodeOf[d0] # Origin(e0)
       PROVE  /\ g \in Node /\ g = NodeOf[d0] /\ reply[e0] # "none" /\ InStream(g, e0)
              /\ \A k \in DOMAIN stream[g] :
                   events[stream[g][k]].sender = events[e0].sender /\ stream[g][k] < e0 =>
                       repeated[g][stream[g][k]] # 0
  <2>1. g \in Node /\ g = NodeOf[d0] /\ Len(stream[g]) > 0 /\ stream[g][1] = e0
    BY <1>1, <1>11
  <2>2. DOMAIN stream[g] = 1..Len(stream[g]) /\ Len(stream[g]) \in Nat /\ 1 \in DOMAIN stream[g]
    BY <2>1 DEF RoutingInv, TypeOK
  <2>3. StreamInv!1!(g)
    BY <2>1 DEF RoutingInv, StreamInv
  <2> QED BY <2>1, <2>2, <2>3 DEF InStream
<1>12. InboxInv'
  <2> SUFFICES ASSUME NEW d \in Conn, NEW i \in DOMAIN inbox'[d] PROVE InboxInv!(d)!(i)'
    BY DEF InboxInv
  <2>1. CASE d = d0 /\ i = Len(inbox[d0]) + 1
    <3>1. inbox'[d][i] = e0 /\ NodeOf[d] = NodeOf[d0]
      BY <1>3, <2>1
    <3>2. e0 \in Known' /\ Addressed(d, e0)
      BY <1>1, <2>1 DEF Known
    <3>3. NodeOf[d0] # Origin(e0) =>
            /\ reply'[e0] # "none"
            /\ \A k \in DOMAIN stream'[NodeOf[d0]] :
                 events'[stream'[NodeOf[d0]][k]].sender = events'[e0].sender /\ stream'[NodeOf[d0]][k] < e0 =>
                     repeated'[NodeOf[d0]][stream'[NodeOf[d0]][k]] # 0
      BY <1>11
    <3> QED BY <3>1, <3>2, <3>3 DEF Addressed, SenderID, Origin
  <2>2. CASE ~ (d = d0 /\ i = Len(inbox[d0]) + 1)
    <3>1. i \in DOMAIN inbox[d] /\ inbox'[d][i] = inbox[d][i]
      BY <1>3, <2>2
    <3>2. InboxInv!(d)!(i)
      BY <3>1 DEF RoutingInv, InboxInv
    <3> QED BY <3>1, <3>2 DEF Known, Addressed, SenderID, Origin
  <2> QED BY <2>1, <2>2
<1>13. CopyInv'
  <2> SUFFICES ASSUME NEW d \in Conn, NEW e \in Known PROVE CopyInv!(d, e)'
    BY DEF CopyInv, Known
  <2>1. CopyInv!(d, e)
    BY DEF RoutingInv, CopyInv
  <2>2. events[e].sender \in Goroutine /\ NodeOf[d] \in Goroutine
    BY EventsAre, GoroutinesAre DEF RoutingInv
  <2>3. /\ Repeats(d, e)' = Repeats(d, e) /\ Repeats(d, e) \in Nat
        /\ InStream(NodeOf[d], e)' = InStream(NodeOf[d], e) /\ Origin(e)' = Origin(e)
    BY RepeatsAre DEF RoutingInv, InStream, Origin, Repeats
  <2>4. CASE d = d0 /\ e = e0
    <3>1. CASE NodeOf[d0] = Origin(e0)
      <4>1. g \in Conn /\ events[e0].sender = g
        BY <1>1, <3>1
      <4>2. ~ Got(d, e) /\ Copies(d, e) = 0
        BY <1>4, <1>6, <2>1, <2>4, <3>1, <4>1
      <4>3. Copies(d, e)' = 1 /\ ~ Owes(g, d, e)'
        BY <1>1, <1>4, <1>5, <2>4, <4>2
      <4> QED BY <2>3, <2>4, <3>1, <4>1, <4>3
    <3>2. CASE NodeOf[d0] # Origin(e0)
      <4>1. Copies(d, e) <= Repeats(d, e)
        BY <1>6, <1>11, <2>1, <2>4, <3>2
      <4>2. Copies(d, e)' <= Repeats(d, e) + 1
        BY <1>4, <2>3, <2>4, <4>1
      <4>3. job'[NodeOf[d]].event = e /\ ~ Owes(NodeOf[d], d, e)'
        BY <1>1, <1>2, <1>5, <1>11, <2>4, <3>2
      <4> QED BY <2>3, <2>4, <3>2, <4>2, <4>3
    <3> QED BY <3>1, <3>2
  <2>5. CASE ~ (d = d0 /\ e = e0)
    <3>1. Copies(d, e)' = Copies(d, e) /\ (Got(d, e)' <=> Got(d, e))
      BY <1>4, <2>5
    <3>2. /\ Owes(events[e].sender, d, e)' => Owes(events[e].sender, d, e)
          /\ Owes(NodeOf[d], d, e)' => Owes(NodeOf[d], d, e)
          /\ job'[NodeOf[d]].event = job[NodeOf[d]].event
      BY <1>5, <2>2
    <3> QED BY <2>1, <2>3, <3>1, <3>2
  <2> QED BY <2>4, <2>5
<1>14. ErrorInv'
  <2> SUFFICES ASSUME NEW e \in Known PROVE ErrorInv!(e)'
    BY DEF ErrorInv, Known
  <2>1. /\ ErrorInv!(e) /\ events[e].sender \in Goroutine /\ Origin(e)' = Origin(e)
    BY EventsAre, GoroutinesAre DEF RoutingInv, ErrorInv, Origin
  <2>2. e # e0 \/ NodeOf[d0] # Origin(e0) => NoneAccepted(e)' = NoneAccepted(e)
    BY <1>4, <2>1 DEF NoneAccepted
  <2>3. CASE e = e0 /\ g \in Conn
    <3>1. reply[e] = "none" /\ events[e].sender = g
      BY <1>1, <2>3
    <3>2. ASSUME events[e].type = "private"
          PROVE  /\ job'[g].found /\ ~ job'[g].refused /\ job'[g].pending = {}
                 /\ job'[g].stage = "deliver"
      BY <1>2, <2>1, <2>3, <3>1, <3>2 DEF e0
    <3> QED BY <3>1, <3>2
  <2>4. CASE e = e0 /\ g \in Node
    <3>1. NoneAccepted(e)' = NoneAccepted(e) /\ events[e].sender # g
      BY <1>1, <2>2, <2>4
    <3> QED BY <1>2, <2>1, <3>1
  <2>5. CASE e # e0
    <3>1. job'[events[e].sender].event = e => job'[events[e].sender] = job[events[e].sender]
      BY <1>2, <2>1, <2>5
    <3> QED BY <2>1, <2>2, <2>5, <3>1
  <2> QED BY <1>1, <2>3, <2>4, <2>5
<1>15. EntitledInv'
  <2> SUFFICES ASSUME NEW e \in EventId, NEW d \in entitled[e] PROVE EntitledInv!(e)!(d)'
    BY DEF EntitledInv
  <2>1. EntitledInv!(e)!(d) /\ e \in Known /\ d \in Conn
    BY DEF RoutingInv, EntitledInv, TypeOK
  <2>2. /\ InStream(NodeOf[d], e)' = InStream(NodeOf[d], e) /\ Origin(e)' = Origin(e) /\ Known' = Known
        /\ Recipients(NodeOf[d], events[e])' = Recipients(NodeOf[d], events[e])
    BY DEF InStream, Origin, Known, Recipients, Audience, Addressee
  <2>3. events[e].sender \in Goroutine /\ NodeOf[d] \in Goroutine
    BY <2>1, EventsAre, GoroutinesAre DEF RoutingInv
  <2>4. CASE d = d0 /\ e = e0
    BY <1>4, <2>1, <2>2, <2>4
  <2>5. CASE ~ (d = d0 /\ e = e0)
    BY <1>4, <1>5, <2>1, <2>2, <2>3, <2>5
  <2> QED BY <2>4, <2>5
<1>16. SenderOrder'
  <2> SUFFICES ASSUME NEW d \in Conn, NEW i \in DOMAIN inbox'[d], NEW k \in DOMAIN inbox'[d],
                      events[inbox'[d][i]].sender = events[inbox'[d][k]].sender,
                      inbox'[d][i] < inbox'[d][k], repeated[NodeOf[d]][inbox'[d][i]] = 0
               PROVE  i < k
    <3>1. ASSUME NEW d \in Conn, NEW i \in DOMAIN inbox'[d], NEW k \in DOMAIN inbox'[d],
                 events[inbox'[d][i]].sender = events[inbox'[d][k]].sender
                 /\ inbox'[d][i] < inbox'[d][k] /\ repeated[NodeOf[d]][inbox'[d][i]] = 0 => i < k
          PROVE  SenderOrder!(d)!(i, k)'
      BY <3>1
    <3> QED BY <3>1 DEF SenderOrder
  <2>1. CASE d # d0
    BY <1>3, <2>1 DEF RoutingInv, SenderOrder
  <2>2. CASE d = d0 /\ i \in DOMAIN inbox[d0] /\ k \in DOMAIN inbox[d0]
    BY <1>3, <2>2 DEF RoutingInv, SenderOrder
  <2>3. CASE d = d0 /\ i \in DOMAIN inbox[d0] /\ k = Len(inbox[d0]) + 1
    BY <1>3, <2>3
  <2>4. CASE d = d0 /\ i = Len(inbox[d0]) + 1 /\ k = Len(inbox[d0]) + 1
    BY <1>1, <1>3, <2>4 DEF EventId
  <2>5. CASE d = d0 /\ i = Len(inbox[d0]) + 1 /\ k \in DOMAIN inbox[d0]
    <3> DEFINE f == inbox[d0][k]
    <3>1. /\ events[e0].sender = events[f].sender /\ e0 < f /\ repeated[NodeOf[d0]][e0] = 0
          /\ InboxInv!(d0)!(k)
      BY <1>1, <1>3, <2>5 DEF RoutingInv, InboxInv
    <3>2. f \in Known /\ Origin(f) = Origin(e0) /\ f \in Nat /\ e0 \in Nat
      BY <1>1, <3>1, EventsAre DEF RoutingInv, Origin
    <3>3. CASE g \in Conn
      <4>1. f <= e0
        BY <1>1, <3>1, <3>2, <3>3 DEF RoutingInv, ReaderInv, e0
      <4> QED BY <3>1, <3>2, <4>1
    <3>4. CASE g \in Node
      <4>1. NodeOf[d0] # Origin(f) /\ NodeOf[d0] = g /\ stream[g][1] = e0 /\ 1 \in DOMAIN stream[g]
        BY <1>1, <3>2, <3>4 DEF RoutingInv, TypeOK
      <4> QED BY <3>1, <4>1
    <3> QED BY <1>1, <3>3, <3>4
  <2> QED BY <1>3, <2>1, <2>2, <2>3, <2>4, <2>5
<1> QED BY <1>7, <1>8, <1>9, <1>10, <1>12, <1>13, <1>14, <1>15, <1>16 DEF RoutingInv

\* A session refuses an event, or is closed by it: it has no claim any more.
LEMMA RefuseInv ==
    ASSUME RoutingInv, NEW g \in Goroutine, job[g].stage = "deliver", NEW d0 \in job[g].pending,
           session' = [session EXCEPT ![d0] = IF @ = "open" THEN "closing" ELSE @],
           job' = [job EXCEPT ![g].pending = @ \ {d0}, ![g].refused = TRUE],
           Disentitle({d0}),
           UNCHANGED <<inbox, clients, members, events, stream, reply, repeated>>
    PROVE  RoutingInv'
<1> DEFINE e0 == job[g].event
<1>1. /\ d0 \in Conn /\ e0 \in Known /\ NodeOf[d0] = Home(g) /\ Addressed(d0, e0)
      /\ g \in Conn => events[e0].sender = g
  BY PendingIs DEF RoutingInv
<1>2. /\ job'[g].stage = "deliver" /\ job'[g].event = e0 /\ job'[g].pending = job[g].pending \ {d0}
      /\ job'[g].found = job[g].found /\ job'[g].refused = TRUE
      /\ job' \in [Goroutine -> Job]
      /\ \A h \in Goroutine : h # g => job'[h] = job[h]
  <2>1. [[job[g] EXCEPT !.pending = @ \ {d0}] EXCEPT !.refused = TRUE] \in Job
    BY JobIs DEF RoutingInv, Job
  <2> QED BY <2>1, JobIs DEF RoutingInv, TypeOK, Job
<1>3. /\ session' \in [Conn -> {"none", "open", "closing", "closed"}]
      /\ \A d \in Conn : d # d0 => session'[d] = session[d]
      /\ entitled' \in [EventId -> SUBSET Conn]
      /\ \A e \in EventId : entitled'[e] = entitled[e] \ {d0}
  BY <1>1 DEF RoutingInv, TypeOK, Disentitle
<1>4. \A h \in Goroutine, d \in Conn, e \in Known :
        /\ Owes(h, d, e)' => Owes(h, d, e)
        /\ Owes(h, d, e) /\ d # d0 => Owes(h, d, e)'
        /\ job'[h].event = job[h].event
  BY <1>2 DEF Owes
<1> HIDE DEF e0
<1>5. TypeOK'
  BY <1>2, <1>3 DEF RoutingInv, TypeOK
<1>6. ClientsInv' /\ EventsInv' /\ StreamInv' /\ InboxInv' /\ SenderOrder'
  <2>1. \A e \in EventId : (reply[e] # "none" => reply'[e] # "none") /\ (reply'[e] # "none" => e \in Known)
    BY DEF RoutingInv, StreamInv
  <2> QED BY <2>1, RepliesGrow
<1>7. ReaderInv' /\ ConsumerInv'
  BY <1>2, GoingOn DEF e0
<1>8. JobInv'
  <2> SUFFICES ASSUME NEW h \in Goroutine PROVE JobInv!(h)'
    BY DEF JobInv
  <2>1. JobInv!(h)
    BY DEF RoutingInv, JobInv
  <2>2. CASE h = g
    BY <1>1, <1>2, <2>1, <2>2 DEF Known, Addressed, SenderID, e0
  <2>3. CASE h # g
    BY <1>2, <2>1, <2>3 DEF Known, Addressed, SenderID
  <2> QED BY <2>2, <2>3
<1>9. CopyInv'
  <2>1. \A n \in Node : job'[n].event = job[n].event
    BY <1>2, GoroutinesAre DEF e0
  <2> QED BY <1>4, <2>1, OwingLess
<1>10. ErrorInv'
  <2> SUFFICES ASSUME NEW e \in Known PROVE ErrorInv!(e)'
    BY DEF ErrorInv, Known
  <2>1. ErrorInv!(e) /\ NoneAccepted(e)' = NoneAccepted(e) /\ events[e].sender \in Goroutine
    BY EventsAre, GoroutinesAre DEF RoutingInv, ErrorInv, NoneAccepted, Got, Origin
  <2>2. CASE events[e].sender # g
    <3>1. job'[events[e].sender] = job[events[e].sender]
      BY <1>2, <2>1, <2>2
    <3> QED BY <2>1, <3>1
  <2>3. CASE events[e].sender = g
    <3>1. CASE e = e0 /\ events[e].type = "private"
      <4>1. /\ NoneAccepted(e) /\ \A d1, d2 \in job[g].pending : d1 = d2
        BY <2>1, <2>3, <3>1 DEF e0
      <4>2. job'[g].pending = {}
        BY <1>2, <4>1
      <4> QED BY <1>2, <2>1, <2>3, <4>1, <4>2
    <3>2. CASE ~ (e = e0 /\ events[e].type = "private")
      BY <1>2, <2>1, <2>3, <3>2
    <3> QED BY <3>1, <3>2
  <2> QED BY <2>2, <2>3
<1>11. EntitledInv'
  <2> SUFFICES ASSUME NEW e \in EventId, NEW d \in entitled'[e] PROVE EntitledInv!(e)!(d)'
    BY DEF EntitledInv
  <2>1. EntitledInv!(e)!(d) /\ e \in Known /\ d \in Conn /\ d # d0
    BY <1>3 DEF RoutingInv, EntitledInv, TypeOK
  <2>2. /\ Got(d, e)' = Got(d, e) /\ InStream(NodeOf[d], e)' = InStream(NodeOf[d], e)
        /\ Origin(e)' = Origin(e) /\ events'[e] = events[e] /\ Known' = Known
        /\ Recipients(NodeOf[d], events[e])' = Recipients(NodeOf[d], events[e])
    BY DEF Got, InStream, Origin, Known, Recipients, Audience, Addressee
  <2>3. events[e].sender \in Goroutine /\ NodeOf[d] \in Goroutine
    BY <2>1, EventsAre, GoroutinesAre DEF RoutingInv
  <2> QED BY <1>3, <1>4, <2>1, <2>2, <2>3
<1> QED BY <1>5, <1>6, <1>7, <1>8, <1>9, <1>10, <1>11 DEF RoutingInv

\* One recipient of a snapshot is served.
LEMMA DeliverInv ==
    ASSUME RoutingInv, NEW g \in Goroutine, Deliver(g)
    PROVE  RoutingInv'
<1>1. PICK d \in job[g].pending : Deliver(g)!(d)
  BY DEF Deliver
<1>2. CASE Deliver(g)!(d)!2!1
  BY <1>1, <1>2, AcceptInv
<1>3. CASE Deliver(g)!(d)!2!2
  BY <1>1, <1>3, RefuseInv
<1> QED BY <1>1, <1>2, <1>3

\* What a reader is about to publish nobody else has.
LEMMA UnpublishedIs ==
    ASSUME RoutingInv, NEW c \in Conn, job[c].stage = "publish"
    PROVE  LET e == job[c].event IN
           /\ e \in Known /\ e \in EventId /\ e \in Nat /\ e # 0 /\ events[e].sender = c /\ reply[e] = "none"
           /\ job[c].pending = {}
           /\ \A f \in Known : events[f].sender = c => f <= e
           /\ \A n \in Node : ~ InStream(n, e) /\ repeated[n][e] = 0 /\ job[n].event # e
           /\ \A d \in Conn : NodeOf[d] # Origin(e) => ~ Got(d, e) /\ Copies(d, e) = 0
<1> DEFINE e == job[c].event
<1>1. /\ e \in Known /\ e \in EventId /\ e \in Nat /\ e # 0 /\ events[e].sender = c /\ reply[e] = "none"
      /\ job[c].pending = {}
      /\ \A f \in Known : events[f].sender = c => f <= e
  BY EventsAre, GoroutinesAre DEF RoutingInv, JobInv, ReaderInv, EventOf
<1> HIDE DEF e
<1>2. \A n \in Node : ~ InStream(n, e) /\ repeated[n][e] = 0
  BY <1>1 DEF RoutingInv, StreamInv, InStream
<1>3. ASSUME NEW n \in Node PROVE job[n].event # e
  <2>1. CASE job[n].stage = "idle"
    BY <1>1, <2>1, IdleIs, GoroutinesAre DEF RoutingInv, JobInv
  <2>2. CASE job[n].stage # "idle"
    <3>1. Len(stream[n]) > 0 /\ job[n].event = stream[n][1] /\ stream[n] \in Seq(EventId)
      BY <2>2 DEF RoutingInv, ConsumerInv, TypeOK
    <3>2. 1 \in DOMAIN stream[n]
      BY <3>1
    <3> QED BY <1>2, <3>1, <3>2 DEF InStream
  <2> QED BY <2>1, <2>2
<1>4. ASSUME NEW d \in Conn, NodeOf[d] # Origin(e) PROVE ~ Got(d, e) /\ Copies(d, e) = 0
  <2>1. ~ Got(d, e)
    BY <1>1, <1>4 DEF RoutingInv, InboxInv, Got
  <2> QED BY <2>1, CopiesAre DEF RoutingInv
<1> QED BY <1>1, <1>2, <1>3, <1>4 DEF e

\* The reader has answered its command and is idle again; the event may have
\* been stored.
LEMMA PublishInv ==
    ASSUME RoutingInv, NEW c \in Conn, Publish(c)
    PROVE  RoutingInv'
<1>0. PICK e0 \in EventId : e0 = job[c].event
  BY UnpublishedIs DEF Publish
<1>1. /\ job[c].stage = "publish" /\ job' = [job EXCEPT ![c] = Idle]
      /\ UNCHANGED <<session, clients, members, events, inbox, repeated>>
      /\ \/ /\ stream' = [n \in Node |-> Append(stream[n], e0)] /\ entitled' = entitled
         \/ /\ stream' = stream
            /\ entitled' = [entitled EXCEPT ![e0] = {d \in @ : NodeOf[d] = Home(c)}]
      /\ \/ reply' = [reply EXCEPT ![e0] = "ack"]
         \/ reply' = [reply EXCEPT ![e0] = Unpublished(c)]
  BY <1>0 DEF Publish, sessions
<1>2. /\ e0 \in Known /\ e0 \in EventId /\ e0 \in Nat /\ e0 # 0 /\ events[e0].sender = c /\ reply[e0] = "none"
      /\ job[c].pending = {} /\ job[c].stage = "publish"
      /\ \A f \in Known : events[f].sender = c => f <= e0
      /\ \A n \in Node : ~ InStream(n, e0) /\ repeated[n][e0] = 0 /\ job[n].event # e0
      /\ \A d \in Conn : NodeOf[d] # Origin(e0) => ~ Got(d, e0) /\ Copies(d, e0) = 0
  BY <1>0, <1>1, UnpublishedIs
<1>3. /\ job'[c] = Idle /\ job' \in [Goroutine -> Job]
      /\ \A h \in Goroutine : h # c => job'[h] = job[h]
      /\ \A n \in Node : job'[n] = job[n]
  BY <1>1, IdleIs, GoroutinesAre DEF RoutingInv, TypeOK
<1>4. /\ Unpublished(c) \in {"ack", "offline", "overloaded"}
      /\ Unpublished(c) # "ack" => events[e0].type # "broadcast" /\ (~ job[c].found \/ job[c].refused)
  BY <1>0 DEF Unpublished, EventOf
<1>5. /\ reply' \in [EventId -> {"none", "ack", "offline", "overloaded"}]
      /\ reply'[e0] \in {"ack", "offline", "overloaded"}
      /\ reply'[e0] # "ack" => events[e0].type # "broadcast" /\ (~ job[c].found \/ job[c].refused)
      /\ \A e \in EventId : e # e0 => reply'[e] = reply[e]
  <2>1. reply \in [EventId -> {"none", "ack", "offline", "overloaded"}]
    BY DEF RoutingInv, TypeOK
  <2>2. PICK r \in {"ack", "offline", "overloaded"} :
          /\ reply' = [reply EXCEPT ![e0] = r]
          /\ r # "ack" => events[e0].type # "broadcast" /\ (~ job[c].found \/ job[c].refused)
    BY <1>1, <1>4
  <2> QED BY <2>1, <2>2
<1> DEFINE stored == stream' = [n \in Node |-> Append(stream[n], e0)]
<1>6. ASSUME NEW n \in Node
      PROVE  /\ stream[n] \in Seq(EventId) /\ stream'[n] \in Seq(EventId)
             /\ Len(stream[n]) \in Nat /\ DOMAIN stream[n] = 1..Len(stream[n])
             /\ \A i \in DOMAIN stream[n] : i \in DOMAIN stream'[n] /\ stream'[n][i] = stream[n][i]
             /\ \A i \in DOMAIN stream'[n] :
                  i \in DOMAIN stream[n] \/ (i = Len(stream[n]) + 1 /\ stream'[n][i] = e0)
             /\ stored => InStream(n, e0)'
  <2>1. /\ stream[n] \in Seq(EventId) /\ Len(stream[n]) \in Nat /\ DOMAIN stream[n] = 1..Len(stream[n])
    BY DEF RoutingInv, TypeOK
  <2>2. CASE stored
    <3>1. stream'[n] = Append(stream[n], e0)
      BY <2>2
    <3>2. /\ stream'[n] \in Seq(EventId) /\ DOMAIN stream'[n] = 1..(Len(stream[n]) + 1)
          /\ stream'[n][Len(stream[n]) + 1] = e0
          /\ \A i \in 1..Len(stream[n]) : stream'[n][i] = stream[n][i]
      BY <1>2, <2>1, <3>1, AppendIs
    <3>3. InStream(n, e0)'
      BY <2>1, <3>2 DEF InStream
    <3> QED BY <2>1, <3>2, <3>3
  <2>3. CASE ~ stored
    BY <1>1, <2>1, <2>3
  <2> QED BY <2>2, <2>3
<1> HIDE DEF stored
<1>7. \A n \in Node, e \in EventId :
        /\ InStream(n, e) => InStream(n, e)'
        /\ InStream(n, e)' => InStream(n, e) \/ e = e0
  BY <1>6 DEF InStream
<1>8. \A d \in Conn, e \in EventId :
        /\ Got(d, e)' = Got(d, e) /\ Copies(d, e)' = Copies(d, e) /\ Repeats(d, e)' = Repeats(d, e)
        /\ Origin(e)' = Origin(e) /\ Known' = Known
  BY <1>1 DEF Got, Copies, Repeats, Origin, Known
<1>9. TypeOK'
  <2>1. stream' \in [Node -> Seq(EventId)]
    BY <1>1, <1>6 DEF RoutingInv, TypeOK
  <2>2. entitled' \in [EventId -> SUBSET Conn]
    <3>1. entitled \in [EventId -> SUBSET Conn]
      BY DEF RoutingInv, TypeOK
    <3> QED BY <1>1, <3>1
  <2> QED BY <1>1, <1>3, <1>5, <2>1, <2>2 DEF RoutingInv, TypeOK
<1>10. ClientsInv' /\ EventsInv' /\ SenderOrder'
  <2>1. ClientsInv' /\ EventsInv'
    BY <1>1 DEF RoutingInv, ClientsInv, EventsInv, Known
  <2>2. SenderOrder'
    BY <1>1 DEF RoutingInv, SenderOrder
  <2> QED BY <2>1, <2>2
<1>11. JobInv'
  <2> SUFFICES ASSUME NEW h \in Goroutine PROVE JobInv!(h)'
    BY DEF JobInv
  <2>1. CASE h = c
    BY <1>3, <2>1, IdleIs
  <2>2. CASE h # c
    BY <1>1, <1>3, <2>2 DEF RoutingInv, JobInv, Known, Addressed, SenderID
  <2> QED BY <2>1, <2>2
<1>12. ReaderInv'
  <2> SUFFICES ASSUME NEW b \in Conn, job'[b].stage # "idle" PROVE ReaderInv!(b)!2'
    BY DEF ReaderInv
  <2>1. b # c /\ job'[b] = job[b]
    BY <1>3, IdleIs, GoroutinesAre
  <2>2. ReaderInv!(b)!2 /\ job[b].event \in Known /\ job[b].event \in EventId
    BY <2>1, GoroutinesAre, EventsAre DEF RoutingInv, ReaderInv, JobInv
  <2>3. job[b].event # e0
    BY <1>2, <2>1, <2>2 DEF EventOf
  <2> QED BY <1>1, <1>5, <2>1, <2>2, <2>3 DEF EventOf, Known
<1>13. ConsumerInv'
  <2> SUFFICES ASSUME NEW n \in Node, job'[n].stage # "idle" PROVE ConsumerInv!(n)!2'
    BY DEF ConsumerInv
  <2>1. job'[n] = job[n] /\ ConsumerInv!(n)!2
    BY <1>3 DEF RoutingInv, ConsumerInv
  <2>2. stream'[n][1] = stream[n][1] /\ Len(stream'[n]) > 0
    <3>1. 1 \in DOMAIN stream[n]
      BY <1>6, <2>1
    <3>2. 1 \in DOMAIN stream'[n] /\ stream'[n][1] = stream[n][1] /\ stream'[n] \in Seq(EventId)
      BY <1>6, <3>1
    <3> QED BY <3>2
  <2> QED BY <1>1, <2>1, <2>2 DEF Origin
<1>14. StreamInv'
  <2>1. ASSUME NEW n \in Node, NEW i \in DOMAIN stream'[n]
        PROVE  stream'[n][i] \in Known /\ reply'[stream'[n][i]] # "none"
    <3>1. CASE i \in DOMAIN stream[n]
      <4>1. stream'[n][i] = stream[n][i] /\ stream[n][i] \in EventId
        BY <1>6, <3>1
      <4>2. stream[n][i] \in Known /\ reply[stream[n][i]] # "none"
        BY <3>1 DEF RoutingInv, StreamInv
      <4> QED BY <1>5, <4>1, <4>2
    <3>2. CASE stream'[n][i] = e0
      BY <1>2, <1>5, <3>2
    <3> QED BY <1>6, <2>1, <3>1, <3>2
  <2>2. ASSUME NEW n \in Node, NEW i \in DOMAIN stream'[n], NEW k \in DOMAIN stream'[n],
               stream'[n][i] = stream'[n][k]
        PROVE  i = k
    <3>1. ASSUME NEW x \in DOMAIN stream[n] PROVE stream'[n][x] = stream[n][x] /\ stream[n][x] # e0
      <4>1. stream'[n][x] = stream[n][x]
        BY <1>6, <3>1
      <4>2. ~ InStream(n, e0)
        BY <1>2
      <4> QED BY <3>1, <4>1, <4>2 DEF InStream
    <3>2. CASE i \in DOMAIN stream[n] /\ k \in DOMAIN stream[n]
      BY <2>2, <3>1, <3>2 DEF RoutingInv, StreamInv
    <3>3. CASE ~ (i \in DOMAIN stream[n] /\ k \in DOMAIN stream[n])
      BY <1>6, <2>2, <3>1, <3>3
    <3> QED BY <3>2, <3>3
  <2>3. ASSUME NEW n \in Node, NEW i \in DOMAIN stream'[n], NEW k \in DOMAIN stream'[n],
               events[stream'[n][i]].sender = events[stream'[n][k]].sender,
               stream'[n][i] < stream'[n][k], repeated[n][stream'[n][i]] = 0
        PROVE  i < k
    <3>1. stream'[n][k] \in Known /\ stream'[n][k] \in Nat
      BY <2>1, EventsAre DEF RoutingInv
    <3>2. CASE i \in DOMAIN stream[n] /\ k \in DOMAIN stream[n]
      <4>1. stream'[n][i] = stream[n][i] /\ stream'[n][k] = stream[n][k]
        BY <1>6, <3>2
      <4> QED BY <2>3, <3>2, <4>1 DEF RoutingInv, StreamInv
    <3>3. CASE i \in DOMAIN stream[n] /\ k \notin DOMAIN stream[n]
      BY <1>6, <3>3
    <3>4. CASE i \notin DOMAIN stream[n]
      <4>1. stream'[n][i] = e0
        BY <1>6, <3>4
      <4>2. events[stream'[n][k]].sender = c
        BY <1>2, <2>3, <4>1
      <4>3. stream'[n][k] <= e0
        BY <1>2, <3>1, <4>2
      <4> QED BY <1>2, <2>3, <3>1, <4>1, <4>3
    <3> QED BY <3>2, <3>3, <3>4
  <2>4. \A n \in Node, e \in EventId : repeated[n][e] # 0 => reply'[e] # "none"
    BY <1>5 DEF RoutingInv, StreamInv
  <2>5. \A e \in EventId : reply'[e] # "none" => e \in Known
    BY <1>2, <1>5 DEF RoutingInv, StreamInv
  <2> QED BY <1>1, <1>8, <2>1, <2>2, <2>3, <2>4, <2>5 DEF StreamInv, Known
<1>15. InboxInv'
  <2> SUFFICES ASSUME NEW d \in Conn, NEW i \in DOMAIN inbox[d] PROVE InboxInv!(d)!(i)'
    BY <1>1 DEF InboxInv
  <2> DEFINE f == inbox[d][i]
             n == NodeOf[d]
  <2>1. InboxInv!(d)!(i) /\ f \in Known /\ n \in Node
    BY DEF RoutingInv, InboxInv
  <2>2. f \in EventId /\ f \in Nat
    BY <2>1, EventsAre DEF RoutingInv
  <2>3. reply[f] # "none" => reply'[f] # "none"
    BY <1>5, <2>2
  <2>4. ASSUME n # Origin(f), NEW k \in DOMAIN stream'[n],
               events[stream'[n][k]].sender = events[f].sender, stream'[n][k] < f
        PROVE  repeated[n][stream'[n][k]] # 0
    <3>1. CASE k \in DOMAIN stream[n]
      <4>1. stream'[n][k] = stream[n][k]
        BY <1>6, <2>1, <3>1
      <4> QED BY <2>1, <2>4, <3>1, <4>1
    <3>2. CASE k \notin DOMAIN stream[n]
      <4>1. stream'[n][k] = e0
        BY <1>6, <2>1, <2>4, <3>2
      <4>2. f <= e0
        BY <1>2, <2>1, <2>4, <4>1
      <4> QED BY <1>2, <2>2, <2>4, <4>1, <4>2
    <3> QED BY <3>1, <3>2
  <2> QED BY <1>1, <2>1, <2>3, <2>4 DEF Known, Addressed, SenderID, Origin
<1>16. CopyInv'
  <2> SUFFICES ASSUME NEW d \in Conn, NEW e \in Known PROVE CopyInv!(d, e)'
    BY <1>1 DEF CopyInv, Known
  <2>1. CopyInv!(d, e) /\ events'[e] = events[e]
    BY <1>1 DEF RoutingInv, CopyInv
  <2>2. events[e].sender \in Goroutine /\ NodeOf[d] \in Node /\ e \in EventId /\ e # 0
    BY EventsAre, GoroutinesAre DEF RoutingInv
  <2>3. /\ Owes(events[e].sender, d, e)' => Owes(events[e].sender, d, e)
        /\ job'[NodeOf[d]] = job[NodeOf[d]]
    BY <1>3, <2>1, <2>2, IdleIs DEF Owes
  <2>4. Repeats(d, e) \in Nat
    BY RepeatsAre DEF RoutingInv
  <2>5. CASE e = e0
    <3>1. NodeOf[d] # Origin(e) => Copies(d, e) = 0
      BY <1>2, <2>5
    <3> QED BY <1>8, <2>1, <2>2, <2>3, <2>4, <3>1
  <2>6. CASE e # e0
    BY <1>7, <1>8, <2>1, <2>2, <2>3, <2>6 DEF Owes
  <2> QED BY <2>5, <2>6
<1>17. ErrorInv'
  <2> SUFFICES ASSUME NEW e \in Known PROVE ErrorInv!(e)'
    BY <1>1 DEF ErrorInv, Known
  <2>1. /\ ErrorInv!(e) /\ events'[e] = events[e] /\ NoneAccepted(e)' = NoneAccepted(e)
    BY <1>1 DEF RoutingInv, ErrorInv, NoneAccepted, Got, Origin
  <2>2. /\ events[e].sender \in Goroutine /\ e \in EventId /\ e # 0
        /\ events[e].type \in {"broadcast", "private"}
    BY EventsAre, GoroutinesAre DEF RoutingInv
  <2>3. reply'[e] \in {"offline", "overloaded"} => NoneAccepted(e)
    <3>1. CASE e = e0
      BY <1>0, <1>2, <1>5, <2>1, <2>2, <3>1
    <3>2. CASE e # e0
      BY <1>5, <2>1, <2>2, <3>2
    <3> QED BY <3>1, <3>2
  <2>4. job'[events[e].sender].event = e => job'[events[e].sender] = job[events[e].sender]
    BY <1>3, <2>2, IdleIs
  <2> QED BY <2>1, <2>3, <2>4
<1>18. EntitledInv'
  <2> SUFFICES ASSUME NEW e \in EventId, NEW d \in entitled'[e] PROVE EntitledInv!(e)!(d)'
    BY DEF EntitledInv
  <2>1. /\ d \in entitled[e]
        /\ e = e0 => stored \/ NodeOf[d] = Origin(e0)
    <3>1. Home(c) = Origin(e0) /\ entitled \in [EventId -> SUBSET Conn]
      BY <1>2, GoroutinesAre DEF RoutingInv, TypeOK, Origin
    <3>2. CASE entitled' = entitled /\ stored
      BY <3>2
    <3>3. CASE entitled' = [entitled EXCEPT ![e0] = {x \in @ : NodeOf[x] = Home(c)}]
      BY <1>2, <3>1, <3>3
    <3> QED BY <1>1, <3>2, <3>3 DEF stored
  <2>2. EntitledInv!(e)!(d) /\ e \in Known /\ d \in Conn
    BY <2>1 DEF RoutingInv, EntitledInv, TypeOK
  <2>3. /\ Recipients(NodeOf[d], events[e])' = Recipients(NodeOf[d], events[e])
        /\ session' = session /\ events'[e] = events[e]
    BY <1>1 DEF Recipients, Audience, Addressee
  <2>4. events[e].sender \in Goroutine /\ NodeOf[d] \in Node
    BY <2>2, EventsAre, GoroutinesAre DEF RoutingInv
  <2>5. job'[NodeOf[d]] = job[NodeOf[d]] /\ Owes(NodeOf[d], d, e)' = Owes(NodeOf[d], d, e)
    BY <1>3, <2>4 DEF Owes
  <2>6. CASE e = e0
    <3>1. ~ Owes(events[e].sender, d, e)
      BY <1>2, <2>6 DEF Owes
    <3>2. NodeOf[d] # Origin(e) => InStream(NodeOf[d], e)' /\ job[NodeOf[d]].event # e
      BY <1>2, <1>6, <2>1, <2>4, <2>6
    <3> QED BY <1>8, <2>2, <2>3, <2>5, <3>1, <3>2
  <2>7. CASE e # e0
    <3>1. job[events[e].sender].event = e => job'[events[e].sender] = job[events[e].sender]
      BY <1>0, <1>3, <2>4, <2>7
    <3>2. Owes(events[e].sender, d, e) => Owes(events[e].sender, d, e)'
      BY <2>3, <3>1 DEF Owes
    <3> QED BY <1>7, <1>8, <2>2, <2>3, <2>4, <2>5, <3>1, <3>2
  <2> QED BY <2>6, <2>7
<1> QED BY <1>9, <1>10, <1>11, <1>12, <1>13, <1>14, <1>15, <1>16, <1>17, <1>18 DEF RoutingInv

\* A consumer takes the head of its stream: it owes it to the sessions of its
\* node, unless the event is the node's own.
LEMMA HandleBrokerEventInv ==
    ASSUME RoutingInv, NEW n \in Node, HandleBrokerEvent(n)
    PROVE  RoutingInv'
<1> DEFINE e0 == Head(stream[n])
           stage == IF Origin(e0) = n THEN "ack" ELSE "local"
<1>1. /\ job[n] = Idle /\ stream[n] # << >>
      /\ job' = [job EXCEPT ![n] = [Idle EXCEPT !.event = e0, !.stage = stage]]
      /\ UNCHANGED <<sessions, events, stream, inbox, reply, repeated, entitled>>
  BY DEF HandleBrokerEvent
<1>2. /\ stream[n] \in Seq(EventId) /\ Len(stream[n]) > 0 /\ 1 \in DOMAIN stream[n]
      /\ e0 = stream[n][1] /\ e0 \in EventId /\ e0 \in Known
  <2>1. stream[n] \in Seq(EventId)
    BY DEF RoutingInv, TypeOK
  <2>2. Len(stream[n]) > 0 /\ 1 \in DOMAIN stream[n] /\ e0 = stream[n][1] /\ e0 \in EventId
    BY <1>1, <2>1, TailIs
  <2> QED BY <2>1, <2>2 DEF RoutingInv, StreamInv
<1>3. /\ job'[n].stage = stage /\ job'[n].event = e0 /\ job'[n].pending = {}
      /\ job' \in [Goroutine -> Job]
      /\ \A h \in Goroutine : h # n => job'[h] = job[h]
      /\ \A c \in Conn : job'[c] = job[c]
  <2>1. [Idle EXCEPT !.event = e0, !.stage = stage] \in Job
    BY <1>2 DEF Idle, Job
  <2> QED BY <1>1, <2>1, GoroutinesAre DEF RoutingInv, TypeOK, Idle
<1>4. /\ stage \in {"ack", "local"} /\ (stage = "local" <=> Origin(e0) # n)
  OBVIOUS
<1>5. job[n].event = 0
  BY <1>1, IdleIs
<1> HIDE DEF e0, stage
<1>6. TypeOK'
  BY <1>1, <1>3 DEF RoutingInv, TypeOK, sessions
<1>7. JobInv'
  <2> SUFFICES ASSUME NEW h \in Goroutine PROVE JobInv!(h)'
    BY DEF JobInv
  <2>1. CASE h = n
    BY <1>1, <1>2, <1>3, <1>4, <2>1 DEF Known
  <2>2. CASE h # n
    BY <1>1, <1>3, <2>2 DEF RoutingInv, JobInv, Known, Addressed, SenderID
  <2> QED BY <2>1, <2>2
<1>8. ReaderInv'
  BY <1>1, <1>3 DEF RoutingInv, ReaderInv, EventOf, Known
<1>9. ConsumerInv'
  <2> SUFFICES ASSUME NEW m \in Node, job'[m].stage # "idle" PROVE ConsumerInv!(m)!2'
    BY DEF ConsumerInv
  <2>1. CASE m = n
    <3>1. job'[n].stage # "publish" /\ (job'[n].stage # "ack" => Origin(e0) # n)
      BY <1>3, <1>4
    <3> QED BY <1>1, <1>2, <1>3, <2>1, <3>1 DEF Origin
  <2>2. CASE m # n
    <3>1. job'[m] = job[m] /\ ConsumerInv!(m)!2
      BY <1>3, <2>2, GoroutinesAre DEF RoutingInv, ConsumerInv
    <3> QED BY <1>1, <3>1 DEF Origin
  <2> QED BY <2>1, <2>2
<1>10. \A d \in Conn, e \in Known :
         /\ Copies(d, e)' = Copies(d, e) /\ Got(d, e)' = Got(d, e) /\ Repeats(d, e)' = Repeats(d, e)
         /\ InStream(NodeOf[d], e)' = InStream(NodeOf[d], e) /\ Origin(e)' = Origin(e)
         /\ Known' = Known /\ events'[e] = events[e]
  BY <1>1 DEF Copies, Got, InStream, Origin, Repeats, Known
<1>11. ASSUME NEW d \in Conn, NEW e \in Known
       PROVE  /\ events[e].sender \in Conn /\ job'[events[e].sender] = job[events[e].sender]
              /\ Owes(events[e].sender, d, e)' = Owes(events[e].sender, d, e)
              /\ NodeOf[d] = n => job[NodeOf[d]].event # e
              /\ NodeOf[d] # n => job'[NodeOf[d]] = job[NodeOf[d]]
  <2>1. events[e].sender \in Conn /\ e # 0
    BY EventsAre DEF RoutingInv
  <2>2. job'[events[e].sender] = job[events[e].sender]
    BY <1>3, <2>1
  <2>3. Owes(events[e].sender, d, e)' = Owes(events[e].sender, d, e)
    BY <1>1, <2>2 DEF Owes
  <2>4. NodeOf[d] \in Goroutine
    BY GoroutinesAre
  <2> QED BY <1>3, <1>5, <2>1, <2>2, <2>3, <2>4
<1>12. CopyInv'
  <2> SUFFICES ASSUME NEW d \in Conn, NEW e \in Known PROVE CopyInv!(d, e)'
    BY <1>1 DEF CopyInv, Known
  <2>1. CopyInv!(d, e)
    BY DEF RoutingInv, CopyInv
  <2>2. NodeOf[d] # n => Owes(NodeOf[d], d, e)' = Owes(NodeOf[d], d, e)
    BY <1>11 DEF Owes
  <2> QED BY <1>10, <1>11, <2>1, <2>2
<1>13. ErrorInv'
  <2> SUFFICES ASSUME NEW e \in Known PROVE ErrorInv!(e)'
    BY <1>1 DEF ErrorInv, Known
  <2>1. ErrorInv!(e) /\ NoneAccepted(e)' = NoneAccepted(e) /\ events[e].sender \in Conn
    BY <1>1, EventsAre DEF RoutingInv, ErrorInv, NoneAccepted, Got, Origin
  <2> QED BY <1>1, <1>3, <2>1
<1>14. EntitledInv'
  <2> SUFFICES ASSUME NEW e \in EventId, NEW d \in entitled[e] PROVE EntitledInv!(e)!(d)'
    BY <1>1 DEF EntitledInv
  <2>1. EntitledInv!(e)!(d) /\ e \in Known /\ d \in Conn
    BY DEF RoutingInv, EntitledInv, TypeOK
  <2>2. /\ session' = session
        /\ Recipients(NodeOf[d], events[e])' = Recipients(NodeOf[d], events[e])
    BY <1>1 DEF Recipients, Audience, Addressee, sessions
  <2>3. CASE NodeOf[d] = n
    <3>1. NodeOf[d] # Origin(e) /\ job'[NodeOf[d]].event = e => Owes(NodeOf[d], d, e)'
      BY <1>3, <1>4, <2>3 DEF Owes
    <3> QED BY <1>10, <1>11, <2>1, <2>2, <3>1
  <2>4. CASE NodeOf[d] # n
    <3>1. Owes(NodeOf[d], d, e)' = Owes(NodeOf[d], d, e)
      BY <1>11, <2>1, <2>4 DEF Owes
    <3> QED BY <1>10, <1>11, <2>1, <2>2, <2>4, <3>1
  <2> QED BY <2>3, <2>4
<1> QED BY <1>1, <1>6, <1>7, <1>8, <1>9, <1>12, <1>13, <1>14, OnlyJobsMove DEF RoutingInv

\* A consumer is done with the head of its stream.  If the acknowledgement is
\* lost the event comes again, at the end of the stream.
LEMMA AckInv ==
    ASSUME RoutingInv, NEW n \in Node, Ack(n) \/ LoseAck(n)
    PROVE  RoutingInv'
<1>0. /\ job[n].stage = "ack" /\ job' = [job EXCEPT ![n] = Idle]
      /\ UNCHANGED <<session, clients, members, events, inbox, reply, entitled>>
  BY DEF Ack, LoseAck, sessions
<1>1. /\ stream[n] \in Seq(EventId) /\ Len(stream[n]) \in Nat /\ Len(stream[n]) > 0 /\ stream[n] # << >>
      /\ DOMAIN stream[n] = 1..Len(stream[n]) /\ 1 \in DOMAIN stream[n] /\ job[n].event = stream[n][1]
      /\ job[n].pending = {}
  <2>1. stream[n] \in Seq(EventId) /\ Len(stream[n]) > 0 /\ job[n].event = stream[n][1]
    BY <1>0 DEF RoutingInv, TypeOK, ConsumerInv
  <2>2. job[n].pending = {}
    BY <1>0, GoroutinesAre DEF RoutingInv, JobInv
  <2> QED BY <2>1, <2>2
<1>2. PICK e0 \in EventId :
        /\ e0 = job[n].event /\ e0 = stream[n][1] /\ e0 \in Known /\ e0 # 0 /\ reply[e0] # "none"
        /\ \A i \in DOMAIN stream[n] : stream[n][i] = e0 => i = 1
  BY <1>1, EventsAre DEF RoutingInv, StreamInv
<1> DEFINE lost == stream' = [stream EXCEPT ![n] = Append(Tail(@), e0)]
                   /\ repeated' = [repeated EXCEPT ![n][e0] = @ + 1]
<1>3. lost \/ (stream' = [stream EXCEPT ![n] = Tail(@)] /\ repeated' = repeated)
  BY <1>2 DEF Ack, LoseAck
<1>4. /\ job'[n] = Idle /\ job' \in [Goroutine -> Job]
      /\ \A h \in Goroutine : h # n => job'[h] = job[h]
      /\ \A c \in Conn : job'[c] = job[c]
  BY <1>0, IdleIs, GoroutinesAre DEF RoutingInv, TypeOK
<1>5. /\ \A m \in Node : m # n => stream'[m] = stream[m]
      /\ stream'[n] \in Seq(EventId)
      /\ \A i \in DOMAIN stream'[n] :
           \/ i + 1 \in DOMAIN stream[n] /\ stream'[n][i] = stream[n][i + 1] /\ i < Len(stream[n])
           \/ lost /\ i = Len(stream[n]) /\ stream'[n][i] = e0
      /\ \A i \in DOMAIN stream[n] : i # 1 => i - 1 \in DOMAIN stream'[n] /\ stream'[n][i - 1] = stream[n][i]
  <2> DEFINE t == Tail(stream[n])
  <2>1. stream \in [Node -> Seq(EventId)]
    BY DEF RoutingInv, TypeOK
  <2>2. /\ t \in Seq(EventId) /\ Len(t) = Len(stream[n]) - 1 /\ DOMAIN t = 1..(Len(stream[n]) - 1)
        /\ \A i \in 1..(Len(stream[n]) - 1) : t[i] = stream[n][i + 1]
    BY <1>1, TailIs
  <2>3. CASE lost
    <3>1. stream'[n] = Append(t, e0) /\ \A m \in Node : m # n => stream'[m] = stream[m]
      BY <2>1, <2>3
    <3> HIDE DEF t, lost
    <3>2. /\ stream'[n] \in Seq(EventId) /\ DOMAIN stream'[n] = 1..(Len(t) + 1)
          /\ stream'[n][Len(t) + 1] = e0
          /\ \A i \in 1..Len(t) : stream'[n][i] = t[i]
      BY <2>2, <3>1, AppendIs
    <3>3. DOMAIN stream'[n] = 1..Len(stream[n]) /\ stream'[n][Len(stream[n])] = e0
      BY <1>1, <2>2, <3>2
    <3>4. \A i \in 1..(Len(stream[n]) - 1) : stream'[n][i] = stream[n][i + 1]
      BY <1>1, <2>2, <3>2
    <3> QED BY <1>1, <2>3, <3>1, <3>2, <3>3, <3>4
  <2>4. CASE stream' = [stream EXCEPT ![n] = Tail(@)]
    <3>1. stream'[n] = t /\ \A m \in Node : m # n => stream'[m] = stream[m]
      BY <2>1, <2>4
    <3> HIDE DEF t, lost
    <3> QED BY <1>1, <2>2, <3>1
  <2> QED BY <1>3, <2>3, <2>4
<1>6. /\ repeated' \in [Node -> [EventId -> Nat]]
      /\ \A m \in Node, e \in EventId :
           /\ repeated[m][e] \in Nat /\ repeated'[m][e] \in Nat /\ repeated[m][e] <= repeated'[m][e]
           /\ repeated'[m][e] = 0 => repeated[m][e] = 0
           /\ ~ (m = n /\ e = e0) => repeated'[m][e] = repeated[m][e]
      /\ lost => repeated'[n][e0] = repeated[n][e0] + 1 /\ repeated'[n][e0] # 0
  <2>1. repeated \in [Node -> [EventId -> Nat]] /\ repeated[n][e0] \in Nat
    BY <1>2 DEF RoutingInv, TypeOK
  <2>2. CASE lost
    <3>1. repeated' = [repeated EXCEPT ![n][e0] = @ + 1]
      BY <2>2
    <3> HIDE DEF lost
    <3>2. /\ repeated' \in [Node -> [EventId -> Nat]]
          /\ \A m \in Node, e \in EventId : ~ (m = n /\ e = e0) => repeated'[m][e] = repeated[m][e]
          /\ repeated'[n][e0] = repeated[n][e0] + 1
      BY <1>2, <2>1, <3>1
    <3> QED BY <2>1, <3>2
  <2>3. CASE repeated' = repeated
    <3>1. ~ lost
      BY <2>1, <2>3
    <3> HIDE DEF lost
    <3> QED BY <2>1, <2>3, <3>1
  <2> QED BY <1>3, <2>2, <2>3
<1> HIDE DEF lost
<1>7. /\ \A e \in EventId : InStream(n, e)' => (e # e0 /\ InStream(n, e)) \/ (e = e0 /\ lost)
      /\ \A e \in EventId : e # e0 /\ InStream(n, e) => InStream(n, e)'
      /\ \A m \in Node, e \in EventId : m # n => InStream(m, e)' = InStream(m, e)
  <2>1. ASSUME NEW e \in EventId, InStream(n, e)' PROVE (e # e0 /\ InStream(n, e)) \/ (e = e0 /\ lost)
    <3>1. PICK i \in DOMAIN stream'[n] : stream'[n][i] = e
      BY <2>1 DEF InStream
    <3>2. CASE i + 1 \in DOMAIN stream[n] /\ stream'[n][i] = stream[n][i + 1]
      <4>1. i \in Nat /\ i # 0
        BY <1>5, <3>1
      <4> QED BY <1>2, <3>1, <3>2, <4>1 DEF InStream
    <3>3. CASE lost /\ stream'[n][i] = e0
      BY <3>1, <3>3
    <3> QED BY <1>5, <3>2, <3>3
  <2>2. ASSUME NEW e \in EventId, e # e0, InStream(n, e) PROVE InStream(n, e)'
    BY <1>2, <1>5, <2>2 DEF InStream
  <2>3. \A m \in Node, e \in EventId : m # n => InStream(m, e)' = InStream(m, e)
    BY <1>5 DEF InStream
  <2> QED BY <2>1, <2>2, <2>3
<1>8. \A d \in Conn, e \in EventId :
        /\ Copies(d, e)' = Copies(d, e) /\ Got(d, e)' = Got(d, e) /\ Origin(e)' = Origin(e)
        /\ events'[e] = events[e] /\ Known' = Known
  BY <1>0 DEF Copies, Got, Origin, Known
<1>9. TypeOK'
  <2>1. stream' \in [Node -> Seq(EventId)]
    <3>1. stream \in [Node -> Seq(EventId)] /\ stream' = [stream EXCEPT ![n] = stream'[n]]
      BY <1>3 DEF RoutingInv, TypeOK, lost
    <3> QED BY <1>5, <3>1
  <2> QED BY <1>0, <1>4, <1>6, <2>1 DEF RoutingInv, TypeOK
<1>10. ClientsInv' /\ EventsInv' /\ SenderOrder'
  <2>1. ClientsInv' /\ EventsInv'
    BY <1>0 DEF RoutingInv, ClientsInv, EventsInv, Known
  <2>2. SenderOrder'
    <3> SUFFICES ASSUME NEW d \in Conn, NEW i \in DOMAIN inbox[d], NEW k \in DOMAIN inbox[d]
                 PROVE  SenderOrder!(d)!(i, k)'
      BY <1>0 DEF SenderOrder
    <3>1. inbox[d][i] \in EventId /\ NodeOf[d] \in Node
      BY DEF RoutingInv, TypeOK
    <3>2. repeated'[NodeOf[d]][inbox[d][i]] = 0 => repeated[NodeOf[d]][inbox[d][i]] = 0
      BY <1>6, <3>1
    <3>3. SenderOrder!(d)!(i, k)
      BY DEF RoutingInv, SenderOrder
    <3> QED BY <1>0, <3>2, <3>3
  <2> QED BY <2>1, <2>2
<1>11. JobInv'
  <2> SUFFICES ASSUME NEW h \in Goroutine PROVE JobInv!(h)'
    BY DEF JobInv
  <2>1. CASE h = n
    BY <1>4, <2>1, IdleIs
  <2>2. CASE h # n
    BY <1>0, <1>4, <2>2 DEF RoutingInv, JobInv, Known, Addressed, SenderID
  <2> QED BY <2>1, <2>2
<1>12. ReaderInv'
  BY <1>0, <1>4 DEF RoutingInv, ReaderInv, EventOf, Known
<1>13. ConsumerInv'
  <2> SUFFICES ASSUME NEW m \in Node, job'[m].stage # "idle" PROVE ConsumerInv!(m)!2'
    BY DEF ConsumerInv
  <2>1. m # n /\ job'[m] = job[m]
    BY <1>4, IdleIs, GoroutinesAre
  <2>2. ConsumerInv!(m)!2
    BY <2>1 DEF RoutingInv, ConsumerInv
  <2> QED BY <1>0, <1>5, <2>1, <2>2 DEF Origin
<1>14. StreamInv'
  <2>0. StreamInv /\ \A m \in Node : \A i \in DOMAIN stream[m] : stream[m][i] \in EventId
    BY DEF RoutingInv, TypeOK
  <2>1. ASSUME NEW m \in Node, NEW i \in DOMAIN stream'[m]
        PROVE  stream'[m][i] \in Known /\ reply[stream'[m][i]] # "none"
    <3>1. CASE m = n
      BY <1>2, <1>5, <2>0, <3>1 DEF StreamInv
    <3>2. CASE m # n
      BY <1>5, <2>0, <3>2 DEF StreamInv
    <3> QED BY <3>1, <3>2
  <2>2. ASSUME NEW m \in Node, NEW i \in DOMAIN stream'[m], NEW k \in DOMAIN stream'[m],
               stream'[m][i] = stream'[m][k]
        PROVE  i = k
    <3>1. CASE m = n
      <4>1. i \in Nat /\ k \in Nat /\ i # 0 /\ k # 0
        BY <1>5, <3>1
      <4>2. CASE i + 1 \in DOMAIN stream[n] /\ stream'[n][i] = stream[n][i + 1]
        <5>1. stream'[n][k] # e0
          BY <1>2, <2>2, <3>1, <4>1, <4>2
        <5>2. k + 1 \in DOMAIN stream[n] /\ stream'[n][k] = stream[n][k + 1]
          BY <1>5, <3>1, <5>1
        <5>3. i + 1 = k + 1
          BY <2>0, <2>2, <3>1, <4>2, <5>2 DEF StreamInv
        <5> QED BY <4>1, <5>3
      <4>3. CASE i = Len(stream[n]) /\ stream'[n][i] = e0
        <5>1. stream'[n][k] = e0
          BY <2>2, <3>1, <4>3
        <5>2. ~ (k + 1 \in DOMAIN stream[n] /\ stream'[n][k] = stream[n][k + 1])
          BY <1>2, <4>1, <5>1
        <5> QED BY <1>5, <3>1, <4>3, <5>2
      <4> QED BY <1>5, <3>1, <4>2, <4>3
    <3>2. CASE m # n
      BY <1>5, <2>0, <2>2, <3>2 DEF StreamInv
    <3> QED BY <3>1, <3>2
  <2>3. ASSUME NEW m \in Node, NEW i \in DOMAIN stream'[m], NEW k \in DOMAIN stream'[m],
               events[stream'[m][i]].sender = events[stream'[m][k]].sender,
               stream'[m][i] < stream'[m][k], repeated'[m][stream'[m][i]] = 0
        PROVE  i < k
    <3>1. CASE m = n
      <4>1. i \in Nat /\ k \in Nat
        BY <1>5, <3>1
      <4>2. i + 1 \in DOMAIN stream[n] /\ stream'[n][i] = stream[n][i + 1] /\ i < Len(stream[n])
        BY <1>5, <1>6, <2>3, <3>1
      <4>3. CASE k + 1 \in DOMAIN stream[n] /\ stream'[n][k] = stream[n][k + 1]
        <5>1. repeated[n][stream[n][i + 1]] = 0
          BY <1>6, <2>0, <2>3, <3>1, <4>2
        <5>2. i + 1 < k + 1
          BY <2>0, <2>3, <3>1, <4>2, <4>3, <5>1 DEF StreamInv
        <5> QED BY <4>1, <5>2
      <4>4. CASE k = Len(stream[n])
        BY <4>2, <4>4
      <4> QED BY <1>5, <3>1, <4>3, <4>4
    <3>2. CASE m # n
      <4>1. stream'[m] = stream[m] /\ repeated[m][stream[m][i]] = 0
        BY <1>5, <1>6, <2>0, <2>3, <3>2
      <4> QED BY <2>0, <2>3, <4>1 DEF StreamInv
    <3> QED BY <3>1, <3>2
  <2>4. \A m \in Node, e \in EventId : repeated'[m][e] # 0 => reply[e] # "none"
    BY <1>2, <1>6, <2>0 DEF StreamInv
  <2>5. \A e \in EventId : reply[e] # "none" => e \in Known
    BY <2>0 DEF StreamInv
  <2> QED BY <1>0, <2>1, <2>2, <2>3, <2>4, <2>5 DEF StreamInv, Known
<1>15. InboxInv'
  <2> SUFFICES ASSUME NEW d \in Conn, NEW i \in DOMAIN inbox[d] PROVE InboxInv!(d)!(i)'
    BY <1>0 DEF InboxInv
  <2> DEFINE f == inbox[d][i]
             m == NodeOf[d]
  <2>1. /\ InboxInv!(d)!(i) /\ m \in Node
        /\ \A k \in DOMAIN stream[m] : stream[m][k] \in EventId
    BY DEF RoutingInv, InboxInv, TypeOK
  <2>2. ASSUME m # Origin(f), NEW k \in DOMAIN stream'[m],
               events[stream'[m][k]].sender = events[f].sender, stream'[m][k] < f
        PROVE  repeated'[m][stream'[m][k]] # 0
    <3>1. CASE m = n
      <4>1. CASE k + 1 \in DOMAIN stream[n] /\ stream'[n][k] = stream[n][k + 1]
        BY <1>6, <2>1, <2>2, <3>1, <4>1
      <4>2. CASE lost /\ stream'[n][k] = e0
        BY <1>6, <3>1, <4>2
      <4> QED BY <1>5, <2>2, <3>1, <4>1, <4>2
    <3>2. CASE m # n
      <4>1. stream'[m] = stream[m]
        BY <1>5, <2>1, <3>2
      <4> QED BY <1>6, <2>1, <2>2, <4>1
    <3> QED BY <3>1, <3>2
  <2> QED BY <1>0, <2>1, <2>2 DEF Known, Addressed, SenderID, Origin
<1>16. ASSUME NEW d \in Conn, NEW e \in Known
       PROVE  /\ e \in EventId /\ e # 0 /\ NodeOf[d] \in Node
              /\ events[e].sender \in Conn /\ job'[events[e].sender] = job[events[e].sender]
              /\ Owes(events[e].sender, d, e)' = Owes(events[e].sender, d, e)
              /\ NodeOf[d] = n => job'[NodeOf[d]].event # e /\ (job[NodeOf[d]].event = e <=> e = e0)
              /\ NodeOf[d] = n => ~ Owes(NodeOf[d], d, e)
              /\ NodeOf[d] # n => job'[NodeOf[d]] = job[NodeOf[d]]
              /\ NodeOf[d] # n => Owes(NodeOf[d], d, e)' = Owes(NodeOf[d], d, e)
  <2>1. events[e].sender \in Conn /\ e # 0 /\ e \in EventId /\ NodeOf[d] \in Node
    BY EventsAre DEF RoutingInv
  <2>2. job'[events[e].sender] = job[events[e].sender]
    BY <1>4, <2>1
  <2>3. Owes(events[e].sender, d, e)' = Owes(events[e].sender, d, e)
    BY <1>0, <2>2 DEF Owes
  <2>4. NodeOf[d] = n => job'[NodeOf[d]].event # e /\ (job[NodeOf[d]].event = e <=> e = e0)
    BY <1>2, <1>4, <2>1, IdleIs
  <2>5. NodeOf[d] = n => ~ Owes(NodeOf[d], d, e)
    BY <1>0, <1>1 DEF Owes
  <2>6. NodeOf[d] # n => job'[NodeOf[d]] = job[NodeOf[d]]
    BY <1>4, <2>1, GoroutinesAre
  <2>7. NodeOf[d] # n => Owes(NodeOf[d], d, e)' = Owes(NodeOf[d], d, e)
    BY <2>6 DEF Owes
  <2> QED BY <2>1, <2>2, <2>3, <2>4, <2>5, <2>6, <2>7
<1>17. CopyInv'
  <2> SUFFICES ASSUME NEW d \in Conn, NEW e \in Known PROVE CopyInv!(d, e)'
    BY <1>0 DEF CopyInv, Known
  <2>1. CopyInv!(d, e) /\ Copies(d, e) \in Nat
    BY CopiesAre DEF RoutingInv, CopyInv
  <2>2. /\ Repeats(d, e) \in Nat /\ Repeats(d, e)' \in Nat /\ Repeats(d, e) <= Repeats(d, e)'
        /\ NodeOf[d] # n => Repeats(d, e)' = Repeats(d, e)
        /\ e = e0 /\ lost /\ NodeOf[d] = n /\ NodeOf[d] # Origin(e) =>
             Repeats(d, e)' = Repeats(d, e) + 1
    BY <1>6, <1>8, <1>16 DEF Repeats
  <2>3. Copies(d, e)' <= Repeats(d, e)' + 1
    BY <1>8, <1>16, <2>1, <2>2
  <2>4. NodeOf[d] = Origin(e) /\ Owes(events[e].sender, d, e)' => ~ Got(d, e)'
    BY <1>8, <1>16, <2>1
  <2>5. ASSUME NodeOf[d] # Origin(e), InStream(NodeOf[d], e)',
               job'[NodeOf[d]].event = e => Owes(NodeOf[d], d, e)'
        PROVE  Copies(d, e) <= Repeats(d, e)'
    <3>1. CASE NodeOf[d] # n
      BY <1>7, <1>16, <2>1, <2>2, <2>5, <3>1
    <3>2. CASE NodeOf[d] = n /\ e # e0
      BY <1>7, <1>16, <2>1, <2>2, <2>5, <3>2
    <3>3. CASE NodeOf[d] = n /\ e = e0
      <4>1. lost
        BY <1>7, <2>5, <3>3
      <4> QED BY <2>1, <2>2, <2>5, <3>3, <4>1
    <3> QED BY <3>1, <3>2, <3>3
  <2> QED BY <1>8, <1>16, <2>3, <2>4, <2>5
<1>18. ErrorInv'
  <2> SUFFICES ASSUME NEW e \in Known PROVE ErrorInv!(e)'
    BY <1>0 DEF ErrorInv, Known
  <2>1. ErrorInv!(e) /\ NoneAccepted(e)' = NoneAccepted(e) /\ events[e].sender \in Conn
    BY <1>0, EventsAre DEF RoutingInv, ErrorInv, NoneAccepted, Got, Origin
  <2> QED BY <1>0, <1>4, <2>1
<1>19. EntitledInv'
  <2> SUFFICES ASSUME NEW e \in EventId, NEW d \in entitled[e] PROVE EntitledInv!(e)!(d)'
    BY <1>0 DEF EntitledInv
  <2>1. EntitledInv!(e)!(d) /\ e \in Known /\ d \in Conn
    BY DEF RoutingInv, EntitledInv, TypeOK
  <2>2. /\ session' = session
        /\ Recipients(NodeOf[d], events[e])' = Recipients(NodeOf[d], events[e])
    BY <1>0 DEF Recipients, Audience, Addressee
  <2>3. CASE NodeOf[d] = n
    BY <1>7, <1>8, <1>16, <2>1, <2>2, <2>3
  <2>4. CASE NodeOf[d] # n
    BY <1>7, <1>8, <1>16, <2>1, <2>2, <2>4
  <2> QED BY <2>3, <2>4
<1> QED BY <1>9, <1>10, <1>11, <1>12, <1>13, <1>14, <1>15, <1>17, <1>18, <1>19 DEF RoutingInv

--------------------------------------------------------------------------------
(* The theorems. *)

LEMMA NextRoutingInv == RoutingInv /\ [Next]_vars => RoutingInv'
<1> SUFFICES ASSUME RoutingInv, [Next]_vars PROVE RoutingInv'
  OBVIOUS
<1>1. ASSUME NEW g \in Goroutine, Route(g) PROVE RoutingInv'
  BY <1>1, SnapshotInv, EventIdFailsInv, DeliverInv, DeliveredInv DEF Route
<1>2. ASSUME NEW c \in Conn, ReaderStep(c) PROVE RoutingInv'
  BY <1>1, <1>2, PublishInv, GoroutinesAre DEF ReaderStep
<1>3. ASSUME NEW n \in Node, ConsumerStep(n) PROVE RoutingInv'
  BY <1>1, <1>3, HandleBrokerEventInv, AckInv, GoroutinesAre DEF ConsumerStep
<1>4. ASSUME UNCHANGED vars PROVE RoutingInv'
  <2>1. UNCHANGED <<session, clients, members, routing, repeated, entitled>>
    BY <1>4 DEF vars, sessions
  <2>2. TypeOK' /\ ClientsInv'
    BY <2>1 DEF RoutingInv, TypeOK, ClientsInv, routing
  <2>3. EntitledInv'
    <3>1. \A e \in EventId : \A d \in entitled'[e] :
            session'[d] = "open" /\ d \in Recipients(NodeOf[d], events[e])'
      BY <2>1 DEF RoutingInv, EntitledInv, Recipients, Audience, Addressee, routing
    <3> QED BY <2>1, <3>1, EntitledUntouched
  <2> QED BY <2>1, <2>2, <2>3, RoutingUntouched DEF RoutingInv
<1>5. ASSUME NEW c \in Conn, NEW ev \in Event, ReadCommand(c, ev) PROVE RoutingInv'
  BY <1>5, ReadCommandInv
<1>6. ASSUME NEW c \in Conn, Register(c) \/ Join(c) \/ Leave(c) \/ Close(c) \/ Unregister(c)
      PROVE  RoutingInv'
  BY <1>6, SessionStepInv
<1> QED BY <1>2, <1>3, <1>4, <1>5, <1>6 DEF Next, AllGone

\* The invariant holds of every run, however many nodes, sessions, commands and
\* redeliveries there are.
THEOREM RoutingCorrect == Spec => []RoutingInv
BY InitRoutingInv, NextRoutingInv, PTL DEF Spec

\* The sessions, the goroutines and the broker keep their types.
THEOREM RoutingTypeCorrect == Spec => []TypeOK
<1>1. RoutingInv => TypeOK
  BY DEF RoutingInv
<1> QED BY <1>1, RoutingCorrect, PTL

\* Every event a session holds is for it: the snapshots never name the sending
\* user nor a stranger to a private message, and a connection does not change
\* its user.
THEOREM DeliveriesAreAddressed == Spec => []OnlyAddressed
<1>1. RoutingInv => OnlyAddressed
  BY DEF RoutingInv, InboxInv, OnlyAddressed, Addressed
<1> QED BY <1>1, RoutingCorrect, PTL

\* On the sender's node an event is delivered by the sender's reader only, once,
\* however often the broker echoes it; on another node once per round of the
\* node's consumer, the first and one for each redelivery.
THEOREM DeliveredOnce == Spec => []NoDuplicates
<1>1. RoutingInv => NoDuplicates
  <2> SUFFICES ASSUME RoutingInv, NEW d \in Conn, NEW e \in Known PROVE NoDuplicates!(d, e)
    BY DEF NoDuplicates, Known
  <2>1. Copies(d, e) <= Repeats(d, e) + 1
    BY DEF RoutingInv, CopyInv
  <2>2. repeated[NodeOf[d]][e] \in Nat
    BY EventsAre DEF RoutingInv, TypeOK
  <2> QED BY <2>1, <2>2 DEF Repeats
<1> QED BY <1>1, RoutingCorrect, PTL

\* An event that has settled is owed to nobody: who is still entitled has got it.
THEOREM SettledIsDelivered == Spec => []NothingLost
<1>1. RoutingInv => NothingLost
  <2> SUFFICES ASSUME RoutingInv, NEW e \in Known, Settled(e), NEW d \in entitled[e]
               PROVE  Copies(d, e) > 0
    BY DEF NothingLost, Known
  <2>1. e \in EventId /\ events[e].sender \in Goroutine
    BY EventsAre, GoroutinesAre DEF RoutingInv
  <2>2. EntitledInv!(e)!(d) /\ d \in Conn
    BY <2>1 DEF RoutingInv, EntitledInv, TypeOK
  <2>3. /\ job[events[e].sender].event # e /\ ~ InStream(NodeOf[d], e)
    BY <2>1, <2>2 DEF Settled, InStream
  <2>4. Got(d, e)
    BY <2>2, <2>3 DEF Owes
  <2> QED BY <2>2, <2>4, CopiesAre DEF RoutingInv
<1> QED BY <1>1, RoutingCorrect, PTL

\* Every session gets what one session sent in the order it was sent: a reader
\* routes one command at a time, the streams keep the order in which readers
\* publish, and a consumer works on the head of its stream.
THEOREM DeliveredInOrder == Spec => []SenderOrder
<1>1. RoutingInv => SenderOrder
  BY DEF RoutingInv
<1> QED BY <1>1, RoutingCorrect, PTL

\* An error answer means that no session on the sender's node has accepted the
\* message, and none does later.
THEOREM ErrorsAreHonest == Spec => []ErrorMeansNotAccepted
<1>1. RoutingInv => ErrorMeansNotAccepted
  <2> SUFFICES ASSUME RoutingInv, NEW e \in Known, reply[e] \in {"offline", "overloaded"},
                      NEW d \in Conn, NodeOf[d] = Origin(e)
               PROVE  Copies(d, e) = 0
    BY DEF ErrorMeansNotAccepted, Known
  <2>1. ~ Got(d, e)
    BY DEF RoutingInv, ErrorInv, NoneAccepted
  <2> QED BY <2>1, CopiesAre DEF RoutingInv
<1> QED BY <1>1, RoutingCorrect, PTL
================================================================================

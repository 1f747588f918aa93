# Verification of the realtime WebSocket server

TLA+ models of the Go server under `go-server/`, checked with TLC on small
instances and proved with TLAPS for every value of their constants: every
safety property a passing run checks is also a theorem, and what is left to the
model checker alone is liveness.

## 1. The system

| Part | State | Operations | Correct when |
| --- | --- | --- | --- |
| Hub (`realtime/hub.go`) | registry user -> session, two room indexes, one RW mutex | Register, Unregister, Join, Leave, Snapshot, CloseAll | the registry names live sessions, the indexes agree, stale cleanup hurts nobody |
| Client session (`realtime/client.go`) | closed flag and done channel, close once, bounded queue, socket | Run, Send, Close, readLoop, writeLoop | closing is done once and ends both goroutines; accepted messages are written in order |
| Routing (`hub.go`, `broker/`) | nothing of its own; reads the hub, uses the broker | Broadcast, SendPrivate, HandleBrokerEvent | an event reaches those it is for, once, in order |
| Rate limiter (`realtime/rate_limit.go`) | tokens, last refresh | Allow, AllowAt | bursts are bounded, refusals are deserved |
| Upgrade handler (`httpapi/websocket.go`, `health.go`) | admission channel, readiness flag | ServeHTTP | places bound the sessions and come back |
| Session hand-off (`app/session_handler.go`) | none | Handle | NewClient, Register, Run, in this order |
| Server lifecycle (`app/server.go`, `cmd/server`) | readiness, run context, two goroutines | Serve | it ends, and closes what it served |
| Protocol (`realtime/message.go`) | none | DecodeInbound, Validate | the answer to a frame is true of it and names its request |
| In-memory bus (`broker/memory.go`) | subscriptions by id, closed flag | Publish, Subscribe, cancel, Close | a publication reaches the subscribers there are, and no others |
| NATS broker (`broker/nats.go`) | connection, consume contexts; a durable consumer per node in the stream | NewNATSBroker, Publish, Subscribe, Close | every node handles every event, across crashes and restarts |
| Metrics (`observability/metrics.go`) | atomic counters | increments, UpdateMaxQueueDepth, Snapshot | no update is lost, a snapshot nearly adds up, gauges return to zero |
| Configuration (`config/config.go`) | none | LoadFrom, Validate | a process serves only with sound limits and timeouts |
| Load test (`cmd/loadtest`) | its own counters | dials, sends, measures | not part of the server |

The upgrade handler admits a request, upgrades it and calls Handle on the
request's goroutine, which registers the session and becomes its reader (Run).
Run starts the writer. Any goroutine may Send to or Close a session it found in
the hub: other sessions' readers (broadcast, private message, replacement of a
duplicate session), the broker's consumer, the shutdown goroutine. Close calls
back into Hub.Unregister. Shutdown withdraws readiness, announces the drain,
sleeps, closes a snapshot of the registry and stops the HTTP server.

What makes this hard is that no lock is held across these calls: every snapshot
and every check (readiness, registration, membership, the closed flag) can be
stale when it is used. `PROJECT.json` lists the hazards line by line.

## 2. Modules

| Module | Models | Composed with |
| --- | --- | --- |
| `Hub` | registry, room indexes and session lifecycle of one process | |
| `Client` | one session: handler, writer, other senders and closers | refines `Outbox` |
| `Outbox` | abstract: a bounded first-in first-out outbox that can be shut | |
| `Routing` | broadcast and private messages between nodes over the broker | |
| `RateLimiter` | the token bucket | |
| `Server` | ServeHTTP, CloseAll, BroadcastDraining, Serve | extends `Hub` |
| `Protocol` | DecodeInbound and Validate, and the protocol as documented | |
| `Inbound` | the read loop from frame to answer | extends `RateLimiter`, `Protocol` |
| `MemoryBroker` | the in-process bus | |
| `NatsBroker` | the JetStream broker of several nodes | |
| `Broker` | the broker the configuration asks for | extends the two |
| `Config` | LoadFrom and Validate | |
| `Heartbeat` | pings, pongs and the read deadline of one session in discrete time | |
| `Process` | from environment variables to a session | extends `Config`, `Heartbeat` |
| `Metrics` | counters of the read loops and Snapshot | |
| `HubProofs`, `ServerProofs` | proofs about `Hub`; and about `Server`, on top of them | extend those |
| `ClientProofs`, `RoutingProofs`, `MetricsProofs` | proofs about one module each | extend it |
| `InboundProofs` | proofs about `RateLimiter`, `Protocol` and the read loop that uses both | extends `Inbound` |
| `BrokerProofs` | proofs about `MemoryBroker` and `NatsBroker` | extends `Broker` |
| `ProcessProofs` | proofs about `Config`, the origin check and `Heartbeat` | extends `Process` |
| `MCHub`, `MCClient`, `MCRouting`, `MCInbound`, `MCBroker`, `MCProcess`, `MCServer`, `MCMetrics` | constants for TLC | extend the above |

**Hub.** One action per critical section of `h.mu`. `clients`, `rooms` and
`clientRooms` are the Go maps; a key is in the domain of `rooms` exactly when
the Go map has it, so an empty room left behind is visible. `handler[c]` is the
program counter of the goroutine in Handle, `session[c]` the progress of
Client.Close: `open`, `closing` from the moment the closed flag is set, and
`closed` after Unregister. The socket is closed in between; the model lets
frames be read while a session is closing, which contains what the socket
allows. Abort stands for a Close by any goroutine other than those the model
names. Commands that do not touch the hub's state are one action, ReadOther.

**Client.** Splits Close into the steps of the once body and gives each
goroutine its own position in it; losers of the once wait for the winner.
`closed` also stands for the done channel, which is closed in the same critical
section. Close reasons are kept in classes: those the metrics count, those
that only echo an earlier close, and the others. Frames have no contents, every
frame is answered. `accepted`, `sent` and `late` are history. Time is abstract:
a read or write may fail at any moment.

**Routing.** A goroutine (a session's reader, or a node's broker consumer) takes
a snapshot of the recipients and sends to them one by one while sessions come
and go. There is one room, since rooms do not interact. The broker is JetStream as
`nats.go` uses it: every node's durable consumer gets every stored event, one at
a time, and again after every lost acknowledgement, as often as one is lost
(`repeated` counts it per node and event; the consumer sets no MaxDeliver). A Send that overflows a queue
closes the session; the short wait for that close, shown to end in `Client`, is
left out. Authorization refusals route nothing and are not represented.

**RateLimiter.** Tokens are counted in units of 1/Interval, so the arithmetic
is exact where the code uses float64; rounding is outside the model. Callers
take their timestamp before the lock and may apply it out of order. In the
server each session's reader owns its limiter, the case of one caller.

**Server.** A request that gets through ServeHTTP registers the session of the
same name, which then takes `Hub`'s steps (`InHub`). The two goroutines that may
run CloseAll keep what is left of their snapshot and the session whose Close
they wait for. `capacity` is the capacity of the admission channel, one of the
limits the server may be configured with. What makes a request be rejected is
nondeterministic here, and the subject of `Process`.

**Protocol and Inbound.** Strings are six classes, the ones TrimSpace and the
length limits tell apart; a frame is a record of such fields and of what the
JSON decoder makes of it. Inbound follows the read loop: a frame takes a token or
is refused, is decoded all the same, and gets one answer. What the hub says to
a command is any error it may return; the state behind it is in `Hub` and
`Routing`. WellFormed and Deserves restate the protocol independently of the
decoder.

**MemoryBroker.** One action per atomic step: the closed flag is read outside the
lock, handlers are called one by one from a snapshot, Close sets the flag and
then replaces the map. Subjects are sequences of segments. A handler is only
recorded as called; what it does is in `Routing`.

**NatsBroker.** The stream keeps an event for each durable consumer that existed
when it was stored (interest policy), hands it to one consumer of a durable at a
time, forgets it when acknowledged, and drops it when too old. Node ids are
sequences of characters, so that sanitizeConsumerName is modelled. A process may
crash at any step, lose its connection and its acknowledgements; whatever it was
holding is delivered again. Publish stores or does not, since an error does not
say which; `Routing` looks at what the caller is told.

**Config, Heartbeat, Process.** A number in the environment is unset, blank,
plain, between blanks or malformed; Atoi gets it trimmed and ParseDuration does
not, which makes a padded duration an error. Process loads a configuration,
serves one request, and hands its read timeout to Heartbeat. There a unit of
time may pass only when nobody is overdue: the delays the server cannot decide
are bounded by MaxPingDelay, MaxRoundTrip and MaxBusy. A ticker drops a tick the
writer has not taken. The reader does not read pongs while it executes a frame.
The read deadline may pass while data is in the buffer; either may win.

**Metrics.** Each atomic operation is an action, and so is each load of Snapshot.
A session counts its message in the order of the code: received, the depth of
the queue it sends to, latency total, latency count, type, result.

## 3. Runs

| Run | Instance | Shows |
| --- | --- | --- |
| `hub` | 3 successive sessions of one user, 2 rooms, limit 1, fair | indexes agree, the limit holds, a late join leaves at most one membership, the registry is live, every displaced or closed session ends |
| `client` | 1 other goroutine, queue of 2, 3 messages, 1 ping, fair | cleanup once, true reason recorded, nothing left after Run, refinement of `Outbox`; Close and Run return, accepted messages are written |
| `routing_fanout` | 3 sessions, 2 users, 2 nodes, 1 command, 2 redeliveries, fair | no duplicates by echo and no more copies than redeliveries explain; only those addressed receive; error answers are honest; commands are answered and events settle |
| `routing_order` | 2 sessions, 2 nodes, 2 commands, 1 redelivery | nothing lost, order per sender |
| `inbound` | one session, 2 messages per 3 instants, 7 instants, frames with a fault or two | window bound, deserved refusals; answers are honest and name their request |
| `broker` | bus: 1 publisher, 3 subscriptions, Close; JetStream: 2 nodes, 2 events, 2 faults, fair | a publication reaches its subscribers, a cancelled or closed one is quiet; no event is lost by crashes and each node handles it in the end |
| `process` | environments that differ from the defaults in one respect, or in environment and origins; read timeouts from 1 to 60 | sound configurations only, configured origins only; peers that answer stay, silent ones go |
| `server` | 2 requests of one user for 1 or 2 places, fair | admission bound, no place without a request; CloseAll misses only late sessions; Serve returns, places come back |
| `metrics` | 2 read loops, 3 messages, depths and latencies up to 2 | the maximum loses no update; in a snapshot no counter exceeds the one that bounds it by more than one message per session |

Three runs show that the code does not do what a document or a comment of the
repository says of it:

* `hub_ghost`: a room.join read before Close and executed after Unregister
  leaves the disconnected session in a room for good. It receives nothing
  there, since Send refuses, but keeps the session and the room in memory
  (LateMembershipBound says how much).
* `server_late`: a request past the readiness check registers after CloseAll,
  and Serve returns with the session open.
* `routing_offline`: with a broker, which the server always has, a private
  message to a user without a session is acknowledged.

**Bounds.** Three sessions of one user are what replacement of a replacing
session needs; they share rooms and leave them empty, and a limit of one is
reached, freed and reached again in two rooms. In `Client` a queue of two
distinguishes full, partly full and empty; handler, writer and one other
goroutine race for the once as winner, loser inside and loser outside. Two
requests for one place contend for it, and with two places the second replaces
the first; rooms play no part in `Server` and are empty. One publisher is enough
for the bus, since a publication changes nothing another one reads; three
subscriptions let one be cancelled and one added around a third. Two faults
allow a crash between delivery and acknowledgement and a second one after the
restart. Two lost acknowledgements let an event come a third time. Two callers of one limiter do not occur in the server; the proofs
cover any number. In `process` one number is off at a time because Validate
looks at each by itself, while environment and origins, which interact, are
combined; a slack of 6 in the default read timeout of 60 is one more than the
delays allow for. The remaining bounds (MaxAccepted, MaxPings, MaxTime, MaxEvents,
MaxRedeliveries, Sender, MaxFaults, MaxFrames, MaxMessages) only bound how often
something happens. Symmetry is used in `metrics` alone, whose sessions are alike
and which checks no liveness.

**Fairness.** Runnable goroutines are scheduled: weak fairness on the steps of
each handler, writer, consumer, CloseAll loop and Close call. A read on a closed
socket returns (weak fairness on that case only). A write ends, since
configuration requires a positive write timeout. Go's select chooses at random
among ready cases, hence strong fairness of taking a queued message. In
`broker`, weak fairness on each node's own steps: connections are retried for
ever (MaxReconnects(-1)), a node that is down is started again, and the stream
delivers to a connected consumer. Crashes, disconnections and lost
acknowledgements are finitely many. Nothing obliges a peer to connect, send or
leave, nor the process to be stopped. The bounds on time in `process` are part of the
state machine, not fairness: a behaviour in which time cannot go on would be a
deadlock, and there is none.

**Deadlock** is checked in every run but two; the terminal states are explicit
actions (`AllExited`, `Stopped`, `AllGone`, `Ended`). `inbound` stops when the read
loop has returned and the bounded clock has ended, and `broker` when the bus is
closed and every call has returned, or all events are handled and the faults
used up. `Client` never stops, because other goroutines may always call Close
again.

## 4. Proofs

The theorems hold for all sets of connections, users, rooms, nodes, publishers,
frames and environments, and for all bounds. What they assume of the constants
is stated next to their declaration and is what the program's types give: that
functions such as `UserOf` have their domain, that bounds are natural numbers,
that `None` and its like are no connections, that sets the code keeps in memory
are finite (`SessionAssumption`), that subjects and patterns have a segment
(`PatternAssumption`, `SubjectsAssumption`), that environments and headers are
what the operating system and the HTTP server hand over (`EnvsAssumption`,
`HeadersAssumption`), that the reader is a caller of its limiter
(`ReaderAssumption`). Only a few ask for more: a queue has room for one message
and the admission limit is positive, which Validate enforces; a latency counts
as one nanosecond at least; and the labels the model gives to messages are
distinct (`MessageAssumption`).

Each module below has one inductive invariant, a conjunction of named parts. All
of them were checked with TLC as invariants of the runs' instances before they
were proved.

**Hub** (`HubInv`). Beyond the properties it needs `Lifecycle`: a connection has a
session exactly when its handler has started, and a replacing handler holds an
existing session of its own user. Without it Register could revive an old
session, and nothing would be known about the session a handler is about to
close. `RegistryEntryProtected` is an action property and follows from `HubInv`;
`RoomLimitHolds` has its own induction on top: a join adds one room to a set
that is smaller than the limit (FiniteSetTheorems).

**Server** (`ServerInv`). `ServerRunsHub`: every step of the server is a step of the
hub or leaves it alone, so all theorems about `Hub` hold in the server.
`AdmissionInv` counts: the places in use are as many as the requests between
admission and release, and a handler belongs to one of them. `SweepInv` says of
every open session, from the first snapshot of CloseAll on, that it is late, is
being replaced, or is still on the list of a goroutine that is closing.

**Client** (`ClientInv`). `OnceInv` says what has been done at each step of the once
body, which one goroutine at most is in. `CauseInv`: whoever gives a reason that
echoes a close has seen a close begin. `QuietInv`: what has ended when the handler
waits for the writer. `OrderInv` accounts for every accepted message: written, in
the writer's hands, queued, or the one whose write failed. With it
`SessionImplementsOutbox` maps every step to a step of `Outbox` or a stutter.

**Routing** (`RoutingInv`). The invariant says where each event is. Until it is
answered only its sender's reader has it (`ReaderInv`), and it is that session's
latest. Afterwards it is in each stream at most once, and a consumer works on the
head of its stream only (`ConsumerInv`, `StreamInv`). `CopyInv` bounds the copies a
session has by the rounds its node has made, one more than the
redeliveries, counting the one under way as not
yet made for the sessions still owed the event. `InboxInv` says what may no
longer be in the stream once a later event has arrived, which makes `SenderOrder`
inductive. `ErrorInv` ties the reader's found and refused to the one recipient a
private message can have on its node. `EntitledInv` says of everybody entitled to
an event that it has got it, or who owes it. The order properties are the reason
for "as far as it was not redelivered" in several parts: an event that comes again
stands behind later ones.

**RateLimiter, Protocol, Inbound.** `BucketInv` charges every admission to the
bucket or to the refill since the window began, and bounds how far out-of-order
timestamps can overdraw the bucket by the time already seen. `DecoderIsRight`
compares the decoder with the documented protocol for every frame.
`SessionUsesLimiter` carries the limiter's theorems over to a session, and
`OrderKept` shows that timestamps are in order there, which `RefusalsJustified`
needs. `AnswerInv` is the loop's own part.

**Broker** (`MemoryInv`, `NatsInv`). `MatchIsCover`: matchSubject, which compares
prefixes, decides what a comparison by segments would. For the bus the invariant
relates the handlers a publication has called, those left in its snapshot
and the subscriptions there were when it began; for JetStream, what each node is
owed, has handled and what its durable keeps.

**Process** (`ConfigInv`, `RequestInv`, `HeartbeatInv`). A process that serves holds what
Validate has accepted of its environment. `PulseInv` bounds the age of the read
deadline by what it is waiting for: the next tick, the ping, the pong.
`SilenceInv` gives every buffered frame the time the reader needs for it. The
proof of `ResponsiveStaysConnected` failed at first, and TLC confirmed it with
other bounds: a frame that keeps the reader for a whole read timeout lets the
deadline pass before the reader looks, although the peer answers. The
property now says so (`readTimeout > MaxBusy`).

**Metrics** (`MetricsInv`). Two counters differ by the number of sessions between
them. A snapshot is compared with what a reader would see that went on with the
counters as they are now (`Seen`), since no counter it has loaded has fallen.

Only model-checked: the properties with `~>` (UnwantedSessionEnds, CloseReturns,
RunReturns, AcceptedIsWritten, EventsSettle, EveryNodeHandles, ServeTerminates,
PlaceIsReleased), because fairness and ENABLED are out of the prover's reach,
absence of deadlock for the same reason, and the three properties the code
violates. No module declares a RECURSIVE operator.

## 5. Not modelled

* The load-test tool, the HTTP routes for health and metrics.
* Counters that are compared with no other (upgrades, messages sent, broker).
* Durations at the edge of their type: `timeout * 9 / 10` overflows above 32
  years, and a read timeout of one nanosecond gives no pings at all.
* float64 rounding in the rate limiter.
* Two nodes whose ids sanitize to the same durable name: they would share the
  events, and NothingDropped excludes them (`OwnName`).
* How long a publication may keep the reader busy: it has no deadline of its
  own, and is part of MaxBusy.
* JetStream itself, gorilla/websocket and net/http are external; what is
  assumed of them is stated in the comments of the actions that stand for them.

Two things the models made visible and no document contradicts: an allowed
origin configured with an upper-case scheme passes validation and then
matches no request, since the header's scheme is lowered and the configured one
is not; and the write timeout (10 s by default) is longer than the slack between
ping and deadline (6 s), so a ping that waits behind one blocked write
may be too late even for a peer that is alive. ResponsiveStaysConnected states
the condition, and that a reader that is busy for a read timeout, for example with
a publication, is another way to lose such a peer.

## 6. Plan

1. Done: all components but the load test are modelled, and every safety property
   of a passing run is proved.
2. Next, proofs: what joins the components, such as that the sessions `Routing` sees
   are those of `Hub`; action properties of `Routing` and `Client` (an inbox
   only grows, an answer is final, a closed session accepts nothing); and that
   `Routing`'s streams are what `NatsBroker` provides.

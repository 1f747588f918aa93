--------------------------------- MODULE Client --------------------------------
(******************************************************************************)
(* One client session in full: the handler goroutine (Run and readLoop), the  *)
(* writer goroutine (writeLoop), and any number of other goroutines that call *)
(* Send or Close on it through the hub.                                       *)
(*                                                                            *)
(* Close is a call any of them can be in.  Its steps are those of the body of *)
(* closeOnce.Do; a caller that does not win the once waits for the winner.    *)
(*                                                                            *)
(*   call[p].step   enter -> flag -> socket -> callback -> account -> return  *)
(*   handler        start -> ready -> setup -> read -> deadline -> reply      *)
(*                  ... -> stopped (waits for the writer) -> returned         *)
(*   writer         off -> poll -> select -> write -> poll ... -> exited      *)
(******************************************************************************)
EXTENDS Naturals, Sequences

CONSTANTS
    Peer,           \* other goroutines that hold a pointer to the session
    Handler,        \* the handler goroutine
    Writer,         \* the writer goroutine
    QueueCapacity,  \* capacity of the send channel
    MaxAccepted,    \* bound: messages offered to the session
    MaxPings        \* bound: heartbeats the ticker fires

ASSUME QueueCapacityAssumption == QueueCapacity \in Nat \ {0}
ASSUME BoundsAssumption == MaxAccepted \in Nat /\ MaxPings \in Nat
ASSUME ThreadAssumption == Handler # Writer /\ {Handler, Writer} \cap Peer = {}

VARIABLES
    closed,       \* c.closed, and whether c.done is closed (same critical section)
    once,         \* closeOnce: "idle", "running" or "done"
    reason,       \* the reason the winning Close call was given
    socket,       \* "open" or "closed"
    registered,   \* onClose has not run yet
    active,       \* this session's share of the active-connections gauge
    counters,     \* this session's share of the counters kept per close reason
    queue,        \* c.send
    inflight,     \* what the writer took from c.send or pingChan, or Nothing
    pc,           \* where each goroutine is
    call,         \* the Close call each goroutine is in, or NoCall
    accepted,     \* history: messages Send accepted, in order
    sent,         \* history: messages written to the socket, in order
    late,         \* history: messages written after closed was set
    pings         \* heartbeats fired so far

closing == <<closed, once, reason, socket, registered, active, counters>>
sending == <<queue, accepted>>
writing == <<inflight, sent, late, pings>>
vars == <<closing, sending, writing, pc, call>>

Thread == Peer \cup {Handler, Writer}
Message == Peer \cup {"ready", "reply"}
Ping == "ping"
Nothing == "nothing"
NoCall == [reason |-> "none", step |-> "none"]
ASSUME MessageAssumption == Peer \cap {"ready", "reply", Ping, Nothing} = {}

\* The steps of a Close call that runs the body of closeOnce.
OnceBody == {"flag", "socket", "callback", "account"}

HandlerPC ==
    {"start", "ready", "readyRefused", "setup", "read", "deadline", "reply",
     "replyRefused", "stopped", "returned"}
WriterPC == {"off", "poll", "select", "write", "exited"}

\* Close reasons.  "peer_closed" stands for duplicate_session_replaced,
\* server_shutdown and server_failure, "read_failed" for every reader failure but
\* the timeout, "event_failed" for event_id_failed and message_encode_failed, and
\* "write_failed" for both failures of the writer.
CountedReasons == {"heartbeat_timeout", "outbound_queue_full"}
DerivedReasons == {"ready_queue_unavailable", "outbound_unavailable"}
CloseReasons ==
    CountedReasons \cup DerivedReasons
    \cup {"peer_closed", "read_failed", "event_failed", "write_failed"}

\* newClient, and Register has made the session reachable: Run has not started.
Init ==
    /\ closed = FALSE /\ once = "idle" /\ reason = "none"
    /\ socket = "open" /\ registered = TRUE /\ active = 1
    /\ counters = [r \in CountedReasons |-> 0]
    /\ queue = <<>> /\ accepted = <<>>
    /\ inflight = Nothing /\ sent = <<>> /\ late = 0 /\ pings = 0
    /\ pc = [p \in Thread |->
               IF p = Handler THEN "start" ELSE IF p = Writer THEN "off" ELSE "idle"]
    /\ call = [p \in Thread |-> NoCall]

At(p, l) == call[p] = NoCall /\ pc[p] = l
Goto(p, l) == pc' = [pc EXCEPT ![p] = l]

--------------------------------------------------------------------------------
(******************************************************************************)
(* Client.Close.                                                              *)
(******************************************************************************)

\* p calls Close(r) and will go on at l.
CallClose(p, r, l) ==
    /\ Goto(p, l)
    /\ call' = [call EXCEPT ![p] = [reason |-> r, step |-> "enter"]]
    /\ UNCHANGED <<closing, sending, writing>>

InClose(p, s) == call[p].step = s
Step(p, s) == call' = [call EXCEPT ![p].step = s]
Return(p) == call' = [call EXCEPT ![p] = NoCall]

\* Mutant of CloseEnter: a plain flag check instead of sync.Once.
CloseEnterUnguarded(p) ==
    /\ InClose(p, "enter")
    /\ ~ closed
    /\ once' = "running"
    /\ reason' = call[p].reason
    /\ Step(p, "flag")
    /\ UNCHANGED <<closed, socket, registered, active, counters, sending, writing, pc>>

\* closeOnce.Do: the first caller runs the body, the reason is its own.
CloseEnter(p) ==
    /\ InClose(p, "enter")
    /\ once = "idle"
    /\ once' = "running"
    /\ reason' = call[p].reason
    /\ Step(p, "flag")
    /\ UNCHANGED <<closed, socket, registered, active, counters, sending, writing, pc>>

\* Mutant of CloseWait: nobody but the winner ever gets out of closeOnce.Do.
CloseWaitForever(p) ==
    /\ InClose(p, "enter")
    /\ once = "done"
    /\ ~ closed
    /\ Return(p)
    /\ UNCHANGED <<closing, sending, writing, pc>>

\* closeOnce.Do: every other caller returns when the body has been run.
CloseWait(p) ==
    /\ InClose(p, "enter")
    /\ once = "done"
    /\ Return(p)
    /\ UNCHANGED <<closing, sending, writing, pc>>

\* closed = true; close(c.done), under stateMu.
CloseFlag(p) ==
    /\ InClose(p, "flag")
    /\ closed' = TRUE
    /\ Step(p, "socket")
    /\ UNCHANGED <<once, reason, socket, registered, active, counters, sending, writing, pc>>

\* Mutant of CloseSocket: connection.Close is left out.
CloseSocketSkipped(p) ==
    /\ InClose(p, "socket")
    /\ Step(p, "callback")
    /\ UNCHANGED <<closing, sending, writing, pc>>

\* connection.Close().
CloseSocket(p) ==
    /\ InClose(p, "socket")
    /\ socket' = "closed"
    /\ Step(p, "callback")
    /\ UNCHANGED <<closed, once, reason, registered, active, counters, sending, writing, pc>>

\* onClose(reason), that is Hub.Unregister.
CloseCallback(p) ==
    /\ InClose(p, "callback")
    /\ registered' = FALSE
    /\ Step(p, "account")
    /\ UNCHANGED <<closed, once, reason, socket, active, counters, sending, writing, pc>>

\* The gauge and the counters, and the end of the once body.
CloseAccount(p) ==
    /\ InClose(p, "account")
    /\ active' = active - 1
    /\ counters' = IF reason \in CountedReasons
                   THEN [counters EXCEPT ![reason] = @ + 1] ELSE counters
    /\ once' = "done"
    /\ Return(p)
    /\ UNCHANGED <<closed, reason, socket, registered, sending, writing, pc>>

CloseStep(p) ==
    \/ CloseEnter(p) \/ CloseWait(p) \/ CloseFlag(p) \/ CloseSocket(p)
    \/ CloseCallback(p) \/ CloseAccount(p)

--------------------------------------------------------------------------------
(******************************************************************************)
(* Client.Send: one critical section of stateMu, and Close when it overflows. *)
(******************************************************************************)

\* Mutant of SendAccepts: one message more than the channel holds.
SendAcceptsOneMore(p, m, l) ==
    /\ ~ closed
    /\ Len(queue) <= QueueCapacity
    /\ queue' = Append(queue, m)
    /\ accepted' = Append(accepted, m)
    /\ Goto(p, l)
    /\ UNCHANGED <<closing, writing, call>>

\* The message fits.
SendAccepts(p, m, l) ==
    /\ ~ closed
    /\ Len(queue) < QueueCapacity
    /\ queue' = Append(queue, m)
    /\ accepted' = Append(accepted, m)
    /\ Goto(p, l)
    /\ UNCHANGED <<closing, writing, call>>

\* The session is closed.
SendRefuses(p, l) ==
    /\ closed
    /\ Goto(p, l)
    /\ UNCHANGED <<closing, sending, writing, call>>

\* Mutant of SendOverflows: the message is dropped and the session kept.
SendDrops(p, l) ==
    /\ ~ closed
    /\ Len(queue) >= QueueCapacity
    /\ Goto(p, l)
    /\ UNCHANGED <<closing, sending, writing, call>>

\* The queue is full: the session is closed as a slow one.
SendOverflows(p, l) ==
    /\ ~ closed
    /\ Len(queue) >= QueueCapacity
    /\ CallClose(p, "outbound_queue_full", l)

\* p sends m and goes on at ok or, when Send returned false, at refused.
Send(p, m, ok, refused) ==
    \/ SendAccepts(p, m, ok)
    \/ SendRefuses(p, refused)
    \/ SendOverflows(p, refused)

--------------------------------------------------------------------------------
(******************************************************************************)
(* Client.Run and readLoop, on the handler goroutine.                         *)
(******************************************************************************)

\* Run starts the writer.
StartWriter ==
    /\ At(Handler, "start")
    /\ pc' = [pc EXCEPT ![Handler] = "ready", ![Writer] = "poll"]
    /\ UNCHANGED <<closing, sending, writing, call>>

\* connection.ready goes through the same queue as everything else.
SendReady ==
    /\ At(Handler, "ready")
    /\ \/ Send(Handler, "ready", "setup", "readyRefused")
       \/ \E l \in {"stopped", "readyRefused"} : CallClose(Handler, "event_failed", l)

ReadyRefused ==
    /\ At(Handler, "readyRefused")
    /\ CallClose(Handler, "ready_queue_unavailable", "stopped")

\* SetPongHandler and the first read deadline, which a closed socket refuses.
SetupRead ==
    /\ At(Handler, "setup")
    /\ \/ /\ socket = "open"
          /\ Goto(Handler, "read")
          /\ UNCHANGED <<closing, sending, writing, call>>
       \/ CallClose(Handler, "read_failed", "stopped")

\* A frame arrived; it may have been buffered before the socket was closed.
ReadFrame ==
    /\ At(Handler, "read")
    /\ Len(accepted) < MaxAccepted
    /\ Goto(Handler, "deadline")
    /\ UNCHANGED <<closing, sending, writing, call>>

\* ReadMessage fails: the peer is gone or silent, or the socket is closed.
ReadFails ==
    /\ At(Handler, "read")
    /\ \E r \in {"read_failed", "heartbeat_timeout"} : CallClose(Handler, r, "stopped")

\* Refreshing the read deadline fails on a closed socket.
RefreshDeadline ==
    /\ At(Handler, "deadline")
    /\ \/ /\ socket = "open"
          /\ Goto(Handler, "reply")
          /\ UNCHANGED <<closing, sending, writing, call>>
       \/ CallClose(Handler, "read_failed", "stopped")

\* Every frame is answered: acknowledgement, protocol error or command error.
SendReply ==
    /\ At(Handler, "reply")
    /\ \/ Send(Handler, "reply", "read", "replyRefused")
       \/ CallClose(Handler, "event_failed", "replyRefused")

ReplyRefused ==
    /\ At(Handler, "replyRefused")
    /\ CallClose(Handler, "outbound_unavailable", "stopped")

\* Mutant of AwaitWriter: Run does not wait for writerDone.
ReturnAtOnce ==
    /\ At(Handler, "stopped")
    /\ Goto(Handler, "returned")
    /\ UNCHANGED <<closing, sending, writing, call>>

\* <-writerDone.
AwaitWriter ==
    /\ At(Handler, "stopped")
    /\ At(Writer, "exited")
    /\ Goto(Handler, "returned")
    /\ UNCHANGED <<closing, sending, writing, call>>

\* Steps the handler takes by itself.
HandlerStep ==
    \/ StartWriter \/ SendReady \/ ReadyRefused \/ SetupRead
    \/ RefreshDeadline \/ SendReply \/ ReplyRefused \/ AwaitWriter

--------------------------------------------------------------------------------
(******************************************************************************)
(* Client.writeLoop, on the writer goroutine.                                 *)
(******************************************************************************)

\* Mutant of Poll: the first select is left out.
PollSkipped ==
    /\ At(Writer, "poll")
    /\ Goto(Writer, "select")
    /\ UNCHANGED <<closing, sending, writing, call>>

\* The first select: done has priority.
Poll ==
    /\ At(Writer, "poll")
    /\ Goto(Writer, IF closed THEN "exited" ELSE "select")
    /\ UNCHANGED <<closing, sending, writing, call>>

\* The second select chooses among whatever is ready.
SelectDone ==
    /\ At(Writer, "select")
    /\ closed
    /\ Goto(Writer, "exited")
    /\ UNCHANGED <<closing, sending, writing, call>>

SelectMessage ==
    /\ At(Writer, "select")
    /\ queue # <<>>
    /\ inflight' = Head(queue)
    /\ queue' = Tail(queue)
    /\ Goto(Writer, "write")
    /\ UNCHANGED <<closing, accepted, sent, late, pings, call>>

SelectPing ==
    /\ At(Writer, "select")
    /\ pings < MaxPings
    /\ pings' = pings + 1
    /\ inflight' = Ping
    /\ Goto(Writer, "write")
    /\ UNCHANGED <<closing, sending, sent, late, call>>

\* Mutant of WriteSucceeds: the writer leaves its loop after one frame.
WriteOnce ==
    /\ At(Writer, "write")
    /\ socket = "open"
    /\ inflight' = Nothing
    /\ sent' = IF inflight = Ping THEN sent ELSE Append(sent, inflight)
    /\ Goto(Writer, "exited")
    /\ UNCHANGED <<closing, sending, late, pings, call>>

\* SetWriteDeadline and WriteMessage succeed; a ping is not a message.
WriteSucceeds ==
    /\ At(Writer, "write")
    /\ socket = "open"
    /\ inflight' = Nothing
    /\ IF inflight = Ping
       THEN UNCHANGED <<sent, late>>
       ELSE /\ sent' = Append(sent, inflight)
            /\ late' = IF closed THEN late + 1 ELSE late
    /\ Goto(Writer, "poll")
    /\ UNCHANGED <<closing, sending, pings, call>>

\* SetWriteDeadline or WriteMessage fails, as it must on a closed socket and
\* does, after the write timeout, on a peer that stopped reading.
WriteFails ==
    /\ At(Writer, "write")
    /\ inflight' = Nothing
    /\ Goto(Writer, "exited")
    /\ call' = [call EXCEPT ![Writer] = [reason |-> "write_failed", step |-> "enter"]]
    /\ UNCHANGED <<closing, sending, sent, late, pings>>

WriterStep ==
    \/ Poll \/ SelectDone \/ SelectMessage \/ SelectPing \/ WriteSucceeds \/ WriteFails

--------------------------------------------------------------------------------
(******************************************************************************)
(* Other goroutines: hub broadcasts, private sends, draining, replacement.    *)
(******************************************************************************)

PeerSend(p) ==
    /\ At(p, "idle")
    /\ Len(accepted) < MaxAccepted
    /\ Send(p, p, "idle", "idle")

PeerClose(p) ==
    /\ At(p, "idle")
    /\ CallClose(p, "peer_closed", "idle")

Next ==
    \/ \E p \in Thread : CloseStep(p)
    \/ HandlerStep
    \/ ReadFrame
    \/ ReadFails
    \/ WriterStep
    \/ \E p \in Peer : PeerSend(p) \/ PeerClose(p)

Spec == Init /\ [][Next]_vars

\* Goroutines that can run do; a read on a closed socket fails; a write ends,
\* because config makes the write timeout positive; and a select with a message
\* ready again and again does not pass it over for ever.
Fairness ==
    /\ \A p \in Thread : WF_vars(CloseStep(p))
    /\ WF_vars(HandlerStep)
    /\ WF_vars(socket = "closed" /\ ReadFails)
    /\ WF_vars(WriterStep)
    /\ SF_vars(SelectMessage)

FairSpec == Spec /\ Fairness

--------------------------------------------------------------------------------
(******************************************************************************)
(* Properties.                                                                *)
(******************************************************************************)

\* Types of the session's state.
TypeOK ==
    /\ closed \in BOOLEAN
    /\ once \in {"idle", "running", "done"}
    /\ reason \in CloseReasons \cup {"none"}
    /\ socket \in {"open", "closed"}
    /\ registered \in BOOLEAN
    /\ active \in 0..1 /\ counters \in [CountedReasons -> 0..1]
    /\ queue \in Seq(Message) /\ Len(queue) <= QueueCapacity
    /\ accepted \in Seq(Message) /\ sent \in Seq(Message)
    /\ inflight \in Message \cup {Ping, Nothing}
    /\ late \in Nat /\ pings \in 0..MaxPings
    /\ pc \in [Thread -> HandlerPC \cup WriterPC \cup {"idle"}]
    /\ call \in [Thread -> {NoCall} \cup [reason : CloseReasons, step : {"enter"} \cup OnceBody]]

\* Whoever races to close it, a session is unregistered and leaves the gauge
\* exactly once, and an overflow or a timeout is counted when it is the cause.
CleanupOnce ==
    /\ active = IF once = "done" THEN 0 ELSE 1
    /\ once = "done" =>
         /\ closed /\ ~ registered /\ socket = "closed"
         /\ \A r \in CountedReasons : counters[r] = IF r = reason THEN 1 ELSE 0
    /\ \A p, q \in Thread :
         call[p].step \in OnceBody /\ call[q].step \in OnceBody => p = q

\* The recorded reason is a cause, never its echo: a session is not recorded as
\* closed because its queue was unavailable, since only Close makes it so.
RootCauseRecorded == reason \notin DerivedReasons

\* When Run returns the session is over: the writer is gone, the once body has
\* been run to its end, and no message is on its way.  Other callers of Close
\* may only be on their way out.
ReturnedIsQuiet ==
    pc[Handler] = "returned" =>
        /\ At(Writer, "exited")
        /\ once = "done" /\ ~ registered /\ socket = "closed"
        /\ inflight = Nothing

\* The outbox the senders see: accepted and written messages in the same order,
\* bounded by the queue and the one message in the writer's hands, and at most
\* one message written after the session is marked closed.
AbstractOutbox ==
    INSTANCE Outbox WITH
        Bound <- QueueCapacity + 1,
        written <- sent,
        open <- ~ closed,
        grace <- IF late = 0 THEN 1 ELSE 0

\* Every step of the session is a step of the outbox or invisible to it.
ImplementsOutbox == AbstractOutbox!OutboxSpec

\* Every caller of Close gets out of it: no goroutine is left inside the once.
CloseReturns == \A p \in Thread : call[p] # NoCall ~> call[p] = NoCall

\* Once a close has begun, Run returns, whatever reader and writer were doing.
RunReturns == once # "idle" ~> pc[Handler] = "returned"

\* An accepted message is written, unless the session is closed first.
AcceptedIsWritten ==
    \A n \in 1..MaxAccepted :
        Len(accepted) >= n ~> Len(sent) >= n \/ closed
================================================================================

------------------------------ MODULE ClientProofs -----------------------------
(******************************************************************************)
(* Proofs about Client, for any number of other goroutines, any queue and any *)
(* bound on messages and pings.                                               *)
(*                                                                            *)
(* The invariant has five parts, shown to be preserved one after the other:   *)
(* types, the state of the once, the origin of a close reason, what has ended *)
(* when a goroutine is at its end, and the order of messages on their way.    *)
(******************************************************************************)
EXTENDS Client, TLAPS

--------------------------------------------------------------------------------
(* The inductive invariant. *)

\* Where the two goroutines of the session are, and what the writer holds.
Places ==
    /\ pc[Handler] \in HandlerPC /\ pc[Writer] \in WriterPC
    /\ pc[Handler] = "start" => pc[Writer] = "off"
    /\ pc[Writer] = "off" => call[Writer] = NoCall
    /\ inflight # Nothing <=> pc[Writer] = "write"

\* What has been done by the time the winner of the once is at each of its steps.
BodyDone(p) ==
    /\ call[p].step = "flag" => ~ closed /\ socket = "open" /\ registered
    /\ call[p].step = "socket" => closed /\ socket = "open" /\ registered
    /\ call[p].step = "callback" => closed /\ socket = "closed" /\ registered
    /\ call[p].step = "account" => closed /\ socket = "closed" /\ ~ registered

OnceInv ==
    /\ \A p, q \in Thread : call[p].step \in OnceBody /\ call[q].step \in OnceBody => p = q
    /\ \A p \in Thread : call[p].step \in OnceBody => once = "running"
    /\ \A p \in Thread : BodyDone(p)
    /\ once = "idle" => ~ closed /\ socket = "open" /\ registered /\ reason = "none"
    /\ once # "done" => active = 1 /\ \A r \in CountedReasons : counters[r] = 0
    /\ once = "done" =>
         /\ active = 0 /\ closed /\ ~ registered /\ socket = "closed"
         /\ \A r \in CountedReasons : counters[r] = IF r = reason THEN 1 ELSE 0

\* A reason that echoes an earlier close is only given once that close has begun.
CauseInv ==
    /\ reason \notin DerivedReasons
    /\ \A p \in Thread : call[p].reason \in DerivedReasons => once # "idle"
    /\ pc[Handler] \in {"readyRefused", "replyRefused"} /\ call[Handler] = NoCall
         => once # "idle"

\* A handler that waits for the writer has closed the session, and one that has
\* returned has seen the writer's end.
QuietInv ==
    /\ pc[Handler] \in {"stopped", "returned"} /\ call[Handler] = NoCall => once = "done"
    /\ pc[Handler] = "returned" =>
         call[Handler] = NoCall /\ call[Writer] = NoCall /\ pc[Writer] = "exited"

\* Number of messages the writer holds.
Held == IF inflight \in Message THEN 1 ELSE 0

\* Until the writer exits, the accepted messages are those written, the one the
\* writer holds and those in the queue; then at most one, the one whose write
\* failed, is in none of the three.  Only the last write can be a late one.
OrderInv ==
    /\ Len(sent) + Held + Len(queue) <= Len(accepted)
    /\ Len(accepted) <= Len(sent) + Len(queue) + 1
    /\ pc[Writer] # "exited" =>
         /\ Len(accepted) = Len(sent) + Held + Len(queue)
         /\ Held = 1 => inflight = accepted[Len(sent) + 1]
         /\ \A i \in 1..Len(queue) : queue[i] = accepted[Len(sent) + Held + i]
    /\ late > 0 => closed /\ pc[Writer] \in {"poll", "exited"}

ClientInv == TypeOK /\ Places /\ OnceInv /\ CauseInv /\ QuietInv /\ OrderInv

--------------------------------------------------------------------------------
(* Preservation, one action at a time. *)

USE QueueCapacityAssumption, BoundsAssumption, ThreadAssumption, MessageAssumption

\* The new session satisfies the invariant.
LEMMA InitClientInv == Init => ClientInv
<1> SUFFICES ASSUME Init PROVE ClientInv
  OBVIOUS
<1> USE DEF Init, Thread, Message, Ping, Nothing, NoCall
<1>1. TypeOK
  <2>1. queue \in Seq(Message) /\ accepted \in Seq(Message) /\ sent \in Seq(Message)
    OBVIOUS
  <2>2. counters \in [CountedReasons -> 0..1]
    OBVIOUS
  <2>3. /\ pc \in [Thread -> HandlerPC \cup WriterPC \cup {"idle"}]
        /\ call \in [Thread -> {NoCall} \cup [reason : CloseReasons, step : {"enter"} \cup OnceBody]]
    BY DEF HandlerPC, WriterPC
  <2>4. Len(queue) <= QueueCapacity /\ active \in 0..1 /\ late \in Nat /\ pings \in 0..MaxPings
    OBVIOUS
  <2>5. /\ closed \in BOOLEAN /\ registered \in BOOLEAN
        /\ once \in {"idle", "running", "done"} /\ reason \in CloseReasons \cup {"none"}
        /\ socket \in {"open", "closed"} /\ inflight \in Message \cup {Ping, Nothing}
    OBVIOUS
  <2> QED BY <2>1, <2>2, <2>3, <2>4, <2>5 DEF TypeOK
<1>2. Places
  BY DEF Places, HandlerPC, WriterPC
<1>3. OnceInv
  BY DEF OnceInv, BodyDone, OnceBody
<1>4. CauseInv /\ QuietInv
  BY DEF CauseInv, QuietInv, DerivedReasons
<1>5. OrderInv
  BY DEF OrderInv, Held
<1> QED BY <1>1, <1>2, <1>3, <1>4, <1>5 DEF ClientInv

\* The next step of the once body is a step of a call.
LEMMA StepTyped ==
    ASSUME NEW p \in Thread, NEW t \in OnceBody, Step(p, t), call[p].step # NoCall.step,
           call \in [Thread -> {NoCall} \cup [reason : CloseReasons, step : {"enter"} \cup OnceBody]]
    PROVE  call' \in [Thread -> {NoCall} \cup [reason : CloseReasons, step : {"enter"} \cup OnceBody]]
<1>1. call[p] \in [reason : CloseReasons, step : {"enter"} \cup OnceBody]
  OBVIOUS
<1>2. [call[p] EXCEPT !.step = t] \in [reason : CloseReasons, step : {"enter"} \cup OnceBody]
  BY <1>1
<1> QED BY <1>2 DEF Step

\* CloseEnter: the first caller takes the once, and its reason is a cause.
LEMMA CloseEnterInv ==
    ASSUME ClientInv, NEW p \in Thread, CloseEnter(p)
    PROVE  ClientInv'
<1> USE DEF CloseEnter, InClose, Step, ClientInv, closing, sending, writing
<1>1. TypeOK'
  BY DEF TypeOK, OnceBody, NoCall
<1>2. Places'
  BY DEF Places, TypeOK, NoCall
<1>3. OnceInv'
  BY DEF OnceInv, BodyDone, OnceBody, TypeOK, NoCall
<1>4. CauseInv' /\ QuietInv'
  BY DEF CauseInv, QuietInv, TypeOK, NoCall
<1>5. OrderInv'
  BY DEF OrderInv, Held
<1> QED BY <1>1, <1>2, <1>3, <1>4, <1>5

\* CloseWait: a caller that lost the once goes on when the close is complete.
LEMMA CloseWaitInv ==
    ASSUME ClientInv, NEW p \in Thread, CloseWait(p)
    PROVE  ClientInv'
<1> USE DEF CloseWait, InClose, Return, ClientInv, closing, sending, writing
<1>1. TypeOK'
  <2>1. call' \in [Thread -> {NoCall} \cup [reason : CloseReasons, step : {"enter"} \cup OnceBody]]
    BY DEF TypeOK
  <2> QED BY <2>1 DEF TypeOK
<1>2. Places'
  BY DEF Places, TypeOK, NoCall
<1>3. OnceInv'
  BY DEF OnceInv, BodyDone, OnceBody, TypeOK, NoCall
<1>4. CauseInv' /\ QuietInv'
  BY DEF CauseInv, QuietInv, TypeOK, NoCall
<1>5. OrderInv'
  BY DEF OrderInv, Held
<1> QED BY <1>1, <1>2, <1>3, <1>4, <1>5

\* CloseFlag: the winner marks the session closed.
LEMMA CloseFlagInv ==
    ASSUME ClientInv, NEW p \in Thread, CloseFlag(p)
    PROVE  ClientInv'
<1> USE DEF CloseFlag, InClose, Step, ClientInv, closing, sending, writing
<1>1. TypeOK'
  <2>1. call' \in [Thread -> {NoCall} \cup [reason : CloseReasons, step : {"enter"} \cup OnceBody]]
    BY StepTyped DEF TypeOK, OnceBody, NoCall
  <2>2. closed' \in BOOLEAN
    OBVIOUS
  <2> QED BY <2>1, <2>2 DEF TypeOK
<1>2. Places'
  BY DEF Places, TypeOK, NoCall
<1>3. OnceInv'
  BY DEF OnceInv, BodyDone, OnceBody, TypeOK, NoCall
<1>4. CauseInv' /\ QuietInv'
  BY DEF CauseInv, QuietInv, TypeOK, NoCall
<1>5. OrderInv'
  BY DEF OrderInv, Held
<1> QED BY <1>1, <1>2, <1>3, <1>4, <1>5

\* CloseSocket: the winner closes the socket.
LEMMA CloseSocketInv ==
    ASSUME ClientInv, NEW p \in Thread, CloseSocket(p)
    PROVE  ClientInv'
<1> USE DEF CloseSocket, InClose, Step, ClientInv, closing, sending, writing
<1>1. TypeOK'
  BY DEF TypeOK, OnceBody, NoCall
<1>2. Places'
  BY DEF Places, TypeOK, NoCall
<1>3. OnceInv'
  BY DEF OnceInv, BodyDone, OnceBody, TypeOK, NoCall
<1>4. CauseInv' /\ QuietInv'
  BY DEF CauseInv, QuietInv, TypeOK, NoCall
<1>5. OrderInv'
  BY DEF OrderInv, Held
<1> QED BY <1>1, <1>2, <1>3, <1>4, <1>5

\* CloseCallback: the winner unregisters the session.
LEMMA CloseCallbackInv ==
    ASSUME ClientInv, NEW p \in Thread, CloseCallback(p)
    PROVE  ClientInv'
<1> USE DEF CloseCallback, InClose, Step, ClientInv, closing, sending, writing
<1>1. TypeOK'
  <2>1. call' \in [Thread -> {NoCall} \cup [reason : CloseReasons, step : {"enter"} \cup OnceBody]]
    BY StepTyped DEF TypeOK, OnceBody, NoCall
  <2>2. registered' \in BOOLEAN
    OBVIOUS
  <2> QED BY <2>1, <2>2 DEF TypeOK
<1>2. Places'
  BY DEF Places, TypeOK, NoCall
<1>3. OnceInv'
  BY DEF OnceInv, BodyDone, OnceBody, TypeOK, NoCall
<1>4. CauseInv' /\ QuietInv'
  BY DEF CauseInv, QuietInv, TypeOK, NoCall
<1>5. OrderInv'
  BY DEF OrderInv, Held
<1> QED BY <1>1, <1>2, <1>3, <1>4, <1>5

\* CloseAccount: the winner settles the gauge and the counter of its reason.
LEMMA CloseAccountInv ==
    ASSUME ClientInv, NEW p \in Thread, CloseAccount(p)
    PROVE  ClientInv'
<1> USE DEF CloseAccount, InClose, Return, ClientInv, closing, sending, writing
<1>1. TypeOK'
  <2>1. call' \in [Thread -> {NoCall} \cup [reason : CloseReasons, step : {"enter"} \cup OnceBody]]
    BY DEF TypeOK
  <2>2. active' \in 0..1 /\ counters' \in [CountedReasons -> 0..1]
    BY DEF TypeOK, OnceInv, OnceBody
  <2> QED BY <2>1, <2>2 DEF TypeOK
<1>2. Places'
  BY DEF Places, TypeOK, NoCall
<1>3. OnceInv'
  BY DEF OnceInv, BodyDone, OnceBody, TypeOK, NoCall
<1>4. CauseInv' /\ QuietInv'
  BY DEF CauseInv, QuietInv, TypeOK, NoCall
<1>5. OrderInv'
  BY DEF OrderInv, Held
<1> QED BY <1>1, <1>2, <1>3, <1>4, <1>5

\* CallClose: a goroutine that is in no call begins one, with a reason that echoes
\* an earlier close only if there was one.
LEMMA CallCloseInv ==
    ASSUME ClientInv, NEW p \in Thread, NEW r \in CloseReasons, NEW l,
           call[p] = NoCall, CallClose(p, r, l),
           r \in DerivedReasons => once # "idle",
           \/ /\ p = Handler /\ pc[Handler] \notin {"start", "returned"}
              /\ l \in HandlerPC \ {"start", "returned"}
           \/ p \in Peer /\ l = "idle"
    PROVE  ClientInv'
<1> USE DEF CallClose, Goto, ClientInv, closing, sending, writing
<1>1. TypeOK'
  BY DEF TypeOK, OnceBody, NoCall, HandlerPC
<1>2. Places'
  BY DEF Places, TypeOK, NoCall
<1>3. OnceInv'
  BY DEF OnceInv, BodyDone, OnceBody, TypeOK, NoCall
<1>4. CauseInv' /\ QuietInv'
  BY DEF CauseInv, QuietInv, TypeOK, NoCall
<1>5. OrderInv'
  BY DEF OrderInv, Held
<1> QED BY <1>1, <1>2, <1>3, <1>4, <1>5

\* A goroutine moves and nothing else changes.
LEMMA GotoInv ==
    ASSUME ClientInv, NEW p \in Thread, NEW l,
           call[p] = NoCall, Goto(p, l), UNCHANGED <<closing, sending, writing, call>>,
           \/ /\ p = Handler /\ pc[Handler] \notin {"start", "returned"}
              /\ l \in HandlerPC \ {"start", "stopped", "returned"}
              /\ l \in {"readyRefused", "replyRefused"} => once # "idle"
           \/ /\ p = Writer /\ pc[Writer] \in {"poll", "select"}
              /\ l = "exited" \/ (l = "select" /\ ~ closed)
           \/ p \in Peer /\ l = "idle"
    PROVE  ClientInv'
<1> USE DEF Goto, ClientInv, closing, sending, writing
<1>1. TypeOK'
  BY DEF TypeOK, HandlerPC, WriterPC
<1>2. Places'
  BY DEF Places, TypeOK, NoCall, HandlerPC, WriterPC
<1>3. OnceInv'
  BY DEF OnceInv, BodyDone
<1>4. CauseInv' /\ QuietInv'
  BY DEF CauseInv, QuietInv, TypeOK, NoCall
<1>5. OrderInv'
  BY DEF OrderInv, Held
<1> QED BY <1>1, <1>2, <1>3, <1>4, <1>5

\* SendAccepts: the message joins the end of the queue.
LEMMA SendAcceptsInv ==
    ASSUME ClientInv, NEW p \in Thread, NEW m \in Message, NEW l,
           call[p] = NoCall, SendAccepts(p, m, l),
           \/ /\ p = Handler /\ pc[Handler] \notin {"start", "returned"}
              /\ l \in {"setup", "read"}
           \/ p \in Peer /\ l = "idle"
    PROVE  ClientInv'
<1> USE DEF SendAccepts, Goto, ClientInv, closing, sending, writing
<1>1. TypeOK'
  BY DEF TypeOK, HandlerPC
<1>2. Places'
  BY DEF Places, TypeOK, NoCall, HandlerPC
<1>3. OnceInv'
  BY DEF OnceInv, BodyDone
<1>4. CauseInv' /\ QuietInv'
  BY DEF CauseInv, QuietInv, TypeOK, NoCall
<1>5. OrderInv'
  <2>1. /\ Len(queue') = Len(queue) + 1 /\ queue'[Len(queue')] = m
        /\ \A i \in 1..Len(queue) : queue'[i] = queue[i]
    BY DEF TypeOK
  <2>2. /\ Len(accepted') = Len(accepted) + 1 /\ accepted'[Len(accepted')] = m
        /\ \A i \in 1..Len(accepted) : accepted'[i] = accepted[i]
    BY DEF TypeOK
  <2>3. Held' = Held /\ Held \in 0..1 /\ pc'[Writer] = pc[Writer]
    BY DEF Held, TypeOK, Thread
  <2>4. Len(sent) \in Nat /\ Len(queue) \in Nat /\ Len(accepted) \in Nat
    BY DEF TypeOK
  <2>5. ASSUME pc[Writer] # "exited"
        PROVE  /\ Held = 1 => inflight = accepted'[Len(sent) + 1]
               /\ \A i \in 1..Len(queue') : queue'[i] = accepted'[Len(sent) + Held + i]
    BY <2>1, <2>2, <2>3, <2>4, <2>5 DEF OrderInv
  <2>6. late' = 0
    BY DEF OrderInv, TypeOK
  <2>7. pc[Writer] # "exited" => Len(accepted') = Len(sent) + Held + Len(queue')
    <3>1. pc[Writer] # "exited" => Len(accepted) = Len(sent) + Held + Len(queue)
      BY DEF OrderInv
    <3> HIDE DEF SendAccepts
    <3> QED BY <3>1, <2>1, <2>2, <2>3, <2>4
  <2>8. Len(sent) + Held + Len(queue') <= Len(accepted') /\ Len(accepted') <= Len(sent) + Len(queue') + 1
    BY <2>1, <2>2, <2>3, <2>4 DEF OrderInv
  <2> QED BY <2>3, <2>5, <2>6, <2>7, <2>8 DEF OrderInv
<1> QED BY <1>1, <1>2, <1>3, <1>4, <1>5

\* StartWriter: the handler starts the writer, which is nowhere until then.
LEMMA StartWriterInv ==
    ASSUME ClientInv, StartWriter
    PROVE  ClientInv'
<1> USE DEF StartWriter, At, ClientInv, closing, sending, writing
<1>1. TypeOK'
  BY DEF TypeOK, HandlerPC, WriterPC
<1>2. Places'
  BY DEF Places, TypeOK, Thread, HandlerPC, WriterPC
<1>3. OnceInv'
  BY DEF OnceInv, BodyDone
<1>4. CauseInv' /\ QuietInv'
  BY DEF CauseInv, QuietInv, TypeOK, Thread
<1>5. OrderInv'
  BY DEF OrderInv, Held, TypeOK, Places, Thread
<1> QED BY <1>1, <1>2, <1>3, <1>4, <1>5

\* AwaitWriter: the handler returns when the writer has exited.
LEMMA AwaitWriterInv ==
    ASSUME ClientInv, AwaitWriter
    PROVE  ClientInv'
<1> USE DEF AwaitWriter, At, Goto, ClientInv, closing, sending, writing
<1>1. TypeOK'
  BY DEF TypeOK, HandlerPC
<1>2. Places'
  BY DEF Places, TypeOK, HandlerPC
<1>3. OnceInv'
  BY DEF OnceInv, BodyDone
<1>4. CauseInv' /\ QuietInv'
  BY DEF CauseInv, QuietInv, TypeOK, NoCall
<1>5. OrderInv'
  BY DEF OrderInv, Held
<1> QED BY <1>1, <1>2, <1>3, <1>4, <1>5

\* SelectMessage: the writer takes the head of the queue in hand.
LEMMA SelectMessageInv ==
    ASSUME ClientInv, SelectMessage
    PROVE  ClientInv'
<1> USE DEF SelectMessage, At, Goto, ClientInv, closing, sending, writing
<1>1. TypeOK'
  <2>1. inflight' \in Message /\ queue' \in Seq(Message) /\ Len(queue') <= QueueCapacity
    BY DEF TypeOK
  <2>2. pc' \in [Thread -> HandlerPC \cup WriterPC \cup {"idle"}]
    BY DEF TypeOK, WriterPC
  <2> QED BY <2>1, <2>2 DEF TypeOK
<1>2. Places'
  <2>1. inflight' \in Message
    BY DEF TypeOK
  <2>2. pc'[Writer] = "write" /\ pc'[Handler] = pc[Handler]
    BY DEF TypeOK, Thread
  <2> QED BY <2>1, <2>2 DEF Places, Message, Nothing, WriterPC
<1>3. OnceInv'
  BY DEF OnceInv, BodyDone
<1>4. CauseInv' /\ QuietInv'
  BY DEF CauseInv, QuietInv, TypeOK, NoCall
<1>5. OrderInv'
  <2>1. /\ Len(queue) = Len(queue') + 1 /\ inflight' = queue[1]
        /\ \A i \in 1..Len(queue') : queue'[i] = queue[i + 1]
    BY DEF TypeOK
  <2>2. Held = 0 /\ Held' = 1
    BY <2>1 DEF Held, TypeOK, Places, Message, Nothing
  <2>3. pc'[Writer] = "write" /\ pc[Writer] = "select"
    BY DEF TypeOK, Thread
  <2>4. Len(sent) \in Nat /\ Len(queue') \in Nat /\ Len(accepted) \in Nat
    BY DEF TypeOK
  <2>5. late = 0
    BY <2>3 DEF OrderInv, TypeOK
  <2> QED BY <2>1, <2>2, <2>3, <2>4, <2>5 DEF OrderInv
<1> QED BY <1>1, <1>2, <1>3, <1>4, <1>5

\* SelectPing: the writer takes a heartbeat in hand.
LEMMA SelectPingInv ==
    ASSUME ClientInv, SelectPing
    PROVE  ClientInv'
<1> USE DEF SelectPing, At, Goto, ClientInv, closing, sending, writing
<1>1. TypeOK'
  <2>1. inflight' = Ping /\ pings' \in 0..MaxPings
    BY DEF TypeOK
  <2>2. pc' \in [Thread -> HandlerPC \cup WriterPC \cup {"idle"}]
    BY DEF TypeOK, WriterPC
  <2> QED BY <2>1, <2>2 DEF TypeOK
<1>2. Places'
  <2>1. pc'[Writer] = "write" /\ pc'[Handler] = pc[Handler]
    BY DEF TypeOK, Thread
  <2> QED BY <2>1 DEF Places, Ping, Nothing, WriterPC
<1>3. OnceInv'
  BY DEF OnceInv, BodyDone
<1>4. CauseInv' /\ QuietInv'
  BY DEF CauseInv, QuietInv, TypeOK, NoCall
<1>5. OrderInv'
  BY DEF OrderInv, Held, TypeOK, Places, Message, Ping, Nothing
<1> QED BY <1>1, <1>2, <1>3, <1>4, <1>5

\* WriteSucceeds: the message in hand is written, and after the session is closed
\* it is the last.
LEMMA WriteSucceedsInv ==
    ASSUME ClientInv, WriteSucceeds
    PROVE  ClientInv'
<1> USE DEF WriteSucceeds, At, Goto, ClientInv, closing, sending, writing
<1>1. TypeOK'
  <2>1. inflight # Ping => inflight \in Message
    BY DEF TypeOK, Places
  <2>2. sent \in Seq(Message) /\ (inflight # Ping => Append(sent, inflight) \in Seq(Message))
    BY <2>1 DEF TypeOK
  <2>4. late' \in Nat
    BY DEF TypeOK
  <2>3. pc' \in [Thread -> HandlerPC \cup WriterPC \cup {"idle"}]
    BY DEF TypeOK, WriterPC
  <2> QED BY <2>2, <2>3, <2>4 DEF TypeOK
<1>2. Places'
  <2>1. pc'[Writer] = "poll" /\ pc'[Handler] = pc[Handler]
    BY DEF TypeOK, Thread
  <2> QED BY <2>1 DEF Places, Ping, Nothing, WriterPC
<1>3. OnceInv'
  BY DEF OnceInv, BodyDone
<1>4. CauseInv' /\ QuietInv'
  BY DEF CauseInv, QuietInv, TypeOK, NoCall
<1>5. OrderInv'
  <2>1. pc'[Writer] = "poll" /\ pc[Writer] = "write" /\ late = 0
    BY DEF TypeOK, Thread, OrderInv
  <2>2. Held' = 0
    BY DEF Held, Message, Nothing
  <2>3. Len(sent) \in Nat /\ Len(queue) \in Nat /\ Len(accepted) \in Nat
    BY DEF TypeOK
  <2>4. Len(sent') = Len(sent) + Held
    <3>1. CASE inflight = Ping
      BY <3>1 DEF Held, Message, Ping, TypeOK
    <3>2. CASE inflight # Ping
      BY <3>2 DEF Held, TypeOK, Places
    <3> QED BY <3>1, <3>2
  <2>5. late' > 0 => closed'
    BY <2>1
  <2>6. /\ Len(accepted) = Len(sent') + Held' + Len(queue)
        /\ \A i \in 1..Len(queue) : queue[i] = accepted[Len(sent') + Held' + i]
    <3>1. /\ Len(accepted) = Len(sent) + Held + Len(queue)
          /\ \A i \in 1..Len(queue) : queue[i] = accepted[Len(sent) + Held + i]
      BY <2>1 DEF OrderInv
    <3>2. Held \in 0..1
      BY DEF Held
    <3> HIDE DEF WriteSucceeds
    <3> QED BY <3>1, <3>2, <2>2, <2>3, <2>4
  <2> QED BY <2>1, <2>2, <2>3, <2>5, <2>6 DEF OrderInv
<1> QED BY <1>1, <1>2, <1>3, <1>4, <1>5

\* WriteFails: the message in hand is lost and the writer closes the session.
LEMMA WriteFailsInv ==
    ASSUME ClientInv, WriteFails
    PROVE  ClientInv'
<1> USE DEF WriteFails, At, Goto, ClientInv, closing, sending, writing
<1>1. TypeOK'
  BY DEF TypeOK, NoCall, WriterPC, CloseReasons
<1>2. Places'
  <2>1. pc'[Writer] = "exited" /\ pc'[Handler] = pc[Handler]
    BY DEF TypeOK, Thread
  <2> QED BY <2>1 DEF Places, Ping, Nothing, WriterPC
<1>3. OnceInv'
  BY DEF OnceInv, BodyDone, OnceBody, TypeOK, NoCall
<1>4. CauseInv' /\ QuietInv'
  BY DEF CauseInv, QuietInv, TypeOK, NoCall, Places, DerivedReasons
<1>5. OrderInv'
  <2>1. pc'[Writer] = "exited" /\ pc[Writer] = "write"
    BY DEF TypeOK, Thread
  <2>2. Held' = 0 /\ Held \in 0..1
    BY DEF Held, Message, Nothing
  <2>3. Len(sent) \in Nat /\ Len(queue) \in Nat /\ Len(accepted) \in Nat
    BY DEF TypeOK
  <2> QED BY <2>1, <2>2, <2>3 DEF OrderInv
<1> QED BY <1>1, <1>2, <1>3, <1>4, <1>5
\* Send, whatever its outcome: it returns false only of a session already closed
\* or by beginning the close itself.
LEMMA SendInv ==
    ASSUME ClientInv, NEW p \in Thread, NEW m \in Message, NEW ok, NEW refused,
           call[p] = NoCall, Send(p, m, ok, refused),
           \/ /\ p = Handler /\ pc[Handler] \notin {"start", "returned"}
              /\ ok \in {"setup", "read"} /\ refused \in {"readyRefused", "replyRefused"}
           \/ p \in Peer /\ ok = "idle" /\ refused = "idle"
    PROVE  ClientInv'
<1>1. CASE SendAccepts(p, m, ok)
  BY <1>1, SendAcceptsInv
<1>2. CASE SendRefuses(p, refused)
  <2>1. once # "idle"
    BY <1>2 DEF SendRefuses, ClientInv, OnceInv, TypeOK
  <2> QED BY <1>2, <2>1, GotoInv DEF SendRefuses, HandlerPC
<1>3. CASE SendOverflows(p, refused)
  <2>1. "outbound_queue_full" \in CloseReasons \ DerivedReasons
    BY DEF CloseReasons, CountedReasons, DerivedReasons
  <2> QED BY <1>3, <2>1, CallCloseInv DEF SendOverflows, HandlerPC
<1> QED BY <1>1, <1>2, <1>3 DEF Send

\* Every step preserves the invariant.
LEMMA NextClientInv == ClientInv /\ [Next]_vars => ClientInv'
<1> SUFFICES ASSUME ClientInv, [Next]_vars PROVE ClientInv'
  OBVIOUS
<1> USE DEF At
<1>0. /\ Handler \in Thread /\ Writer \in Thread /\ Peer \subseteq Thread
      /\ {"ready", "reply"} \cup Peer \subseteq Message
  BY DEF Thread, Message
<1>1. {"event_failed", "read_failed", "heartbeat_timeout", "peer_closed"}
        \subseteq CloseReasons \ DerivedReasons
  BY DEF CloseReasons, CountedReasons, DerivedReasons
<1>2. DerivedReasons = {"ready_queue_unavailable", "outbound_unavailable"} /\ DerivedReasons \subseteq CloseReasons
  BY DEF CloseReasons, CountedReasons, DerivedReasons
<1>3. CASE \E p \in Thread : CloseStep(p)
  BY <1>3, CloseEnterInv, CloseWaitInv, CloseFlagInv, CloseSocketInv, CloseCallbackInv,
     CloseAccountInv DEF CloseStep
<1>4. CASE StartWriter
  BY <1>4, StartWriterInv
<1>5. CASE SendReady
  <2>1. CASE Send(Handler, "ready", "setup", "readyRefused")
    BY <1>0, <1>5, <2>1, SendInv DEF SendReady
  <2>2. CASE \E l \in {"stopped", "readyRefused"} : CallClose(Handler, "event_failed", l)
    BY <1>0, <1>1, <1>5, <2>2, CallCloseInv DEF SendReady, HandlerPC
  <2> QED BY <1>5, <2>1, <2>2 DEF SendReady
<1>6. CASE ReadyRefused
  <2>1. once # "idle"
    BY <1>6 DEF ReadyRefused, ClientInv, CauseInv
  <2> QED BY <1>0, <1>2, <1>6, <2>1, CallCloseInv DEF ReadyRefused, HandlerPC
<1>7. CASE SetupRead
  <2>1. CASE Goto(Handler, "read") /\ UNCHANGED <<closing, sending, writing, call>>
    BY <1>0, <1>7, <2>1, GotoInv DEF SetupRead, HandlerPC
  <2>2. CASE CallClose(Handler, "read_failed", "stopped")
    BY <1>0, <1>1, <1>7, <2>2, CallCloseInv DEF SetupRead, HandlerPC
  <2> QED BY <1>7, <2>1, <2>2 DEF SetupRead
<1>8. CASE RefreshDeadline
  <2>1. CASE Goto(Handler, "reply") /\ UNCHANGED <<closing, sending, writing, call>>
    BY <1>0, <1>8, <2>1, GotoInv DEF RefreshDeadline, HandlerPC
  <2>2. CASE CallClose(Handler, "read_failed", "stopped")
    BY <1>0, <1>1, <1>8, <2>2, CallCloseInv DEF RefreshDeadline, HandlerPC
  <2> QED BY <1>8, <2>1, <2>2 DEF RefreshDeadline
<1>9. CASE SendReply
  <2>1. CASE Send(Handler, "reply", "read", "replyRefused")
    BY <1>0, <1>9, <2>1, SendInv DEF SendReply
  <2>2. CASE CallClose(Handler, "event_failed", "replyRefused")
    BY <1>0, <1>1, <1>9, <2>2, CallCloseInv DEF SendReply, HandlerPC
  <2> QED BY <1>9, <2>1, <2>2 DEF SendReply
<1>10. CASE ReplyRefused
  <2>1. once # "idle"
    BY <1>10 DEF ReplyRefused, ClientInv, CauseInv
  <2> QED BY <1>0, <1>2, <1>10, <2>1, CallCloseInv DEF ReplyRefused, HandlerPC
<1>11. CASE AwaitWriter
  BY <1>11, AwaitWriterInv
<1>12. CASE ReadFrame
  BY <1>0, <1>12, GotoInv DEF ReadFrame, HandlerPC
<1>13. CASE ReadFails
  BY <1>0, <1>1, <1>13, CallCloseInv DEF ReadFails, HandlerPC
<1>14. CASE Poll \/ SelectDone
  <2>1. /\ call[Writer] = NoCall /\ pc[Writer] \in {"poll", "select"}
        /\ UNCHANGED <<closing, sending, writing, call>>
    BY <1>14 DEF Poll, SelectDone
  <2>2. CASE closed
    <3>1. Goto(Writer, "exited")
      BY <1>14, <2>2 DEF Poll, SelectDone
    <3> QED BY <1>0, <2>1, <3>1, GotoInv
  <2>3. CASE ~ closed
    <3>1. Goto(Writer, "select")
      BY <1>14, <2>3 DEF Poll, SelectDone
    <3> QED BY <1>0, <2>1, <2>3, <3>1, GotoInv
  <2> QED BY <2>2, <2>3
<1>15. CASE SelectMessage \/ SelectPing \/ WriteSucceeds \/ WriteFails
  BY <1>15, SelectMessageInv, SelectPingInv, WriteSucceedsInv, WriteFailsInv
<1>16. CASE \E p \in Peer : PeerSend(p)
  BY <1>0, <1>16, SendInv DEF PeerSend
<1>17. CASE \E p \in Peer : PeerClose(p)
  BY <1>0, <1>1, <1>17, CallCloseInv DEF PeerClose
<1>18. CASE UNCHANGED vars
  BY <1>18 DEF vars, closing, sending, writing, ClientInv, TypeOK, Places, OnceInv, BodyDone,
     CauseInv, QuietInv, OrderInv, Held
<1> QED
  BY <1>3, <1>4, <1>5, <1>6, <1>7, <1>8, <1>9, <1>10, <1>11, <1>12, <1>13, <1>14, <1>15,
     <1>16, <1>17, <1>18 DEF Next, HandlerStep, WriterStep

--------------------------------------------------------------------------------
(* Theorems. *)

\* Client.Close, Send, Run and the two loops keep the whole invariant, however
\* their steps and those of any number of other goroutines interleave.
THEOREM ClientCorrect == Spec => []ClientInv
BY InitClientInv, NextClientInv, PTL DEF Spec

\* The session's state has its types: the queue never outgrows the channel, and
\* neither the gauge nor a counter is settled twice.
THEOREM ClientTypeCorrect == Spec => []TypeOK
<1>1. ClientInv => TypeOK
  BY DEF ClientInv
<1> QED BY <1>1, ClientCorrect, PTL

\* Client.Close cleans up exactly once, for any number of racing callers.
THEOREM CleanupHappensOnce == Spec => []CleanupOnce
<1>1. ClientInv => CleanupOnce
  BY DEF ClientInv, OnceInv, CleanupOnce
<1> QED BY <1>1, ClientCorrect, PTL

\* The reason Client.Close records is a cause and never the echo of a close.
THEOREM RootCauseAlwaysRecorded == Spec => []RootCauseRecorded
<1>1. ClientInv => RootCauseRecorded
  BY DEF ClientInv, CauseInv, RootCauseRecorded
<1> QED BY <1>1, ClientCorrect, PTL

\* Client.Run returns only when writer, socket and close have come to their end.
THEOREM ReturnedAlwaysQuiet == Spec => []ReturnedIsQuiet
<1>1. ClientInv => ReturnedIsQuiet
  BY DEF ClientInv, TypeOK, Places, OnceInv, QuietInv, ReturnedIsQuiet, At
<1> QED BY <1>1, ClientCorrect, PTL
--------------------------------------------------------------------------------
(* The session implements the outbox. *)

\* Accepting a message is an Accept: those accepted and not yet written are in the
\* queue or in the writer's hands, or were lost by the one write that failed.
LEMMA SendAcceptsIsAccept ==
    ASSUME ClientInv, NEW p, NEW m \in Message, NEW l, SendAccepts(p, m, l)
    PROVE  AbstractOutbox!Accept(m)
<1>1. Len(accepted) - Len(sent) < QueueCapacity + 1
  <2>1. /\ Len(accepted) \in Nat /\ Len(sent) \in Nat /\ Len(queue) \in Nat
        /\ Len(accepted) <= Len(sent) + Len(queue) + 1
    BY DEF ClientInv, TypeOK, OrderInv
  <2>2. Len(queue) < QueueCapacity
    BY DEF SendAccepts
  <2> QED BY <2>1, <2>2
<1>2. ~ closed /\ accepted' = Append(accepted, m) /\ UNCHANGED <<sent, closed, late>>
  BY DEF SendAccepts, closing, writing
<1> QED BY <1>1, <1>2 DEF AbstractOutbox!Accept

\* Writing a message is a Write: the message in hand is the oldest that is not
\* written, and a write after the close is the first such.
LEMMA WriteIsWrite ==
    ASSUME ClientInv, WriteSucceeds
    PROVE  AbstractOutbox!Write \/ UNCHANGED <<accepted, sent, closed, late>>
<1>1. CASE inflight = Ping
  BY <1>1 DEF WriteSucceeds, closing, sending
<1>2. CASE inflight # Ping
  <2>1. Held = 1 /\ pc[Writer] = "write"
    BY <1>2 DEF WriteSucceeds, At, ClientInv, TypeOK, Places, Held
  <2>2. inflight = accepted[Len(sent) + 1] /\ Len(accepted) = Len(sent) + 1 + Len(queue) /\ late = 0
    BY <2>1 DEF ClientInv, OrderInv, TypeOK
  <2>3. Len(sent) < Len(accepted)
    BY <2>2 DEF ClientInv, TypeOK
  <2>4. /\ sent' = Append(sent, accepted[Len(sent) + 1])
        /\ late' = IF closed THEN 1 ELSE 0
        /\ UNCHANGED <<accepted, closed>>
    BY <1>2, <2>2 DEF WriteSucceeds, closing, sending
  <2>5. \/ ~ closed /\ late' = late
        \/ closed /\ late = 0 /\ late' = 1
    BY <2>2, <2>4
  <2> QED BY <2>2, <2>3, <2>4, <2>5 DEF AbstractOutbox!Write
<1> QED BY <1>1, <1>2

\* CloseFlag is what shuts the outbox; every other step leaves it alone.
LEMMA StepImplementsOutbox ==
    ASSUME ClientInv, [Next]_vars
    PROVE  [AbstractOutbox!OutboxNext]_(AbstractOutbox!outboxVars)
<1> DEFINE Invisible == UNCHANGED <<accepted, sent, closed, late>>
<1>0. Invisible => UNCHANGED AbstractOutbox!outboxVars
  BY DEF AbstractOutbox!outboxVars
<1> HIDE DEF Invisible
<1>1. ASSUME NEW p \in Thread, CloseFlag(p) PROVE AbstractOutbox!Shut
  <2>1. ~ closed
    BY <1>1 DEF CloseFlag, InClose, ClientInv, OnceInv, BodyDone
  <2> QED BY <1>1, <2>1 DEF CloseFlag, sending, writing, AbstractOutbox!Shut
<1>2. ASSUME NEW p \in Thread, CloseStep(p), ~ CloseFlag(p) PROVE Invisible
  BY <1>2 DEF CloseStep, CloseEnter, CloseWait, CloseSocket, CloseCallback, CloseAccount,
     closing, sending, writing, Invisible
<1>3. ASSUME NEW p, NEW r, NEW l, CallClose(p, r, l) PROVE Invisible
  BY <1>3 DEF CallClose, closing, sending, writing, Invisible
<1>4. ASSUME NEW p, NEW m \in Message, NEW ok, NEW refused, Send(p, m, ok, refused)
      PROVE  AbstractOutbox!Accept(m) \/ Invisible
  BY <1>3, <1>4, SendAcceptsIsAccept
     DEF Send, SendRefuses, SendOverflows, closing, sending, writing, Invisible
<1>5. CASE HandlerStep \/ ReadFrame \/ ReadFails
  <2>1. "ready" \in Message /\ "reply" \in Message
    BY DEF Message
  <2>2. CASE SendReady
    BY <1>0, <1>3, <1>4, <2>1, <2>2 DEF SendReady, AbstractOutbox!OutboxNext
  <2>3. CASE SendReply
    BY <1>0, <1>3, <1>4, <2>1, <2>3 DEF SendReply, AbstractOutbox!OutboxNext
  <2>4. CASE ReadyRefused \/ ReplyRefused \/ ReadFails
    BY <1>0, <1>3, <2>4 DEF ReadyRefused, ReplyRefused, ReadFails
  <2>5. CASE SetupRead \/ RefreshDeadline
    BY <1>0, <1>3, <2>5 DEF SetupRead, RefreshDeadline, closing, sending, writing, Invisible
  <2>6. CASE StartWriter \/ AwaitWriter \/ ReadFrame
    BY <1>0, <2>6 DEF StartWriter, AwaitWriter, ReadFrame, closing, sending, writing, Invisible
  <2> QED BY <1>5, <2>2, <2>3, <2>4, <2>5, <2>6 DEF HandlerStep
<1>6. CASE WriterStep
  <2>1. CASE WriteSucceeds
    BY <1>0, <2>1, WriteIsWrite DEF Invisible, AbstractOutbox!OutboxNext
  <2>2. CASE ~ WriteSucceeds
    BY <1>0, <1>6, <2>2 DEF WriterStep, Poll, SelectDone, SelectMessage, SelectPing, WriteFails,
       closing, sending, writing, Invisible
  <2> QED BY <2>1, <2>2
<1>7. CASE \E p \in Peer : PeerSend(p) \/ PeerClose(p)
  BY <1>0, <1>3, <1>4, <1>7 DEF PeerSend, PeerClose, Message, AbstractOutbox!OutboxNext
<1>8. CASE UNCHANGED vars
  BY <1>0, <1>8 DEF vars, closing, sending, writing, Invisible
<1>9. CASE \E p \in Thread : CloseStep(p)
  BY <1>0, <1>1, <1>2, <1>9 DEF AbstractOutbox!OutboxNext
<1> QED BY <1>5, <1>6, <1>7, <1>8, <1>9 DEF Next

\* A session with its goroutines, locks and socket is, to those who send to it, a
\* bounded outbox that delivers in order and writes at most once after the close.
THEOREM SessionImplementsOutbox == Spec => ImplementsOutbox
<1>1. Init => AbstractOutbox!OutboxInit
  BY DEF Init, AbstractOutbox!OutboxInit
<1>2. ClientInv /\ [Next]_vars => [AbstractOutbox!OutboxNext]_(AbstractOutbox!outboxVars)
  BY StepImplementsOutbox
<1> QED
  BY <1>1, <1>2, ClientCorrect, PTL DEF Spec, ImplementsOutbox, AbstractOutbox!OutboxSpec
================================================================================

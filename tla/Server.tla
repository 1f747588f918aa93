--------------------------------- MODULE Server --------------------------------
(******************************************************************************)
(* The server process around the hub: admission of upgrade requests, and the  *)
(* shutdown that withdraws readiness, announces the drain, closes the         *)
(* sessions and stops the HTTP server.                                        *)
(*                                                                            *)
(* It composes Hub: a request that gets through ServeHTTP registers the       *)
(* session of the same name, and from then on the session takes Hub's steps.  *)
(* Two goroutines may run CloseAll: the shutdown goroutine and, when the HTTP *)
(* server fails, the one that called Serve.                                   *)
(******************************************************************************)
EXTENDS Hub

CONSTANT MaxConnections   \* the connection limits a server may be configured with
ASSUME MaxConnectionsAssumption == MaxConnections \subseteq Nat \ {0}

VARIABLES
    request,    \* progress of ServeHTTP for the connection
    slots,      \* len(h.admission)
    capacity,   \* cap(h.admission), fixed by the configuration
    ready,      \* Health.ready
    listening,  \* the HTTP server accepts connections
    forced,     \* httpServer.Close has been called
    cancelled,  \* runCtx is done
    main,       \* the goroutine in Serve
    shutdown,   \* the shutdown goroutine
    pending,    \* what is left of each CloseAll / BroadcastDraining snapshot
    target,     \* the session whose Close each of them is waiting for, or None
    late        \* history: sessions registered after the last CloseAll snapshot

admission == <<request, slots, capacity>>
process == <<capacity, ready, listening, forced, cancelled, main, shutdown>>
sweep == <<pending, target>>
serverVars == <<vars, admission, process, sweep, late>>

Sweeper == {"main", "shutdown"}

\* Serve has subscribed to the broker and set readiness.
ServerInit ==
    /\ Init
    /\ request = [c \in Conn |-> "none"] /\ slots = 0 /\ capacity \in MaxConnections
    /\ ready = TRUE /\ listening = TRUE /\ forced = FALSE /\ cancelled = FALSE
    /\ main = "serving" /\ shutdown = "waiting"
    /\ pending = [g \in Sweeper |-> {}] /\ target = [g \in Sweeper |-> None]
    /\ late = {}

--------------------------------------------------------------------------------
(******************************************************************************)
(* webSocketHandler.ServeHTTP.                                                *)
(******************************************************************************)

Request(c, from, to) == request[c] = from /\ request' = [request EXCEPT ![c] = to]

\* Health.Ready() can be true only while the flag is; the broker's own answer,
\* which may be no at any time, is left to Reject.
HealthReady == ready

\* The handler has seen the server ready and validates the request.
PassReady(c) ==
    /\ listening /\ HealthReady
    /\ Request(c, "none", "checked")
    /\ UNCHANGED <<vars, slots, process, sweep, late>>

\* Not ready (withdrawn, or the broker is not), no upgrade, origin or
\* authentication refused.
Reject(c) ==
    /\ \/ listening /\ Request(c, "none", "rejected")
       \/ Request(c, "checked", "rejected")
    /\ UNCHANGED <<vars, slots, process, sweep, late>>

\* A place in the admission channel, or the connection limit.
Admit(c) ==
    /\ \/ slots < capacity /\ Request(c, "checked", "admitted") /\ slots' = slots + 1
       \/ slots = capacity /\ Request(c, "checked", "rejected") /\ UNCHANGED slots
    /\ UNCHANGED <<vars, process, sweep, late>>

\* Upgrade hijacks the connection, which a closed HTTP server refuses.
Upgrade(c) ==
    /\ ~ forced
    /\ Request(c, "admitted", "upgraded")
    /\ UNCHANGED <<vars, slots, process, sweep, late>>

\* Upgrade or newConnectionID fails; the deferred receive frees the place.
UpgradeFails(c) ==
    /\ \/ Request(c, "admitted", "rejected")
       \/ Request(c, "upgraded", "rejected")
    /\ slots' = slots - 1
    /\ UNCHANGED <<vars, process, sweep, late>>

\* Handle: NewClient and Register.
Handle(c) ==
    /\ Request(c, "upgraded", "handling")
    /\ Register(c)
    /\ late' = late \cup {c}
    /\ UNCHANGED <<slots, process, sweep>>

\* Mutant of Release: the place is given back as soon as the session is closing.
ReleaseEarly(c) ==
    /\ session[c] # "open"
    /\ Request(c, "handling", "released")
    /\ slots' = slots - 1
    /\ UNCHANGED <<vars, process, sweep, late>>

\* Mutant of Release: ServeHTTP returns, but the deferred receive is missing.
ReleaseForgotten(c) ==
    /\ handler[c] = "exited"
    /\ Request(c, "handling", "released")
    /\ UNCHANGED <<vars, slots, process, sweep, late>>

\* Run has returned, and with it Handle and ServeHTTP.
Release(c) ==
    /\ handler[c] = "exited"
    /\ Request(c, "handling", "released")
    /\ slots' = slots - 1
    /\ UNCHANGED <<vars, process, sweep, late>>

--------------------------------------------------------------------------------
(******************************************************************************)
(* Hub.CloseAll and Hub.BroadcastDraining, run by goroutine g.                *)
(******************************************************************************)

Registered == {clients[u] : u \in User} \ {None}
Done(g) == pending[g] = {} /\ target[g] = None

\* Snapshot for a CloseAll: whoever registers from now on is late.
SnapshotToClose(g) ==
    /\ pending' = [pending EXCEPT ![g] = Registered]
    /\ late' = {}
    /\ UNCHANGED target

Sweeping(g) == IF g = "main" THEN main = "closing" ELSE shutdown = "closing"

\* client.Close on the next session of the snapshot.
CloseNext(g) ==
    /\ Sweeping(g)
    /\ target[g] = None
    /\ \E c \in pending[g] :
         /\ pending' = [pending EXCEPT ![g] = @ \ {c}]
         /\ target' = [target EXCEPT ![g] = c]
         /\ session' = IF session[c] = "open"
                       THEN [session EXCEPT ![c] = "closing"] ELSE session
    /\ UNCHANGED <<clients, rooms, clientRooms, handler, replaced, command>>
    /\ UNCHANGED <<admission, process, late>>

\* Close returns when the once body is done.
CloseReturns(g) ==
    /\ target[g] # None
    /\ session[target[g]] = "closed"
    /\ target' = [target EXCEPT ![g] = None]
    /\ UNCHANGED <<vars, admission, process, pending, late>>

\* server.draining is offered to the next session of the snapshot: accepted,
\* refused by a closed session, or the last straw for a full queue.
Notify ==
    /\ shutdown = "notifying"
    /\ target["shutdown"] = None
    /\ \E c \in pending["shutdown"] :
         /\ pending' = [pending EXCEPT !["shutdown"] = @ \ {c}]
         /\ \/ /\ session[c] = "open"
               /\ session' = [session EXCEPT ![c] = "closing"]
               /\ target' = [target EXCEPT !["shutdown"] = c]
            \/ UNCHANGED <<session, target>>
    /\ UNCHANGED <<clients, rooms, clientRooms, handler, replaced, command>>
    /\ UNCHANGED <<admission, process, late>>

--------------------------------------------------------------------------------
(******************************************************************************)
(* Server.Serve.                                                              *)
(******************************************************************************)

\* The process is asked to stop.
Cancel ==
    /\ ~ cancelled
    /\ cancelled' = TRUE
    /\ UNCHANGED <<vars, admission, ready, listening, forced, main, shutdown, sweep, late>>

\* <-runCtx.Done(); SetReady(false).
WithdrawReady ==
    /\ shutdown = "waiting" /\ cancelled
    /\ ready' = FALSE
    /\ shutdown' = "withdrawn"
    /\ UNCHANGED <<vars, admission, listening, forced, cancelled, main, sweep, late>>

\* BroadcastDraining takes its snapshot; a failed event id skips the notice.
StartNotice ==
    /\ shutdown = "withdrawn"
    /\ \/ shutdown' = "notifying" /\ pending' = [pending EXCEPT !["shutdown"] = Registered]
       \/ shutdown' = "draining" /\ UNCHANGED pending
    /\ UNCHANGED <<vars, admission, ready, listening, forced, cancelled, main, target, late>>

\* The drain period starts.
EndNotice ==
    /\ shutdown = "notifying" /\ Done("shutdown")
    /\ shutdown' = "draining"
    /\ UNCHANGED <<vars, admission, ready, listening, forced, cancelled, main, sweep, late>>

\* The drain period is over: CloseAll("server_shutdown").
EndDrain ==
    /\ shutdown = "draining"
    /\ shutdown' = "closing"
    /\ SnapshotToClose("shutdown")
    /\ UNCHANGED <<vars, admission, ready, listening, forced, cancelled, main>>

\* Mutant of StartHttpShutdown: CloseAll is not waited for.
StartHttpShutdownEarly ==
    /\ shutdown = "closing"
    /\ shutdown' = "http"
    /\ listening' = FALSE
    /\ UNCHANGED <<vars, admission, ready, forced, cancelled, main, sweep, late>>

\* httpServer.Shutdown closes the listener and waits.
StartHttpShutdown ==
    /\ shutdown = "closing" /\ Done("shutdown")
    /\ shutdown' = "http"
    /\ listening' = FALSE
    /\ UNCHANGED <<vars, admission, ready, forced, cancelled, main, sweep, late>>

\* A request whose connection is not hijacked yet keeps Shutdown waiting.
Unhijacked == {c \in Conn : request[c] \in {"checked", "admitted"}}

\* Shutdown returns, or its context expires and httpServer.Close follows.
EndHttpShutdown ==
    /\ shutdown = "http"
    /\ \/ Unhijacked = {} /\ UNCHANGED forced
       \/ forced' = TRUE
    /\ shutdown' = "done"
    /\ UNCHANGED <<vars, admission, ready, listening, cancelled, main, sweep, late>>

\* httpServer.Serve returns ErrServerClosed once Shutdown has begun.
ServeReturns ==
    /\ main = "serving" /\ shutdown \in {"http", "done"}
    /\ main' = "joining"
    /\ UNCHANGED <<vars, admission, ready, listening, forced, cancelled, shutdown, sweep, late>>

\* httpServer.Serve fails: readiness is withdrawn.
ServeFails ==
    /\ main = "serving" /\ listening
    /\ ready' = FALSE /\ listening' = FALSE
    /\ main' = "failed"
    /\ UNCHANGED <<vars, admission, forced, cancelled, shutdown, sweep, late>>

\* CloseAll("server_failure").
StartFailureSweep ==
    /\ main = "failed"
    /\ main' = "closing"
    /\ SnapshotToClose("main")
    /\ UNCHANGED <<vars, admission, ready, listening, forced, cancelled, shutdown>>

\* Mutant of CancelRun: the shutdown goroutine is joined but never released.
JoinWithoutCancel ==
    /\ main = "closing" /\ Done("main")
    /\ main' = "joining"
    /\ UNCHANGED <<vars, admission, ready, listening, forced, cancelled, shutdown, sweep, late>>

\* cancelRun() releases the shutdown goroutine.
CancelRun ==
    /\ main = "closing" /\ Done("main")
    /\ cancelled' = TRUE
    /\ main' = "joining"
    /\ UNCHANGED <<vars, admission, ready, listening, forced, shutdown, sweep, late>>

\* <-shutdownDone, and Serve returns.
Stop ==
    /\ main = "joining" /\ shutdown = "done"
    /\ main' = "stopped"
    /\ UNCHANGED <<vars, admission, ready, listening, forced, cancelled, shutdown, sweep, late>>

--------------------------------------------------------------------------------
ServeHTTP(c) ==
    \/ PassReady(c) \/ Reject(c) \/ Admit(c) \/ Upgrade(c) \/ UpgradeFails(c)
    \/ Handle(c) \/ Release(c)

\* A step of a registered session.
InHub(A) == A /\ UNCHANGED <<admission, process, sweep, late>>

Sweep(g) == CloseNext(g) \/ CloseReturns(g)

ShutdownStep ==
    \/ WithdrawReady \/ StartNotice \/ Notify \/ EndNotice \/ EndDrain
    \/ StartHttpShutdown \/ EndHttpShutdown

MainStep == ServeReturns \/ StartFailureSweep \/ CancelRun \/ Stop

\* Serve has returned and no request is in progress.
Stopped ==
    /\ main = "stopped"
    /\ \A c \in Conn : request[c] \in {"none", "rejected", "released"}
    /\ UNCHANGED serverVars

ServerNext ==
    \/ \E c \in Conn : ServeHTTP(c) \/ InHub(SessionStep(c))
    \/ \E g \in Sweeper : Sweep(g)
    \/ ShutdownStep
    \/ MainStep
    \/ Cancel
    \/ ServeFails
    \/ Stopped

ServerSpec == ServerInit /\ [][ServerNext]_serverVars

\* Goroutines that can run do.  Peers need not connect, send or leave, and
\* nothing needs to stop the server.
ServerFairness ==
    /\ \A c \in Conn :
         /\ WF_serverVars(InHub(HandlerStep(c) \/ ReadOnClosedSocket(c)) \/ Release(c))
         /\ WF_serverVars(InHub(Unregister(c)))
    /\ \A g \in Sweeper : WF_serverVars(Sweep(g))
    /\ WF_serverVars(ShutdownStep)
    /\ WF_serverVars(MainStep)

FairServerSpec == ServerSpec /\ ServerFairness

--------------------------------------------------------------------------------
(* Properties. *)

\* Types of the server's own state.
ServerTypeOK ==
    /\ request \in [Conn -> {"none", "checked", "admitted", "upgraded", "handling",
                             "released", "rejected"}]
    /\ slots \in 0..capacity /\ capacity \in MaxConnections
    /\ {ready, listening, forced, cancelled} \subseteq BOOLEAN
    /\ main \in {"serving", "failed", "closing", "joining", "stopped"}
    /\ shutdown \in {"waiting", "withdrawn", "notifying", "draining", "closing",
                     "http", "done"}
    /\ pending \in [Sweeper -> SUBSET Conn]
    /\ target \in [Sweeper -> Conn \cup {None}]
    /\ late \subseteq Conn

\* The requests between their send to the admission channel and the receive.
Admitted == {c \in Conn : request[c] \in {"admitted", "upgraded", "handling"}}

\* Sessions that still hold resources never outnumber the admission places in
\* use, nor those the limit, and no place is in use without a request that will
\* give it back, through failed upgrades, replacement and concurrent shutdown.
AdmissionBound ==
    /\ Cardinality({c \in Conn : handler[c] \notin {"idle", "exited"}}) <= slots
    /\ slots = Cardinality(Admitted)
    /\ slots <= capacity

\* When Serve returns, a session is still open only if it registered after the
\* last snapshot of CloseAll, or if the handler that displaced it is about to
\* close it: CloseAll misses nothing the registry held.
StopLeavesOnlyLateSessions ==
    main = "stopped" =>
        \A c \in Conn : session[c] = "open" =>
            c \in late \/ \E d \in Conn : handler[d] = "replacing" /\ replaced[d] = c

\* Serve returns after the process is asked to stop, and after the HTTP server
\* fails, whatever the sessions are doing.
ServeTerminates == cancelled \/ main = "failed" ~> main = "stopped"

\* The place of a session that is closed by anybody is given back: in the end
\* other requests account for every place that is still in use.
PlaceIsReleased ==
    \A c \in Conn : session[c] = "closing" ~> slots <= Cardinality(Admitted \ {c})

--------------------------------------------------------------------------------
(* What the documentation says and the code does not guarantee. *)

\* "Any sessions that did not disconnect during the drain period are
\* force-closed": none is open when Serve returns.
NoSessionOutlivesShutdown ==
    main = "stopped" => \A c \in Conn : session[c] # "open"
================================================================================

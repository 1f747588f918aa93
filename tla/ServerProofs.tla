------------------------------ MODULE ServerProofs -----------------------------
(******************************************************************************)
(* Proofs about Server, for any number of connections, users and rooms and    *)
(* any connection limit.                                                      *)
(*                                                                            *)
(* Every step of the server is, for the hub, one of its own steps or none, so *)
(* everything HubProofs shows holds of the server's hub too.  On top of that  *)
(* two invariants are kept: the admission places in use are those of the      *)
(* requests that are past admission, and from the first CloseAll on every     *)
(* open session is late, about to be replaced, or still to be closed by it.   *)
(******************************************************************************)
EXTENDS Server, HubProofs

--------------------------------------------------------------------------------
(* The inductive invariant. *)

\* The places in use are those of the admitted requests; a session that has a
\* handler belongs to one of them until the handler is gone.
AdmissionInv ==
    /\ IsFiniteSet(Admitted) /\ Cardinality(Admitted) = slots
    /\ \A c \in Conn :
         /\ handler[c] # "idle" => request[c] \in {"handling", "released"}
         /\ request[c] = "released" => handler[c] = "exited"

\* CloseAll has taken a snapshot.
Swept == main \in {"closing", "joining", "stopped"} \/ shutdown \in {"closing", "http", "done"}

\* The handler that displaced c has not finished closing it.
BeingReplaced(c) == \E d \in Conn : handler[d] = "replacing" /\ replaced[d] = c

\* What CloseAll has not closed it will close, or does not know of.
SweepInv ==
    /\ Swept => \A c \in Conn : session[c] = "open" =>
         \/ c \in late \/ BeingReplaced(c)
         \/ \E g \in Sweeper : Sweeping(g) /\ c \in pending[g]
    /\ main = "stopped" => shutdown = "done"

ServerInv == HubInv /\ ServerTypeOK /\ AdmissionInv /\ SweepInv

--------------------------------------------------------------------------------
(* Every step of the server is a step of the hub. *)

USE UserOfAssumption, NoneAssumption, MaxConnectionsAssumption

\* CloseAll closes a session as any other goroutine does, or finds it closed;
\* BroadcastDraining closes it as a sender does that found its queue full.
LEMMA SweepIsHubStep ==
    ASSUME ServerTypeOK, NEW g \in Sweeper, CloseNext(g) \/ Notify
    PROVE  [Next]_vars
<1>1. PICK c \in Conn :
        \/ session[c] = "open" /\ session' = [session EXCEPT ![c] = "closing"]
        \/ UNCHANGED session
  <2>1. pending[g] \subseteq Conn /\ pending["shutdown"] \subseteq Conn
    BY DEF ServerTypeOK, Sweeper
  <2>2. CASE CloseNext(g)
    BY <2>1, <2>2 DEF CloseNext
  <2>3. CASE Notify
    BY <2>1, <2>3 DEF Notify
  <2> QED BY <2>2, <2>3
<1>2. UNCHANGED <<clients, rooms, clientRooms, handler, replaced, command>>
  BY DEF CloseNext, Notify
<1> QED BY <1>1, <1>2 DEF Next, SessionStep, Abort, vars

\* A request's own steps leave the hub alone, but for Handle, which registers.
LEMMA RequestIsHubStep ==
    ASSUME NEW c \in Conn, ServeHTTP(c)
    PROVE  Register(c) \/ UNCHANGED vars
BY DEF ServeHTTP, PassReady, Reject, Admit, Upgrade, UpgradeFails, Handle, Release

\* So do the steps of Serve and of the shutdown goroutine but for their sweeps.
LEMMA ProcessIsHubStep ==
    ASSUME \/ ShutdownStep /\ ~ Notify
           \/ MainStep \/ Cancel \/ ServeFails \/ Stopped
           \/ \E g \in Sweeper : CloseReturns(g)
    PROVE  UNCHANGED vars
BY DEF ShutdownStep, WithdrawReady, StartNotice, EndNotice, EndDrain, StartHttpShutdown,
       EndHttpShutdown, MainStep, ServeReturns, StartFailureSweep, CancelRun, Stop, Cancel,
       ServeFails, Stopped, serverVars, CloseReturns

\* Whatever the server does, its hub takes one of its own steps or none.
LEMMA ServerStepIsHubStep ==
    ASSUME ServerTypeOK, [ServerNext]_serverVars
    PROVE  [Next]_vars
<1>1. CASE \E c \in Conn : ServeHTTP(c) \/ InHub(SessionStep(c))
  BY <1>1, RequestIsHubStep DEF InHub, Next
<1>2. CASE \E g \in Sweeper : Sweep(g)
  BY <1>2, SweepIsHubStep, ProcessIsHubStep DEF Sweep
<1>3. CASE ShutdownStep
  BY <1>3, SweepIsHubStep, ProcessIsHubStep DEF Sweeper
<1>4. CASE MainStep \/ Cancel \/ ServeFails \/ Stopped
  BY <1>4, ProcessIsHubStep
<1>5. CASE UNCHANGED serverVars
  BY <1>5 DEF serverVars
<1> QED BY <1>1, <1>2, <1>3, <1>4, <1>5 DEF ServerNext

\* What no step of the hub does: bring a handler back, open a session that was
\* registered before, or forget that a session that stays open is replaced.
LEMMA HubStepKeeps ==
    ASSUME HubInv, NEW c \in Conn, SessionStep(c), NEW d \in Conn
    PROVE  /\ handler'[d] = "idle" <=> handler[d] = "idle"
           /\ handler[d] = "exited" => handler'[d] = "exited"
           /\ session'[d] = "open" => session[d] = "open"
           /\ session'[d] = "open" /\ BeingReplaced(d) => BeingReplaced(d)'
<1> USE DEF HubInv, TypeOK
<1>1. CASE CloseReplaced(c) \/ CloseSelf(c) \/ Abort(c)
  BY <1>1 DEF CloseReplaced, CloseSelf, Abort, BeingReplaced
<1>2. CASE ReplacedClosed(c)
  BY <1>2 DEF ReplacedClosed, BeingReplaced
<1>3. CASE StartRun(c) \/ Reply(c) \/ Exit(c) \/ ReadOther(c) \/ ReadFail(c)
  BY <1>3 DEF StartRun, Reply, Enqueue, Exit, ReadOther, ReadFail, ReadFrame, BeingReplaced
<1>4. CASE \E cmd \in Command : ReadCommand(c, cmd)
  BY <1>4 DEF ReadCommand, ReadFrame, BeingReplaced
<1>5. CASE Join(c) \/ Leave(c)
  BY <1>5 DEF Join, Leave, Executed, BeingReplaced
<1>6. CASE Unregister(c)
  BY <1>6 DEF Unregister, BeingReplaced
<1> QED BY <1>1, <1>2, <1>3, <1>4, <1>5, <1>6 DEF SessionStep, HandlerStep
--------------------------------------------------------------------------------
(* Admission. *)

\* A step of a request moves it, and takes or gives back a place when it enters
\* or leaves the admitted requests.
LEMMA RequestAdmission ==
    ASSUME ServerInv, NEW c \in Conn, ServeHTTP(c)
    PROVE  ServerTypeOK' /\ AdmissionInv'
<1> USE DEF ServerInv
<1>0. /\ slots \in Nat /\ capacity \in Nat /\ slots <= capacity
      /\ IsFiniteSet(Admitted) /\ Cardinality(Admitted) = slots
  <2>1. capacity \in Nat /\ slots \in 0..capacity
    BY DEF ServerTypeOK
  <2>2. IsFiniteSet(Admitted) /\ Cardinality(Admitted) = slots
    BY DEF AdmissionInv
  <2> QED BY <2>1, <2>2
<1>1. PICK to \in {"checked", "admitted", "upgraded", "handling", "released", "rejected"} :
        request' = [request EXCEPT ![c] = to]
  BY DEF ServeHTTP, PassReady, Reject, Admit, Upgrade, UpgradeFails, Handle, Release, Request
<1>2. /\ UNCHANGED <<process, sweep>>
      /\ late' \subseteq Conn
  BY DEF ServeHTTP, PassReady, Reject, Admit, Upgrade, UpgradeFails, Handle, Release, ServerTypeOK
<1>3. \/ c \notin Admitted /\ to = "admitted" /\ slots < capacity /\ slots' = slots + 1
      \/ /\ c \in Admitted /\ to \notin {"admitted", "upgraded", "handling"}
         /\ slots' = slots - 1
      \/ /\ c \in Admitted <=> to \in {"admitted", "upgraded", "handling"}
         /\ slots' = slots
  <2>1. CASE Admit(c)
    BY <1>1, <2>1 DEF Admit, Request, Admitted, ServerTypeOK
  <2>2. CASE UpgradeFails(c) \/ Release(c)
    BY <1>1, <2>2 DEF UpgradeFails, Release, Request, Admitted, ServerTypeOK
  <2>3. CASE PassReady(c) \/ Reject(c) \/ Upgrade(c) \/ Handle(c)
    BY <1>1, <2>3 DEF PassReady, Reject, Upgrade, Handle, Request, Admitted, ServerTypeOK
  <2> QED BY <2>1, <2>2, <2>3 DEF ServeHTTP
<1>4. Admitted' = IF to \in {"admitted", "upgraded", "handling"}
                  THEN Admitted \cup {c} ELSE Admitted \ {c}
  BY <1>1 DEF Admitted, ServerTypeOK
<1>5. IsFiniteSet(Admitted') /\ Cardinality(Admitted') = slots'
  <2>1. CASE c \notin Admitted /\ to = "admitted" /\ slots' = slots + 1
    BY <1>0, <1>4, <2>1, FS_AddElement
  <2>2. CASE c \in Admitted /\ to \notin {"admitted", "upgraded", "handling"} /\ slots' = slots - 1
    BY <1>0, <1>4, <2>2, FS_RemoveElement
  <2>3. CASE (c \in Admitted <=> to \in {"admitted", "upgraded", "handling"}) /\ slots' = slots
    <3>1. Admitted' = Admitted
      BY <1>4, <2>3
    <3> QED BY <1>0, <2>3, <3>1
  <2> QED BY <1>3, <2>1, <2>2, <2>3
<1>6. slots' \in 0..capacity
  <2>1. slots' \in Nat
    BY <1>5, FS_CardinalityType
  <2> QED BY <1>0, <1>3, <2>1
<1>7. ServerTypeOK'
  BY <1>1, <1>2, <1>6 DEF ServerTypeOK, process, sweep
<1>8. ASSUME NEW d \in Conn
      PROVE  /\ handler'[d] # "idle" => request'[d] \in {"handling", "released"}
             /\ request'[d] = "released" => handler'[d] = "exited"
  <2>1. CASE Handle(c)
    BY <2>1 DEF Handle, Request, Register, AdmissionInv, ServerTypeOK, HubInv, TypeOK
  <2>2. CASE Release(c)
    BY <2>2 DEF Release, Request, vars, AdmissionInv, ServerTypeOK
  <2>3. CASE PassReady(c) \/ Reject(c) \/ Admit(c) \/ Upgrade(c) \/ UpgradeFails(c)
    <3>1. UNCHANGED handler /\ request[c] \in {"none", "checked", "admitted", "upgraded"}
      BY <2>3 DEF PassReady, Reject, Admit, Upgrade, UpgradeFails, Request, vars
    <3>2. to # "released"
      BY <1>1, <2>3 DEF PassReady, Reject, Admit, Upgrade, UpgradeFails, Request, ServerTypeOK
    <3> QED BY <1>1, <3>1, <3>2 DEF AdmissionInv, ServerTypeOK
  <2> QED BY <2>1, <2>2, <2>3 DEF ServeHTTP
<1> QED BY <1>5, <1>7, <1>8 DEF AdmissionInv

\* Every other step leaves requests and places alone, and brings no handler back.
LEMMA OtherAdmission ==
    ASSUME ServerInv, UNCHANGED admission,
           \/ UNCHANGED handler
           \/ \E c \in Conn : SessionStep(c)
    PROVE  AdmissionInv'
<1>1. Admitted' = Admitted
  BY DEF admission, Admitted
<1>2. \A d \in Conn : /\ handler'[d] = "idle" <=> handler[d] = "idle"
                      /\ handler[d] = "exited" => handler'[d] = "exited"
  BY HubStepKeeps DEF ServerInv
<1> QED BY <1>1, <1>2 DEF ServerInv, AdmissionInv, admission
--------------------------------------------------------------------------------
(* Sweeps. *)

\* The registry's sessions are sessions.
LEMMA RegisteredTyped == HubInv => Registered \subseteq Conn
BY DEF HubInv, TypeOK, Registered

\* A snapshot of the registry has every open session but those being replaced.
LEMMA SnapshotSeesAll ==
    ASSUME HubInv, NEW c \in Conn, session[c] = "open"
    PROVE  c \in Registered \/ BeingReplaced(c)
<1>1. CASE clients[UserOf[c]] = c
  BY <1>1 DEF Registered
<1>2. CASE clients[UserOf[c]] # c
  BY <1>2 DEF HubInv, OrphanHasCloser, BeingReplaced
<1> QED BY <1>1, <1>2

\* Serve and the shutdown goroutine keep their types.
LEMMA ProcessTyped ==
    ASSUME ServerInv,
           \/ ShutdownStep \/ MainStep \/ Cancel \/ ServeFails \/ Stopped
           \/ \E g \in Sweeper : Sweep(g)
           \/ UNCHANGED <<admission, process, sweep, late>>
    PROVE  ServerTypeOK' /\ UNCHANGED admission
<1> USE DEF ServerInv, ServerTypeOK, admission, process, sweep, Sweeper
<1>0. Registered \subseteq Conn
  BY RegisteredTyped
<1>1. CASE StartNotice \/ EndDrain \/ StartFailureSweep
  BY <1>0, <1>1 DEF StartNotice, EndDrain, StartFailureSweep, SnapshotToClose
<1>2. CASE Notify
  BY <1>2 DEF Notify
<1>3. CASE \E g \in Sweeper : Sweep(g)
  BY <1>3 DEF Sweep, CloseNext, CloseReturns
<1>4. CASE WithdrawReady \/ EndNotice \/ StartHttpShutdown \/ EndHttpShutdown
  BY <1>4 DEF WithdrawReady, EndNotice, StartHttpShutdown, EndHttpShutdown
<1>5. CASE ServeReturns \/ CancelRun \/ Stop \/ Cancel \/ ServeFails
  BY <1>5 DEF ServeReturns, CancelRun, Stop, Cancel, ServeFails
<1>6. CASE Stopped \/ UNCHANGED <<admission, process, sweep, late>>
  BY <1>6 DEF Stopped, serverVars
<1> QED BY <1>1, <1>2, <1>3, <1>4, <1>5, <1>6 DEF ShutdownStep, MainStep

\* Sessions come and go while nobody sweeps any further: a new one is late.
LEMMA SessionsKeepSweepInv ==
    ASSUME ServerInv, UNCHANGED <<process, sweep>>,
           \/ \E c \in Conn : ServeHTTP(c)
           \/ \E c \in Conn : InHub(SessionStep(c))
           \/ UNCHANGED <<vars, late>>
    PROVE  SweepInv'
<1>0. UNCHANGED <<main, shutdown, pending>>
  BY DEF process, sweep
<1> DEFINE Kept(d) == session[d] = "open" /\ (BeingReplaced(d) => BeingReplaced(d)')
<1>1. ASSUME NEW d \in Conn, session'[d] = "open"
      PROVE  d \in late' \/ Kept(d)
  <2>1. ASSUME NEW c \in Conn, ServeHTTP(c), Register(c) PROVE d \in late' \/ Kept(d)
    <3>1. handler[c] = "idle" /\ late' = late \cup {c} /\ session' = [session EXCEPT ![c] = "open"]
      <4>1. UNCHANGED vars => FALSE
        BY <2>1 DEF Register, ServerInv, HubInv, TypeOK, Lifecycle, vars
      <4> QED BY <2>1, <4>1 DEF ServeHTTP, PassReady, Reject, Admit, Upgrade, UpgradeFails, Handle,
                 Release, Register
    <3> QED BY <1>1, <2>1, <3>1 DEF Register, BeingReplaced, ServerInv, HubInv, TypeOK
  <2>2. ASSUME NEW c \in Conn, InHub(SessionStep(c)) PROVE d \in late' \/ Kept(d)
    BY <1>1, <2>2, HubStepKeeps DEF InHub, ServerInv
  <2>3. CASE UNCHANGED vars
    BY <1>1, <2>3 DEF vars, BeingReplaced
  <2> QED BY <2>1, <2>2, <2>3, RequestIsHubStep
<1>2. late \subseteq late'
  BY DEF ServeHTTP, PassReady, Reject, Admit, Upgrade, UpgradeFails, Handle, Release, InHub
<1> QED BY <1>0, <1>1, <1>2 DEF ServerInv, SweepInv, Swept, Sweeping

\* Each goroutine that sweeps closes what its snapshot holds before it goes on.
LEMMA ProcessKeepsSweepInv ==
    ASSUME ServerInv,
           \/ ShutdownStep \/ MainStep \/ Cancel \/ ServeFails \/ Stopped
           \/ \E g \in Sweeper : Sweep(g)
    PROVE  SweepInv'
<1> USE DEF ServerInv, ServerTypeOK, Sweeper, Swept, Sweeping
<1>1. CASE EndDrain \/ StartFailureSweep
  <2>1. PICK g \in Sweeper : Sweeping(g)' /\ pending'[g] = Registered
    BY <1>1 DEF EndDrain, StartFailureSweep, SnapshotToClose
  <2>2. UNCHANGED <<session, handler, replaced>> /\ main' # "stopped"
    BY <1>1 DEF EndDrain, StartFailureSweep, vars, SweepInv
  <2>3. \A c \in Conn : session'[c] = "open" => c \in Registered \/ BeingReplaced(c)'
    BY <2>2, SnapshotSeesAll DEF BeingReplaced
  <2> QED BY <2>1, <2>2, <2>3 DEF SweepInv
<1>2. CASE \E g \in Sweeper : CloseNext(g)
  <2>0. PICK g \in Sweeper : CloseNext(g)
    BY <1>2
  <2>1. PICK c \in pending[g] :
          /\ Sweeping(g) /\ pending' = [pending EXCEPT ![g] = @ \ {c}]
          /\ session' = IF session[c] = "open" THEN [session EXCEPT ![c] = "closing"] ELSE session
          /\ UNCHANGED <<handler, replaced, main, shutdown, late>>
    BY <2>0 DEF CloseNext, process
  <2>2. \A d \in Conn : session'[d] = "open" => session[d] = "open" /\ d # c
    BY <2>1 DEF HubInv, TypeOK
  <2>3. \A d \in Conn : BeingReplaced(d)' <=> BeingReplaced(d)
    BY <2>1 DEF BeingReplaced
  <2>4. \A h \in Sweeper : \A d \in pending[h] : d # c => d \in pending'[h]
    BY <2>1
  <2> QED BY <2>1, <2>2, <2>3, <2>4 DEF SweepInv
<1>3. CASE Notify \/ StartNotice
  <2>1. /\ UNCHANGED <<handler, replaced, main, late>>
        /\ {shutdown, shutdown'} \subseteq {"withdrawn", "notifying", "draining"}
        /\ pending'["main"] = pending["main"]
    BY <1>3 DEF Notify, StartNotice, process, vars
  <2>2. \A d \in Conn : session'[d] = "open" => session[d] = "open"
    BY <1>3 DEF Notify, StartNotice, vars, HubInv, TypeOK
  <2>3. \A d \in Conn : BeingReplaced(d)' <=> BeingReplaced(d)
    BY <2>1 DEF BeingReplaced
  <2> QED BY <2>1, <2>2, <2>3 DEF SweepInv
<1>4. CASE \/ WithdrawReady \/ EndNotice \/ StartHttpShutdown \/ EndHttpShutdown
           \/ ServeReturns \/ CancelRun \/ Stop \/ Cancel \/ ServeFails \/ Stopped
           \/ \E g \in Sweeper : CloseReturns(g)
  <2>1. UNCHANGED <<session, handler, replaced, pending, late>>
    BY <1>4 DEF WithdrawReady, EndNotice, StartHttpShutdown, EndHttpShutdown, ServeReturns,
       CancelRun, Stop, Cancel, ServeFails, Stopped, CloseReturns, vars, sweep, serverVars
  <2>2. \A d \in Conn : BeingReplaced(d)' <=> BeingReplaced(d)
    BY <2>1 DEF BeingReplaced
  <2>3. \A g \in Sweeper : Sweeping(g) => Sweeping(g)' \/ pending[g] = {}
    BY <1>4 DEF WithdrawReady, EndNotice, StartHttpShutdown, EndHttpShutdown, ServeReturns,
       CancelRun, Stop, Cancel, ServeFails, Stopped, CloseReturns, process, serverVars, Done
  <2>4. Swept' => Swept
    BY <1>4 DEF WithdrawReady, EndNotice, StartHttpShutdown, EndHttpShutdown, ServeReturns,
       CancelRun, Stop, Cancel, ServeFails, Stopped, CloseReturns, process, serverVars
  <2>5. main' = "stopped" => shutdown' = "done"
    BY <1>4 DEF WithdrawReady, EndNotice, StartHttpShutdown, EndHttpShutdown, ServeReturns,
       CancelRun, Stop, Cancel, ServeFails, Stopped, CloseReturns, process, serverVars, SweepInv
  <2> HIDE DEF Swept, Sweeping
  <2> QED BY <2>1, <2>2, <2>3, <2>4, <2>5 DEF SweepInv
<1> QED BY <1>1, <1>2, <1>3, <1>4 DEF ShutdownStep, MainStep, Sweep
--------------------------------------------------------------------------------
(* The whole. *)

\* A server that has just begun to serve satisfies the invariant.
LEMMA InitServerInv == ServerInit => ServerInv
<1> SUFFICES ASSUME ServerInit PROVE ServerInv
  OBVIOUS
<1>1. HubInv
  BY InitHubInv DEF ServerInit
<1>2. capacity \in Nat /\ slots = 0 /\ capacity \in MaxConnections
  BY DEF ServerInit
<1>3. ServerTypeOK
  <2>1. slots \in 0..capacity
    BY <1>2
  <2>2. {ready, listening, forced, cancelled} \subseteq BOOLEAN
    BY DEF ServerInit
  <2> QED BY <1>2, <2>1, <2>2 DEF ServerInit, ServerTypeOK
<1>4. Admitted = {}
  BY DEF ServerInit, Admitted
<1>5. AdmissionInv
  BY <1>2, <1>4, FS_EmptySet DEF ServerInit, Init, AdmissionInv
<1>6. SweepInv
  BY DEF ServerInit, SweepInv, Swept
<1> QED BY <1>1, <1>3, <1>5, <1>6 DEF ServerInv

\* Every step preserves the invariant.
LEMMA NextServerInv == ServerInv /\ [ServerNext]_serverVars => ServerInv'
<1> SUFFICES ASSUME ServerInv, [ServerNext]_serverVars PROVE ServerInv'
  OBVIOUS
<1>1. HubInv'
  BY ServerStepIsHubStep, NextHubInv DEF ServerInv
<1>2. CASE \E c \in Conn : ServeHTTP(c)
  <2>1. UNCHANGED <<process, sweep>>
    BY <1>2 DEF ServeHTTP, PassReady, Reject, Admit, Upgrade, UpgradeFails, Handle, Release
  <2> QED BY <1>1, <1>2, <2>1, RequestAdmission, SessionsKeepSweepInv DEF ServerInv
<1>3. CASE \E c \in Conn : InHub(SessionStep(c))
  BY <1>1, <1>3, ProcessTyped, OtherAdmission, SessionsKeepSweepInv DEF ServerInv, InHub
<1>4. CASE \/ ShutdownStep \/ MainStep \/ Cancel \/ ServeFails \/ Stopped
           \/ \E g \in Sweeper : Sweep(g)
  <2>1. UNCHANGED handler
    BY <1>4, ProcessIsHubStep DEF Notify, Sweep, CloseNext, vars
  <2> QED BY <1>1, <1>4, <2>1, ProcessTyped, OtherAdmission, ProcessKeepsSweepInv DEF ServerInv
<1>5. CASE UNCHANGED serverVars
  <2>1. UNCHANGED <<admission, process, sweep, late, vars, handler>>
    BY <1>5 DEF serverVars, vars
  <2> QED BY <1>1, <2>1, ProcessTyped, OtherAdmission, SessionsKeepSweepInv DEF ServerInv
<1> QED BY <1>2, <1>3, <1>4, <1>5 DEF ServerNext

\* Every reachable state of the server satisfies the invariant.
THEOREM ServerCorrect == ServerSpec => []ServerInv
BY InitServerInv, NextServerInv, PTL DEF ServerSpec

\* Within the server, with its admission, its shutdown and its two sweeping
\* goroutines, the hub behaves as Hub says: every theorem about Spec carries over.
THEOREM ServerRunsHub == ServerSpec => Spec
<1>1. ServerInit => Init
  BY DEF ServerInit
<1>2. ServerInv /\ [ServerNext]_serverVars => [Next]_vars
  BY ServerStepIsHubStep DEF ServerInv
<1> QED BY <1>1, <1>2, ServerCorrect, PTL DEF ServerSpec, Spec

\* ServeHTTP never admits more requests than the configured limit, no session
\* holds resources without one of their places, and no place outlives its request.
THEOREM AdmissionAlwaysBounded == ServerSpec => []AdmissionBound
<1>1. ServerInv => AdmissionBound
  <2> SUFFICES ASSUME ServerInv PROVE AdmissionBound
    OBVIOUS
  <2> DEFINE Holding == {c \in Conn : handler[c] \notin {"idle", "exited"}}
  <2>1. Holding \in SUBSET Admitted
    BY DEF ServerInv, AdmissionInv, ServerTypeOK, Admitted
  <2>2. Cardinality(Holding) <= Cardinality(Admitted)
    BY <2>1, FS_Subset DEF ServerInv, AdmissionInv
  <2>3. slots <= capacity
    BY DEF ServerInv, ServerTypeOK
  <2> QED BY <2>2, <2>3 DEF AdmissionBound, ServerInv, AdmissionInv
<1> QED BY <1>1, ServerCorrect, PTL

\* When Serve returns, CloseAll has closed every session the registry held.
THEOREM StopClosesAllKnown == ServerSpec => []StopLeavesOnlyLateSessions
<1>1. ServerInv => StopLeavesOnlyLateSessions
  BY DEF ServerInv, SweepInv, Swept, Sweeping, BeingReplaced, Sweeper, StopLeavesOnlyLateSessions
<1> QED BY <1>1, ServerCorrect, PTL
================================================================================

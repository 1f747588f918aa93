---------------------------------- MODULE Hub ----------------------------------
(******************************************************************************)
(* The hub of the realtime server: the registry of active sessions, the room  *)
(* membership indexes, and the session lifecycle that drives them.            *)
(*                                                                            *)
(* Every critical section of hub.go (one Lock/Unlock pair of h.mu) is one     *)
(* action.  What a goroutine does between two critical sections is visible    *)
(* only through the program counter of the session's handler goroutine        *)
(* (`handler') and through the progress of Client.Close (`session').          *)
(*                                                                            *)
(*   handler   idle -> [replacing ->] starting -> reading <-> executing ...   *)
(*             ... -> replying -> reading | stopping -> exited                *)
(*   session   none -> open -> closing -> closed                              *)
(*                                                                            *)
(* A connection is used once: connection identifiers are fresh random values, *)
(* so a user who reconnects is another member of Conn with the same UserOf.   *)
(******************************************************************************)
EXTENDS Naturals, FiniteSets

CONSTANTS
    Conn,         \* connection identifiers, one per upgraded socket
    User,         \* authenticated user identifiers
    Room,         \* room identifiers
    None,         \* absence of a session (a nil *Client)
    UserOf,       \* the user each connection authenticated as
    MaxRooms,     \* maxRoomsPerClient; 0 means no limit
    JoinAllowed   \* the <<user, room>> pairs the Authorizer lets join

ASSUME UserOfAssumption == UserOf \in [Conn -> User]
ASSUME MaxRoomsAssumption == MaxRooms \in Nat
ASSUME JoinAllowedAssumption == JoinAllowed \subseteq User \X Room
ASSUME NoneAssumption == None \notin Conn

VARIABLES
    clients,      \* user -> registered connection, or None
    rooms,        \* Go map: present room -> the connections in it
    clientRooms,  \* Go map: present connection -> the rooms it is in
    session,      \* progress of Client.Close for each connection
    handler,      \* program counter of each connection's handler goroutine
    replaced,     \* the session a handler's Register call displaced
    command       \* the decoded room command a handler is executing

vars == <<clients, rooms, clientRooms, session, handler, replaced, command>>
lifecycle == <<session, handler, replaced, command>>
indexes == <<rooms, clientRooms>>

Command == [op : {"join", "leave"}, room : Room]

HandlerState ==
    {"idle", "replacing", "starting", "reading", "executing", "replying",
     "stopping", "exited"}

(******************************************************************************)
(* Go maps of sets.  A key is in DOMAIN exactly when the map has an entry for *)
(* it, so an entry left behind empty is visible.                              *)
(******************************************************************************)

\* m[k], the nil map when there is no entry.
Entry(m, k) == IF k \in DOMAIN m THEN m[k] ELSE {}

\* Make the entry of k if it is missing, then m[k][v] = v.
Insert(m, k, v) ==
    [x \in DOMAIN m \cup {k} |-> IF x = k THEN Entry(m, k) \cup {v} ELSE m[x]]

\* Mutant of Remove: the entry that became empty is kept.
RemoveKeepingEmpty(m, K, v) ==
    [x \in DOMAIN m |-> IF x \in K THEN m[x] \ {v} ELSE m[x]]

\* delete(m[k], v) for every k in K, and delete(m, k) when nothing is left.
Remove(m, K, v) ==
    [x \in {y \in DOMAIN m : y \in K => ~ (m[y] \subseteq {v})} |->
        IF x \in K THEN m[x] \ {v} ELSE m[x]]

\* delete(m, k).
Delete(m, k) == [x \in DOMAIN m \ {k} |-> m[x]]

\* m has keys in K and sets over V; no entry of m is empty.
MapOver(m, K, V) == DOMAIN m \subseteq K /\ \A x \in DOMAIN m : m[x] \subseteq V
NoEmptyEntry(m) == \A x \in DOMAIN m : m[x] # {}

MembersOf(r) == Entry(rooms, r)
RoomsOf(c) == Entry(clientRooms, c)

(******************************************************************************)
(* NewHub: nothing registered, no room, no connection yet.                    *)
(******************************************************************************)
Init ==
    /\ clients = [u \in User |-> None]
    /\ rooms = [r \in {} |-> {}]
    /\ clientRooms = [c \in {} |-> {}]
    /\ session = [c \in Conn |-> "none"]
    /\ handler = [c \in Conn |-> "idle"]
    /\ replaced = [c \in Conn |-> None]
    /\ command = [c \in Conn |-> None]

--------------------------------------------------------------------------------
(******************************************************************************)
(* Session start: realtimeSessionHandler.Handle = NewClient; Register; Run.   *)
(******************************************************************************)

\* Mutant of Register: the nil check on the displaced session is dropped.
RegisterWithoutNilCheck(c) ==
    /\ handler[c] = "idle"
    /\ session' = [session EXCEPT ![c] = "open"]
    /\ replaced' = [replaced EXCEPT ![c] = clients[UserOf[c]]]
    /\ clients' = [clients EXCEPT ![UserOf[c]] = c]
    /\ handler' = [handler EXCEPT ![c] = "replacing"]
    /\ UNCHANGED <<rooms, clientRooms, command>>

\* Mutant of Register: the displaced session is forgotten.
RegisterForgettingReplaced(c) ==
    /\ handler[c] = "idle"
    /\ session' = [session EXCEPT ![c] = "open"]
    /\ clients' = [clients EXCEPT ![UserOf[c]] = c]
    /\ handler' = [handler EXCEPT ![c] = "starting"]
    /\ UNCHANGED <<rooms, clientRooms, command, replaced>>

\* NewClient and the critical section of Register: the new session displaces
\* whatever was registered, and remembers it in order to close it.
Register(c) ==
    /\ handler[c] = "idle"
    /\ session' = [session EXCEPT ![c] = "open"]
    /\ replaced' = [replaced EXCEPT ![c] = clients[UserOf[c]]]
    /\ clients' = [clients EXCEPT ![UserOf[c]] = c]
    /\ handler' = [handler EXCEPT
         ![c] = IF clients[UserOf[c]] = None THEN "starting" ELSE "replacing"]
    /\ UNCHANGED <<rooms, clientRooms, command>>

\* Mutant of CloseReplaced: not done when the new session is itself closed.
CloseReplacedIfOpen(c) ==
    /\ handler[c] = "replacing"
    /\ session[c] = "open"
    /\ session[replaced[c]] = "open"
    /\ session' = [session EXCEPT ![replaced[c]] = "closing"]
    /\ UNCHANGED <<clients, rooms, clientRooms, handler, replaced, command>>

\* Register, after the lock: replaced.Close wins the once of the old session.
CloseReplaced(c) ==
    /\ handler[c] = "replacing"
    /\ session[replaced[c]] = "open"
    /\ session' = [session EXCEPT ![replaced[c]] = "closing"]
    /\ UNCHANGED <<clients, rooms, clientRooms, handler, replaced, command>>

\* replaced.Close returns once the body of closeOnce is done, whoever ran it.
ReplacedClosed(c) ==
    /\ handler[c] = "replacing"
    /\ session[replaced[c]] = "closed"
    /\ handler' = [handler EXCEPT ![c] = "starting"]
    /\ UNCHANGED <<clients, rooms, clientRooms, session, replaced, command>>

\* Mutant of Enqueue: Send does not look at the closed flag.
EnqueueOnClosed(c) ==
    /\ handler' \in {[handler EXCEPT ![c] = "reading"], [handler EXCEPT ![c] = "stopping"]}
    /\ UNCHANGED <<clients, rooms, clientRooms, session, replaced, command>>

\* Run and the read loop hand an event to Send (connection.ready, an
\* acknowledgement, an error).  Send accepts it only while the session is not
\* closed; a closed session, a full queue and a failed event id end the loop.
Enqueue(c) ==
    /\ \/ /\ session[c] = "open"
          /\ handler' = [handler EXCEPT ![c] = "reading"]
       \/ handler' = [handler EXCEPT ![c] = "stopping"]
    /\ UNCHANGED <<clients, rooms, clientRooms, session, replaced, command>>

StartRun(c) == handler[c] = "starting" /\ Enqueue(c)

Reply(c) == handler[c] = "replying" /\ Enqueue(c)

--------------------------------------------------------------------------------
(******************************************************************************)
(* The read loop.                                                             *)
(******************************************************************************)

\* ReadMessage and SetReadDeadline succeed only while the socket is open.  The
\* socket is closed after the closed flag is set and before Unregister, so a
\* frame can still be picked up while the session is closing, never later.
ReadFrame(c) == handler[c] = "reading" /\ session[c] \in {"open", "closing"}

\* A room command that passed decoding, validation and the rate limit.
ReadCommand(c, cmd) ==
    /\ ReadFrame(c)
    /\ handler' = [handler EXCEPT ![c] = "executing"]
    /\ command' = [command EXCEPT ![c] = cmd]
    /\ UNCHANGED <<clients, rooms, clientRooms, session, replaced>>

\* Any other frame leaves the hub's state alone and is answered.
ReadOther(c) ==
    /\ ReadFrame(c)
    /\ handler' = [handler EXCEPT ![c] = "replying"]
    /\ UNCHANGED <<clients, rooms, clientRooms, session, replaced, command>>

\* ReadMessage or SetReadDeadline fails: peer gone, timeout, socket closed.
ReadFail(c) ==
    /\ handler[c] = "reading"
    /\ handler' = [handler EXCEPT ![c] = "stopping"]
    /\ UNCHANGED <<clients, rooms, clientRooms, session, replaced, command>>

\* The command is over; its outcome is put in the outbound queue next.
Executed(c) ==
    /\ handler' = [handler EXCEPT ![c] = "replying"]
    /\ command' = [command EXCEPT ![c] = None]
    /\ UNCHANGED <<clients, session, replaced>>

\* Mutant of LimitReached: > in place of >=.
LimitExceeded(c, r) ==
    r \notin RoomsOf(c) /\ MaxRooms > 0 /\ Cardinality(RoomsOf(c)) > MaxRooms

\* len(rooms) >= maxRoomsPerClient, asked only about a room not joined yet.
LimitReached(c, r) ==
    /\ r \notin RoomsOf(c)
    /\ MaxRooms > 0
    /\ c \in DOMAIN clientRooms
    /\ Cardinality(RoomsOf(c)) >= MaxRooms

\* Hub.Join: both indexes change in one critical section, or neither.  Neither
\* the closed flag nor the registry is consulted.
Join(c) ==
    /\ handler[c] = "executing"
    /\ command[c].op = "join"
    /\ LET r == command[c].room IN
         IF <<UserOf[c], r>> \in JoinAllowed /\ ~ LimitReached(c, r)
         THEN /\ rooms' = Insert(rooms, r, c)
              /\ clientRooms' = Insert(clientRooms, c, r)
         ELSE UNCHANGED indexes
    /\ Executed(c)

\* Hub.Leave.
Leave(c) ==
    /\ handler[c] = "executing"
    /\ command[c].op = "leave"
    /\ LET r == command[c].room IN
         /\ clientRooms' = Remove(clientRooms, {c}, r)
         /\ rooms' = Remove(rooms, {r}, c)
    /\ Executed(c)

--------------------------------------------------------------------------------
(******************************************************************************)
(* Session end: Client.Close and the deferred part of Run.                    *)
(******************************************************************************)

\* Close("...") called by the session's own handler after the read loop.
CloseSelf(c) ==
    /\ handler[c] = "stopping"
    /\ session[c] = "open"
    /\ session' = [session EXCEPT ![c] = "closing"]
    /\ UNCHANGED <<clients, rooms, clientRooms, handler, replaced, command>>

\* Close called by another goroutine: the session's writer, a sender that found
\* the queue full, or CloseAll.  All of them reach any session that was ever
\* registered, whatever its handler is doing.
Abort(c) ==
    /\ session[c] = "open"
    /\ session' = [session EXCEPT ![c] = "closing"]
    /\ UNCHANGED <<clients, rooms, clientRooms, handler, replaced, command>>

\* Mutant of Unregister: the registry entry stays.
UnregisterRoomsOnly(c) ==
    /\ session[c] = "closing"
    /\ session' = [session EXCEPT ![c] = "closed"]
    /\ rooms' = Remove(rooms, RoomsOf(c), c)
    /\ clientRooms' = Delete(clientRooms, c)
    /\ UNCHANGED <<clients, handler, replaced, command>>

\* Mutant of Unregister: the entry is deleted by user, whoever it names.
UnregisterByUser(c) ==
    /\ session[c] = "closing"
    /\ session' = [session EXCEPT ![c] = "closed"]
    /\ rooms' = Remove(rooms, RoomsOf(c), c)
    /\ clientRooms' = Delete(clientRooms, c)
    /\ clients' = [clients EXCEPT ![UserOf[c]] = None]
    /\ UNCHANGED <<handler, replaced, command>>

\* The rest of the once body: the socket is closed and OnClose runs Unregister,
\* which drops every membership, and the registry entry if it is still its own.
Unregister(c) ==
    /\ session[c] = "closing"
    /\ session' = [session EXCEPT ![c] = "closed"]
    /\ rooms' = Remove(rooms, RoomsOf(c), c)
    /\ clientRooms' = Delete(clientRooms, c)
    /\ clients' = IF clients[UserOf[c]] = c
                  THEN [clients EXCEPT ![UserOf[c]] = None]
                  ELSE clients
    /\ UNCHANGED <<handler, replaced, command>>

\* Close has returned and the writer, which the closed done channel stops, too.
Exit(c) ==
    /\ handler[c] = "stopping"
    /\ session[c] = "closed"
    /\ handler' = [handler EXCEPT ![c] = "exited"]
    /\ UNCHANGED <<clients, rooms, clientRooms, session, replaced, command>>

--------------------------------------------------------------------------------
\* Steps of the handler goroutine that no peer and no socket has to enable.
HandlerStep(c) ==
    \/ CloseReplaced(c) \/ ReplacedClosed(c) \/ StartRun(c)
    \/ Join(c) \/ Leave(c) \/ Reply(c)
    \/ CloseSelf(c) \/ Exit(c)

\* What can happen to a session once it is registered.
SessionStep(c) ==
    \/ HandlerStep(c)
    \/ \E cmd \in Command : ReadCommand(c, cmd)
    \/ ReadOther(c)
    \/ ReadFail(c)
    \/ Abort(c)
    \/ Unregister(c)

\* Every connection has come and gone; any other standstill is a deadlock.
AllExited == (\A c \in Conn : handler[c] = "exited") /\ UNCHANGED vars

Next ==
    \/ \E c \in Conn : Register(c) \/ SessionStep(c)
    \/ AllExited

Spec == Init /\ [][Next]_vars

\* A read on a closed socket returns with an error.
ReadOnClosedSocket(c) == session[c] = "closed" /\ ReadFail(c)

\* Runnable goroutines are scheduled; nothing obliges a peer to send, to fail or
\* to connect, nor another goroutine to close a session.
Fairness ==
    \A c \in Conn :
        /\ WF_vars(HandlerStep(c) \/ ReadOnClosedSocket(c))
        /\ WF_vars(Unregister(c))

FairSpec == Spec /\ Fairness

--------------------------------------------------------------------------------
(******************************************************************************)
(* Properties.                                                                *)
(******************************************************************************)

\* Types of the registry, of the two room indexes and of the lifecycle state.
TypeOK ==
    /\ clients \in [User -> Conn \cup {None}]
    /\ MapOver(rooms, Room, Conn)
    /\ MapOver(clientRooms, Conn, Room)
    /\ session \in [Conn -> {"none", "open", "closing", "closed"}]
    /\ handler \in [Conn -> HandlerState]
    /\ replaced \in [Conn -> Conn \cup {None}]
    /\ command \in [Conn -> Command \cup {None}]
    /\ \A c \in Conn : handler[c] = "executing" => command[c] \in Command
    /\ \A c \in Conn : handler[c] = "replacing" => replaced[c] \in Conn

\* The two indexes Join, Leave and Unregister maintain by hand describe the same
\* memberships, and neither keeps an empty entry: empty rooms do not leak.
RoomIndexesAgree ==
    /\ \A c \in Conn, r \in Room : c \in MembersOf(r) <=> r \in RoomsOf(c)
    /\ NoEmptyEntry(rooms)
    /\ NoEmptyEntry(clientRooms)

\* Join never takes a session over its room limit, and never into a room its
\* user may not join, across closes and late joins.
RoomLimit ==
    \A c \in Conn :
        /\ MaxRooms > 0 => Cardinality(RoomsOf(c)) <= MaxRooms
        /\ \A r \in RoomsOf(c) : <<UserOf[c], r>> \in JoinAllowed

\* The registry holds a session only under its own user, and never one whose
\* Close has finished: Lookup and SendPrivate do not find dead sessions.
RegistryIsLive ==
    \A u \in User : clients[u] # None =>
        /\ UserOf[clients[u]] = u
        /\ session[clients[u]] \in {"open", "closing"}

\* A session that is open but no longer registered (the hub cannot reach it to
\* drain or to close it) is about to be closed by the handler that displaced it.
OrphanHasCloser ==
    \A c \in Conn : session[c] = "open" /\ clients[UserOf[c]] # c =>
        \E d \in Conn :
            /\ handler[d] = "replacing"
            /\ replaced[d] = c
            /\ UserOf[d] = UserOf[c]

\* What Close leaves behind is bounded: a closed session can regain a membership
\* only through the one room.join its reader had already picked up, so at most
\* one, and none before that command is carried out.
LateMembershipBound ==
    \A c \in Conn : session[c] = "closed" =>
        /\ \A r1, r2 \in RoomsOf(c) : r1 = r2
        /\ handler[c] \notin {"replying", "stopping", "exited"} => RoomsOf(c) = {}

\* How the handlers' program counters and the sessions' states fit together.
Lifecycle ==
    \A c \in Conn :
        /\ handler[c] = "idle" <=> session[c] = "none"
        /\ handler[c] = "replacing" =>
               session[replaced[c]] # "none" /\ UserOf[replaced[c]] = UserOf[c]

\* The inductive invariant of the proofs.
HubInv ==
    /\ TypeOK
    /\ Lifecycle
    /\ RoomIndexesAgree
    /\ RegistryIsLive
    /\ OrphanHasCloser
    /\ LateMembershipBound

EntryStep ==
    \A u \in User : clients[u] # None /\ clients'[u] # clients[u] =>
        \/ /\ clients'[u] # None
           /\ session[clients'[u]] = "none"
           /\ session'[clients'[u]] = "open"
        \/ /\ clients'[u] = None
           /\ session[clients[u]] = "closing"
           /\ session'[clients[u]] = "closed"

\* An entry of the registry changes only when a newer session of the same user
\* registers, or when the session it names completes its own Close: the cleanup
\* of a replaced session cannot delete its successor.
EntryOutlivesStaleCleanup == [][EntryStep]_vars

\* A session that anybody closes, or that is displaced, even by one that is
\* closed first, ends: it is closed and its handler goroutine returns, wherever
\* it was and however silent its peer.  No handler waits forever on the close of
\* another session.
UnwantedSessionEnds ==
    \A c \in Conn :
        session[c] = "closing" \/ (session[c] = "open" /\ clients[UserOf[c]] # c)
            ~> handler[c] = "exited"

--------------------------------------------------------------------------------
(******************************************************************************)
(* What the documentation says and the code does not guarantee.               *)
(******************************************************************************)

\* "disconnected clients do not remain in rooms": a session whose Close has
\* completed and whose handler has returned is in no room.
DisconnectedNotInRooms ==
    \A c \in Conn : handler[c] = "exited" => \A r \in DOMAIN rooms : c \notin rooms[r]
================================================================================

------------------------------- MODULE HubProofs -------------------------------
(******************************************************************************)
(* Proofs about Hub, for any set of connections, users and rooms.             *)
(*                                                                            *)
(* The map operators are used only through what they do to an entry (the      *)
(* first section); then HubInv is shown to be preserved, one lemma per action *)
(* or per group of actions that change the same variables.                    *)
(******************************************************************************)
EXTENDS Hub, FiniteSetTheorems, TLAPS

--------------------------------------------------------------------------------
(* The Go-map operators. *)

\* Insert adds v to the entry of k and leaves every other entry alone.
LEMMA EntryInsert ==
    ASSUME NEW m, NEW k, NEW v, NEW x
    PROVE  Entry(Insert(m, k, v), x)
             = IF x = k THEN Entry(m, k) \cup {v} ELSE Entry(m, x)
BY DEF Entry, Insert

\* Remove takes v out of the entries named by K, whether or not it deletes the key.
LEMMA EntryRemove ==
    ASSUME NEW m, NEW K, NEW v, NEW x
    PROVE  Entry(Remove(m, K, v), x)
             = IF x \in K THEN Entry(m, x) \ {v} ELSE Entry(m, x)
BY DEF Entry, Remove

\* Delete empties the entry of k and leaves every other entry alone.
LEMMA EntryDelete ==
    ASSUME NEW m, NEW k, NEW x
    PROVE  Entry(Delete(m, k), x) = IF x = k THEN {} ELSE Entry(m, x)
BY DEF Entry, Delete

\* None of Insert, Remove and Delete leaves an empty entry behind.
LEMMA NoEmptyEntryPreserved ==
    ASSUME NEW m, NoEmptyEntry(m), NEW k, NEW v, NEW J
    PROVE  /\ NoEmptyEntry(Insert(m, k, v))
           /\ NoEmptyEntry(Remove(m, J, v))
           /\ NoEmptyEntry(Delete(m, k))
<1>1. NoEmptyEntry(Insert(m, k, v))
  BY DEF NoEmptyEntry, Insert, Entry
<1>2. NoEmptyEntry(Remove(m, J, v))
  BY DEF NoEmptyEntry, Remove
<1>3. NoEmptyEntry(Delete(m, k))
  BY DEF NoEmptyEntry, Delete
<1> QED BY <1>1, <1>2, <1>3

--------------------------------------------------------------------------------
(* Preservation of HubInv. *)

USE UserOfAssumption, NoneAssumption

\* The empty hub satisfies the invariant.
LEMMA InitHubInv == Init => HubInv
<1> SUFFICES ASSUME Init PROVE HubInv
  OBVIOUS
<1>1. TypeOK
  BY DEF Init, TypeOK, MapOver, HandlerState
<1>2. Lifecycle
  BY DEF Init, Lifecycle
<1>3. RoomIndexesAgree
  BY DEF Init, RoomIndexesAgree, NoEmptyEntry, MembersOf, RoomsOf, Entry
<1>4. RegistryIsLive /\ OrphanHasCloser /\ LateMembershipBound
  BY DEF Init, RegistryIsLive, OrphanHasCloser, LateMembershipBound
<1> QED BY <1>1, <1>2, <1>3, <1>4 DEF HubInv

\* Steps that touch neither index keep the index invariant.
LEMMA IndexesUntouched ==
    ASSUME UNCHANGED indexes
    PROVE  /\ RoomIndexesAgree => RoomIndexesAgree'
           /\ \A c \in Conn : RoomsOf(c)' = RoomsOf(c)
BY DEF indexes, RoomIndexesAgree, NoEmptyEntry, MembersOf, RoomsOf, Entry

\* Register: the new session becomes the closer of the one it displaces.
LEMMA RegisterHubInv ==
    ASSUME HubInv, NEW c \in Conn, Register(c)
    PROVE  HubInv'
<1> USE DEF HubInv
<1>0. UNCHANGED indexes
  BY DEF Register, indexes
<1>1. TypeOK'
  BY DEF TypeOK, Register, HandlerState, MapOver
<1>2. Lifecycle'
  BY DEF TypeOK, Lifecycle, Register, RegistryIsLive
<1>3. RoomIndexesAgree'
  BY <1>0, IndexesUntouched
<1>4. RegistryIsLive'
  BY DEF TypeOK, RegistryIsLive, Register, Lifecycle
<1>5. OrphanHasCloser'
  <2> SUFFICES ASSUME NEW x \in Conn, session'[x] = "open", clients'[UserOf[x]] # x
               PROVE  \E d \in Conn : /\ handler'[d] = "replacing"
                                      /\ replaced'[d] = x
                                      /\ UserOf[d] = UserOf[x]
    BY DEF OrphanHasCloser
  <2>1. x # c
    BY DEF Register, TypeOK
  <2>2. CASE clients[UserOf[x]] = x
    <3>1. UserOf[x] = UserOf[c]
      BY <2>2 DEF Register, TypeOK
    <3>2. handler'[c] = "replacing" /\ replaced'[c] = x
      BY <3>1, <2>2 DEF Register, TypeOK
    <3> QED BY <3>1, <3>2
  <2>3. CASE clients[UserOf[x]] # x
    <3>1. session[x] = "open"
      BY <2>1 DEF Register, TypeOK
    <3>2. PICK d \in Conn : handler[d] = "replacing" /\ replaced[d] = x /\ UserOf[d] = UserOf[x]
      BY <2>3, <3>1 DEF OrphanHasCloser
    <3>3. d # c
      BY <3>2 DEF Register
    <3> QED BY <3>2, <3>3 DEF Register, TypeOK
  <2> QED BY <2>2, <2>3
<1>6. LateMembershipBound'
  BY <1>0, IndexesUntouched DEF LateMembershipBound, Register, TypeOK, Lifecycle
<1> QED BY <1>1, <1>2, <1>3, <1>4, <1>5, <1>6

\* Steps that only start the close of a session leave everything else in place.
LEMMA BeginCloseHubInv ==
    ASSUME HubInv, NEW c \in Conn, CloseReplaced(c) \/ CloseSelf(c) \/ Abort(c)
    PROVE  HubInv'
<1> USE DEF HubInv
<1> DEFINE NowClosing(x) == /\ session[x] = "open"
                            /\ session' = [session EXCEPT ![x] = "closing"]
                            /\ UNCHANGED <<clients, rooms, clientRooms, handler, replaced, command>>
<1>0. PICK x \in Conn : NowClosing(x)
  BY DEF CloseReplaced, CloseSelf, Abort, TypeOK
<1>1. TypeOK'
  BY <1>0 DEF TypeOK, MapOver
<1>2. Lifecycle'
  BY <1>0 DEF TypeOK, Lifecycle
<1>3. RoomIndexesAgree' /\ \A y \in Conn : RoomsOf(y)' = RoomsOf(y)
  BY <1>0, IndexesUntouched DEF indexes
<1>4. RegistryIsLive'
  BY <1>0 DEF TypeOK, RegistryIsLive
<1>5. OrphanHasCloser'
  BY <1>0 DEF TypeOK, OrphanHasCloser
<1>6. LateMembershipBound'
  BY <1>0, <1>3 DEF LateMembershipBound, TypeOK
<1> QED BY <1>1, <1>2, <1>3, <1>4, <1>5, <1>6

\* Steps that move only the handler: no closer is lost, because a handler leaves
\* "replacing" only after the session it displaced is closed.
LEMMA HandlerMoveHubInv ==
    ASSUME HubInv, NEW c \in Conn,
           \/ ReplacedClosed(c) \/ StartRun(c) \/ Reply(c) \/ Exit(c)
           \/ ReadOther(c) \/ ReadFail(c) \/ \E cmd \in Command : ReadCommand(c, cmd)
    PROVE  HubInv'
<1> USE DEF HubInv
<1> DEFINE target == {"starting", "reading", "executing", "replying", "stopping", "exited"}
           Moves(s, k) ==
             /\ s \in target
             /\ handler' = [handler EXCEPT ![c] = s]
             /\ handler[c] # "idle"
             /\ handler[c] = "replacing" => session[replaced[c]] = "closed"
             /\ s \in {"starting", "reading", "executing"} /\ session[c] = "closed" =>
                    handler[c] = "replacing"
             /\ k \in Command \cup {None}
             /\ s = "executing" => k \in Command
             /\ command' = [command EXCEPT ![c] = k]
             /\ UNCHANGED <<clients, rooms, clientRooms, session, replaced>>
<1>0. \E s \in target, k \in Command \cup {None} : Moves(s, k)
  <2> DEFINE kept == command[c]
  <2>1. kept \in Command \cup {None} /\ command = [command EXCEPT ![c] = kept]
    BY DEF TypeOK
  <2>2. CASE ReplacedClosed(c)
    <3>1. Moves("starting", kept)
      BY <2>1, <2>2 DEF ReplacedClosed
    <3> QED BY <3>1, <2>1
  <2>3. CASE StartRun(c) \/ Reply(c)
    <3>1. Moves("reading", kept) \/ Moves("stopping", kept)
      BY <2>1, <2>3 DEF StartRun, Reply, Enqueue
    <3> QED BY <3>1, <2>1
  <2>4. CASE Exit(c)
    <3>1. Moves("exited", kept)
      BY <2>1, <2>4 DEF Exit
    <3> QED BY <3>1, <2>1
  <2>5. CASE ReadOther(c)
    <3>1. Moves("replying", kept)
      BY <2>1, <2>5 DEF ReadOther, ReadFrame
    <3> QED BY <3>1, <2>1
  <2>6. CASE ReadFail(c)
    <3>1. Moves("stopping", kept)
      BY <2>1, <2>6 DEF ReadFail
    <3> QED BY <3>1, <2>1
  <2>7. CASE \E cmd \in Command : ReadCommand(c, cmd)
    <3>1. PICK cmd \in Command : ReadCommand(c, cmd)
      BY <2>7
    <3>2. Moves("executing", cmd)
      BY <3>1 DEF ReadCommand, ReadFrame
    <3> QED BY <3>2
  <2> QED BY <2>2, <2>3, <2>4, <2>5, <2>6, <2>7
<1>1. PICK s \in target, k \in Command \cup {None} : Moves(s, k)
  BY <1>0
<1>2. TypeOK'
  BY <1>1 DEF TypeOK, MapOver, HandlerState
<1>3. Lifecycle'
  BY <1>1 DEF TypeOK, Lifecycle
<1>4. RoomIndexesAgree' /\ \A y \in Conn : RoomsOf(y)' = RoomsOf(y)
  BY <1>1, IndexesUntouched DEF indexes
<1>5. RegistryIsLive'
  BY <1>1 DEF RegistryIsLive
<1>6. OrphanHasCloser'
  BY <1>1 DEF TypeOK, OrphanHasCloser
<1>7. LateMembershipBound'
  BY <1>1, <1>4 DEF LateMembershipBound, TypeOK
<1> QED BY <1>2, <1>3, <1>4, <1>5, <1>6, <1>7

\* Join writes both indexes together; after the close it finds no membership.
LEMMA JoinHubInv ==
    ASSUME HubInv, NEW c \in Conn, Join(c)
    PROVE  HubInv'
<1> USE DEF HubInv
<1> DEFINE r == command[c].room
<1>0. r \in Room
  BY DEF Join, TypeOK, Command
<1>1. /\ handler[c] = "executing"
      /\ handler' = [handler EXCEPT ![c] = "replying"]
      /\ command' = [command EXCEPT ![c] = None]
      /\ UNCHANGED <<clients, session, replaced>>
  BY DEF Join, Executed
<1>2. \/ rooms' = Insert(rooms, r, c) /\ clientRooms' = Insert(clientRooms, c, r)
      \/ UNCHANGED indexes
  BY DEF Join
<1>3. TypeOK'
  <2>1. MapOver(rooms', Room, Conn)
    BY <1>0, <1>2 DEF TypeOK, indexes, MapOver, Insert, Entry
  <2>2. MapOver(clientRooms', Conn, Room)
    BY <1>0, <1>2 DEF TypeOK, indexes, MapOver, Insert, Entry
  <2> QED BY <1>1, <2>1, <2>2 DEF TypeOK, HandlerState, MapOver
<1>4. Lifecycle'
  BY <1>1 DEF TypeOK, Lifecycle
<1>5. RoomIndexesAgree'
  <2>1. CASE UNCHANGED indexes
    BY <2>1, IndexesUntouched
  <2>2. CASE rooms' = Insert(rooms, r, c) /\ clientRooms' = Insert(clientRooms, c, r)
    <3>1. NoEmptyEntry(rooms') /\ NoEmptyEntry(clientRooms')
      BY <2>2, NoEmptyEntryPreserved DEF RoomIndexesAgree
    <3>2. \A x \in Conn, y \in Room : x \in Entry(rooms', y) <=> y \in Entry(clientRooms', x)
      BY <2>2, EntryInsert DEF RoomIndexesAgree, MembersOf, RoomsOf
    <3> QED BY <3>1, <3>2 DEF RoomIndexesAgree, MembersOf, RoomsOf, NoEmptyEntry, Entry
  <2> QED BY <1>2, <2>1, <2>2
<1>6. RegistryIsLive'
  BY <1>1 DEF RegistryIsLive
<1>7. OrphanHasCloser'
  BY <1>1 DEF TypeOK, OrphanHasCloser
<1>8. LateMembershipBound'
  <2>1. \A x \in Conn : Entry(clientRooms', x) =
          Entry(clientRooms, x) \/ (x = c /\ Entry(clientRooms', x) = Entry(clientRooms, x) \cup {r})
    BY <1>2, EntryInsert DEF indexes
  <2>2. session[c] = "closed" => Entry(clientRooms, c) = {}
    BY <1>1 DEF LateMembershipBound, RoomsOf
  <2> SUFFICES ASSUME NEW x \in Conn, session'[x] = "closed"
               PROVE  /\ \A r1, r2 \in Entry(clientRooms', x) : r1 = r2
                      /\ handler'[x] \notin {"replying", "stopping", "exited"} =>
                           Entry(clientRooms', x) = {}
    BY DEF LateMembershipBound, RoomsOf, Entry
  <2>3. CASE x = c
    BY <1>1, <2>1, <2>2, <2>3 DEF TypeOK
  <2>4. CASE x # c
    BY <1>1, <2>1, <2>4 DEF TypeOK, LateMembershipBound, RoomsOf
  <2> QED BY <2>3, <2>4
<1> QED BY <1>3, <1>4, <1>5, <1>6, <1>7, <1>8

\* Leave removes from both indexes whether or not the session was a member.
LEMMA LeaveHubInv ==
    ASSUME HubInv, NEW c \in Conn, Leave(c)
    PROVE  HubInv'
<1> USE DEF HubInv
<1> DEFINE r == command[c].room
<1>0. r \in Room
  BY DEF Leave, TypeOK, Command
<1>1. /\ handler[c] = "executing"
      /\ handler' = [handler EXCEPT ![c] = "replying"]
      /\ command' = [command EXCEPT ![c] = None]
      /\ UNCHANGED <<clients, session, replaced>>
  BY DEF Leave, Executed
<1>2. clientRooms' = Remove(clientRooms, {c}, r) /\ rooms' = Remove(rooms, {r}, c)
  BY DEF Leave
<1>3. TypeOK'
  <2>1. MapOver(rooms', Room, Conn)
    BY <1>2 DEF TypeOK, MapOver, Remove
  <2>2. MapOver(clientRooms', Conn, Room)
    BY <1>2 DEF TypeOK, MapOver, Remove
  <2> QED BY <1>1, <2>1, <2>2 DEF TypeOK, HandlerState, MapOver
<1>4. Lifecycle'
  BY <1>1 DEF TypeOK, Lifecycle
<1>5. RoomIndexesAgree'
  <2>1. NoEmptyEntry(rooms') /\ NoEmptyEntry(clientRooms')
    BY <1>2, NoEmptyEntryPreserved DEF RoomIndexesAgree
  <2>2. \A x \in Conn, y \in Room : x \in Entry(rooms', y) <=> y \in Entry(clientRooms', x)
    BY <1>2, EntryRemove DEF RoomIndexesAgree, MembersOf, RoomsOf
  <2> QED BY <2>1, <2>2 DEF RoomIndexesAgree, MembersOf, RoomsOf, NoEmptyEntry, Entry
<1>6. RegistryIsLive'
  BY <1>1 DEF RegistryIsLive
<1>7. OrphanHasCloser'
  BY <1>1 DEF TypeOK, OrphanHasCloser
<1>8. LateMembershipBound'
  <2>1. \A x \in Conn : Entry(clientRooms', x) \subseteq Entry(clientRooms, x)
    BY <1>2, EntryRemove
  <2> SUFFICES ASSUME NEW x \in Conn, session'[x] = "closed"
               PROVE  /\ \A r1, r2 \in Entry(clientRooms', x) : r1 = r2
                      /\ handler'[x] \notin {"replying", "stopping", "exited"} =>
                           Entry(clientRooms', x) = {}
    BY DEF LateMembershipBound, RoomsOf, Entry
  <2> QED BY <1>1, <2>1 DEF TypeOK, LateMembershipBound, RoomsOf
<1> QED BY <1>3, <1>4, <1>5, <1>6, <1>7, <1>8

\* Unregister drops every membership, and at most its own registry entry.
LEMMA UnregisterHubInv ==
    ASSUME HubInv, NEW c \in Conn, Unregister(c)
    PROVE  HubInv'
<1> USE DEF HubInv
<1>1. /\ session[c] = "closing"
      /\ session' = [session EXCEPT ![c] = "closed"]
      /\ UNCHANGED <<handler, replaced, command>>
      /\ clients' = IF clients[UserOf[c]] = c
                    THEN [clients EXCEPT ![UserOf[c]] = None] ELSE clients
  BY DEF Unregister
<1>2. rooms' = Remove(rooms, RoomsOf(c), c) /\ clientRooms' = Delete(clientRooms, c)
  BY DEF Unregister
<1>3. TypeOK'
  <2>1. MapOver(rooms', Room, Conn)
    BY <1>2 DEF TypeOK, MapOver, Remove
  <2>2. MapOver(clientRooms', Conn, Room)
    BY <1>2 DEF TypeOK, MapOver, Delete
  <2> QED BY <1>1, <2>1, <2>2 DEF TypeOK, MapOver
<1>4. Lifecycle'
  BY <1>1 DEF TypeOK, Lifecycle
<1>5. RoomIndexesAgree'
  <2>1. NoEmptyEntry(rooms') /\ NoEmptyEntry(clientRooms')
    BY <1>2, NoEmptyEntryPreserved DEF RoomIndexesAgree
  <2>2. \A x \in Conn, y \in Room : x \in Entry(rooms', y) <=> y \in Entry(clientRooms', x)
    BY <1>2, EntryRemove, EntryDelete DEF RoomIndexesAgree, MembersOf, RoomsOf
  <2> QED BY <2>1, <2>2 DEF RoomIndexesAgree, MembersOf, RoomsOf, NoEmptyEntry, Entry
<1>6. RegistryIsLive'
  BY <1>1 DEF TypeOK, RegistryIsLive
<1>7. OrphanHasCloser'
  BY <1>1 DEF TypeOK, OrphanHasCloser
<1>8. LateMembershipBound'
  <2>1. \A x \in Conn : Entry(clientRooms', x) = IF x = c THEN {} ELSE Entry(clientRooms, x)
    BY <1>2, EntryDelete
  <2> SUFFICES ASSUME NEW x \in Conn, session'[x] = "closed"
               PROVE  /\ \A r1, r2 \in Entry(clientRooms', x) : r1 = r2
                      /\ handler'[x] \notin {"replying", "stopping", "exited"} =>
                           Entry(clientRooms', x) = {}
    BY DEF LateMembershipBound, RoomsOf, Entry
  <2> QED BY <1>1, <2>1 DEF TypeOK, LateMembershipBound, RoomsOf
<1> QED BY <1>3, <1>4, <1>5, <1>6, <1>7, <1>8

\* Every step preserves the inductive invariant.
LEMMA NextHubInv == HubInv /\ [Next]_vars => HubInv'
<1> SUFFICES ASSUME HubInv, [Next]_vars PROVE HubInv'
  OBVIOUS
<1>1. CASE UNCHANGED vars
  <2>1. UNCHANGED indexes
    BY <1>1 DEF vars, indexes
  <2>2. RoomIndexesAgree' /\ \A c \in Conn : RoomsOf(c)' = RoomsOf(c)
    BY <2>1, IndexesUntouched DEF HubInv
  <2>3. TypeOK' /\ Lifecycle' /\ RegistryIsLive' /\ OrphanHasCloser'
    BY <1>1 DEF HubInv, vars, TypeOK, MapOver, Lifecycle, RegistryIsLive, OrphanHasCloser
  <2>4. LateMembershipBound'
    BY <1>1, <2>2 DEF HubInv, vars, LateMembershipBound
  <2> QED BY <2>2, <2>3, <2>4 DEF HubInv
<1>2. ASSUME NEW c \in Conn,
             Register(c) \/ SessionStep(c)
      PROVE  HubInv'
  BY <1>2, RegisterHubInv, BeginCloseHubInv, HandlerMoveHubInv, JoinHubInv,
     LeaveHubInv, UnregisterHubInv DEF SessionStep, HandlerStep
<1> QED BY <1>1, <1>2 DEF Next, AllExited

\* Every reachable state satisfies the inductive invariant.
THEOREM HubCorrect == Spec => []HubInv
<1>1. Init => HubInv
  BY InitHubInv
<1>2. HubInv /\ [Next]_vars => HubInv'
  BY NextHubInv
<1> QED BY <1>1, <1>2, PTL DEF Spec

--------------------------------------------------------------------------------
(* The properties the runs check, for every value of the constants. *)

\* Registry, indexes and lifecycle state keep their types in every behaviour.
THEOREM TypeCorrect == Spec => []TypeOK
<1>1. HubInv => TypeOK
  BY DEF HubInv
<1> QED BY <1>1, HubCorrect, PTL

\* Join, Leave and Unregister keep rooms and clientRooms inverse to each other
\* and free of empty entries, whatever closes and late joins interleave.
THEOREM RoomIndexesAlwaysAgree == Spec => []RoomIndexesAgree
<1>1. HubInv => RoomIndexesAgree
  BY DEF HubInv
<1> QED BY <1>1, HubCorrect, PTL

\* The registry never names a session whose Close has finished.
THEOREM RegistryAlwaysLive == Spec => []RegistryIsLive
<1>1. HubInv => RegistryIsLive
  BY DEF HubInv
<1> QED BY <1>1, HubCorrect, PTL

\* An open session that left the registry is always about to be closed by the
\* handler that displaced it, for any chain of replacements.
THEOREM OrphansAlwaysHaveCloser == Spec => []OrphanHasCloser
<1>1. HubInv => OrphanHasCloser
  BY DEF HubInv
<1> QED BY <1>1, HubCorrect, PTL

\* A closed session never holds more than one, late, membership.
THEOREM LateMembershipBounded == Spec => []LateMembershipBound
<1>1. HubInv => LateMembershipBound
  BY DEF HubInv
<1> QED BY <1>1, HubCorrect, PTL

\* No step deletes or overwrites a registry entry except a newer registration of
\* the same user or the close of the very session the entry names.
THEOREM RegistryEntryProtected == Spec => EntryOutlivesStaleCleanup
<1>1. HubInv /\ [Next]_vars => [EntryStep]_vars
  <2> SUFFICES ASSUME HubInv, Next PROVE EntryStep
    BY DEF vars, EntryStep
  <2>1. ASSUME NEW c \in Conn, Register(c) PROVE EntryStep
    BY <2>1 DEF HubInv, TypeOK, Lifecycle, Register, EntryStep
  <2>2. ASSUME NEW c \in Conn, Unregister(c) PROVE EntryStep
    BY <2>2 DEF HubInv, TypeOK, Unregister, EntryStep
  <2>3. CASE UNCHANGED clients
    BY <2>3 DEF EntryStep
  <2>4. ASSUME NEW c \in Conn,
               \/ HandlerStep(c) \/ \E cmd \in Command : ReadCommand(c, cmd)
               \/ ReadOther(c) \/ ReadFail(c) \/ Abort(c)
        PROVE  UNCHANGED clients
    BY <2>4 DEF HandlerStep, CloseReplaced, ReplacedClosed, StartRun, Reply, Enqueue,
                Join, Leave, Executed, CloseSelf, Exit, ReadCommand, ReadOther,
                ReadFail, Abort
  <2>5. CASE AllExited
    BY <2>5, <2>3 DEF AllExited, vars
  <2> QED BY <2>1, <2>2, <2>3, <2>4, <2>5 DEF Next, SessionStep
<1> QED BY <1>1, HubCorrect, PTL DEF Spec, EntryOutlivesStaleCleanup

--------------------------------------------------------------------------------
(* The room limit, which needs the memberships of a session to be finite. *)

FiniteMemberships == \A c \in Conn : IsFiniteSet(RoomsOf(c))

LimitInv == FiniteMemberships /\ RoomLimit

\* One more room stays finite, and within the limit Join has just checked.
LEMMA JoinWithinLimit ==
    ASSUME LimitInv, NEW c \in Conn, NEW r \in Room, ~ LimitReached(c, r)
    PROVE  /\ IsFiniteSet(RoomsOf(c) \cup {r})
           /\ MaxRooms > 0 => Cardinality(RoomsOf(c) \cup {r}) <= MaxRooms
<1>1. IsFiniteSet(RoomsOf(c)) /\ Cardinality(RoomsOf(c)) \in Nat
  BY FS_CardinalityType DEF LimitInv, FiniteMemberships
<1>2. /\ IsFiniteSet(RoomsOf(c) \cup {r})
      /\ Cardinality(RoomsOf(c) \cup {r}) =
           IF r \in RoomsOf(c) THEN Cardinality(RoomsOf(c)) ELSE Cardinality(RoomsOf(c)) + 1
  BY <1>1, FS_AddElement
<1>3. ASSUME MaxRooms > 0
      PROVE  Cardinality(RoomsOf(c) \cup {r}) <= MaxRooms
  <2>1. CASE r \in RoomsOf(c)
    BY <1>2, <1>3, <2>1 DEF LimitInv, RoomLimit
  <2>2. CASE r \notin RoomsOf(c) /\ c \in DOMAIN clientRooms
    BY <1>1, <1>2, <1>3, <2>2, MaxRoomsAssumption DEF LimitReached
  <2>3. CASE c \notin DOMAIN clientRooms
    <3>1. RoomsOf(c) = {}
      BY <2>3 DEF RoomsOf, Entry
    <3>2. Cardinality(RoomsOf(c)) = 0
      BY <3>1, FS_EmptySet
    <3> QED BY <1>2, <1>3, <3>1, <3>2, MaxRoomsAssumption
  <2> QED BY <2>1, <2>2, <2>3
<1> QED BY <1>2, <1>3

\* A step that adds no membership keeps the limit.
LEMMA ShrinkingKeepsLimit ==
    ASSUME LimitInv, \A c \in Conn : RoomsOf(c)' \subseteq RoomsOf(c)
    PROVE  LimitInv'
<1> SUFFICES ASSUME NEW c \in Conn
             PROVE  /\ IsFiniteSet(RoomsOf(c)')
                    /\ MaxRooms > 0 => Cardinality(RoomsOf(c)') <= MaxRooms
                    /\ \A r \in RoomsOf(c)' : <<UserOf[c], r>> \in JoinAllowed
  BY DEF LimitInv, FiniteMemberships, RoomLimit
<1>1. IsFiniteSet(RoomsOf(c)) /\ RoomsOf(c)' \in SUBSET RoomsOf(c)
  BY DEF LimitInv, FiniteMemberships
<1>2. IsFiniteSet(RoomsOf(c)') /\ Cardinality(RoomsOf(c)') <= Cardinality(RoomsOf(c))
  BY <1>1, FS_Subset
<1>3. Cardinality(RoomsOf(c)) \in Nat /\ Cardinality(RoomsOf(c)') \in Nat
  BY <1>1, <1>2, FS_CardinalityType
<1>4. MaxRooms > 0 => Cardinality(RoomsOf(c)) <= MaxRooms
  BY DEF LimitInv, RoomLimit
<1>5. MaxRooms > 0 => Cardinality(RoomsOf(c)') <= MaxRooms
  BY <1>2, <1>3, <1>4, MaxRoomsAssumption
<1> QED BY <1>1, <1>2, <1>5 DEF LimitInv, RoomLimit

\* No session is ever in more rooms than maxRoomsPerClient allows, nor in a room
\* its user may not join.
THEOREM RoomLimitHolds == Spec => []RoomLimit
<1>1. Init => LimitInv
  <2> SUFFICES ASSUME Init PROVE LimitInv
    OBVIOUS
  <2>1. \A c \in Conn : RoomsOf(c) = {}
    BY DEF Init, RoomsOf, Entry
  <2>2. IsFiniteSet({}) /\ Cardinality({}) = 0
    BY FS_EmptySet
  <2> QED BY <2>1, <2>2, MaxRoomsAssumption DEF LimitInv, FiniteMemberships, RoomLimit
<1>2. HubInv /\ LimitInv /\ [Next]_vars => LimitInv'
  <2> SUFFICES ASSUME HubInv, LimitInv, [Next]_vars PROVE LimitInv'
    OBVIOUS
  <2>1. CASE UNCHANGED clientRooms
    BY <2>1, ShrinkingKeepsLimit DEF RoomsOf, Entry
  <2>2. ASSUME NEW c \in Conn, Join(c) PROVE LimitInv'
    <3> DEFINE r == command[c].room
    <3>1. r \in Room
      BY <2>2 DEF HubInv, TypeOK, Join, Command
    <3>2. CASE /\ clientRooms' = Insert(clientRooms, c, r)
               /\ ~ LimitReached(c, r)
               /\ <<UserOf[c], r>> \in JoinAllowed
      <4>1. \A x \in Conn : RoomsOf(x)' = IF x = c THEN RoomsOf(c) \cup {r} ELSE RoomsOf(x)
        BY <3>2 DEF RoomsOf, Insert, Entry
      <4>2. /\ IsFiniteSet(RoomsOf(c) \cup {r})
            /\ MaxRooms > 0 => Cardinality(RoomsOf(c) \cup {r}) <= MaxRooms
        BY <3>1, <3>2, JoinWithinLimit
      <4>3. FiniteMemberships'
        BY <4>1, <4>2 DEF LimitInv, FiniteMemberships
      <4>4. RoomLimit'
        BY <4>1, <4>2, <3>2 DEF LimitInv, RoomLimit
      <4> QED BY <4>3, <4>4 DEF LimitInv
    <3> QED BY <2>1, <2>2, <3>2 DEF Join, indexes
  <2>3. ASSUME NEW c \in Conn, Leave(c) PROVE LimitInv'
    <3>1. \A x \in Conn : RoomsOf(x)' \subseteq RoomsOf(x)
      BY <2>3 DEF Leave, RoomsOf, Entry, Remove
    <3> QED BY <3>1, ShrinkingKeepsLimit
  <2>4. ASSUME NEW c \in Conn, Unregister(c) PROVE LimitInv'
    <3>1. \A x \in Conn : RoomsOf(x)' \subseteq RoomsOf(x)
      BY <2>4 DEF Unregister, RoomsOf, Entry, Delete
    <3> QED BY <3>1, ShrinkingKeepsLimit
  <2>5. ASSUME NEW c \in Conn,
               \/ Register(c) \/ CloseReplaced(c) \/ ReplacedClosed(c) \/ StartRun(c)
               \/ Reply(c) \/ CloseSelf(c) \/ Exit(c) \/ ReadOther(c) \/ ReadFail(c)
               \/ Abort(c) \/ \E cmd \in Command : ReadCommand(c, cmd)
        PROVE  UNCHANGED clientRooms
    BY <2>5 DEF Register, CloseReplaced, ReplacedClosed, StartRun, Reply, Enqueue,
                CloseSelf, Exit, ReadOther, ReadFail, Abort, ReadCommand
  <2>6. CASE UNCHANGED vars
    BY <2>6, <2>1 DEF vars
  <2> QED BY <2>1, <2>2, <2>3, <2>4, <2>5, <2>6 DEF Next, SessionStep, HandlerStep, AllExited
<1>3. LimitInv => RoomLimit
  BY DEF LimitInv
<1> QED BY <1>1, <1>2, <1>3, HubCorrect, PTL DEF Spec
================================================================================

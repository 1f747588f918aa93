----------------------------- MODULE MetricsProofs -----------------------------
(******************************************************************************)
(* Proofs about Metrics, for any number of read loops and any bounds.         *)
(*                                                                            *)
(* Counters are compared by counting the sessions between them: each read     *)
(* loop has at most one message that one counter has and the next has not.    *)
(* A snapshot is compared with the counters it has still to load, which have  *)
(* only grown since it loaded the others.                                     *)
(******************************************************************************)
EXTENDS Metrics, FiniteSetTheorems, TLAPS

--------------------------------------------------------------------------------
(* The inductive invariant. *)

\* What a read loop has done with the message it has received and not settled.
Unread == {"received", "retrying", "swapping", "queued", "added", "counted", "stopped"}
Labels == Unread \cup {"reading", "typed"}

\* Sessions that are at one of the places in P.
In(P) == {s \in Session : reader[s] \in P}
Count(P) == Cardinality(In(P))

MetricsTypeOK ==
    /\ counter \in [Names -> Nat] /\ snapshot \in [Names -> Nat]
    /\ reader \in [Session -> Labels]
    /\ depth \in [Session -> Nat] /\ current \in [Session -> Nat]
    /\ loaded \in 0..8

\* A swap that succeeds raises the maximum.
DepthInv ==
    /\ DepthIsHighest
    /\ \A s \in Session : reader[s] = "swapping" => current[s] < depth[s]

\* How the counters are related at any time.
Typed(f) == f["room.join"] + f["unknown"]
Settled(f) == f["success"] + f["error"]
CounterInv ==
    /\ counter["received"] = Typed(counter) + Count(Unread)
    /\ Typed(counter) = Settled(counter) + Count({"typed"})
    /\ counter["count"] = Settled(counter) + Count({"counted", "typed"})
LatencyInv == counter["total"] <= MaxLatency * (counter["count"] + Count({"added"}))

\* What a reader of the counters sees of x: what it has loaded, or will load.
Seen(x) == IF \E i \in 1..loaded : LoadOrder[i] = x THEN snapshot[x] ELSE counter[x]

\* The same for a snapshot that goes on with the counters as they are; no counter
\* has fallen since it was loaded.
SnapshotInv ==
    LET sessions == Cardinality(Session) IN
    /\ \A x \in Names : Seen(x) <= counter[x]
    /\ Seen("received") <= Seen("room.join") + Seen("unknown") + sessions
    /\ Seen("room.join") + Seen("unknown") <= Seen("success") + Seen("error") + sessions
    /\ Seen("success") + Seen("error") <= Seen("count")
    /\ Seen("total") <= MaxLatency * (Seen("count") + sessions)

MetricsInv == MetricsTypeOK /\ DepthInv /\ CounterInv /\ LatencyInv /\ SnapshotInv

--------------------------------------------------------------------------------
(* Names, places and numbers. *)

USE MetricsAssumption, SessionAssumption

\* The counters, in the order of LoadOrder.
LEMMA NamesAre ==
    /\ Names = {"received", "room.join", "unknown", "success", "error", "depth", "total", "count"}
    /\ Len(LoadOrder) = 8
    /\ \A i \in 1..8 : LoadOrder[i] \in Names
    /\ \A i, j \in 1..8 : LoadOrder[i] = LoadOrder[j] => i = j
BY DEF Names, LoadOrder

\* A bound per message is a bound for more messages.
LEMMA TimesMonotone ==
    ASSUME NEW m \in Nat, NEW a \in Nat, NEW b \in Nat, a <= b
    PROVE  m * a <= m * b
OBVIOUS

\* A session that moves changes the number of those at P by at most one.
LEMMA CountMoves ==
    ASSUME NEW P, NEW s \in Session, NEW to, DOMAIN reader = Session,
           reader' = [reader EXCEPT ![s] = to]
    PROVE  /\ Count(P) \in 0..Cardinality(Session) /\ Count(P)' \in 0..Cardinality(Session)
           /\ Count(P)' = IF to \in P /\ reader[s] \notin P THEN Count(P) + 1
                          ELSE IF to \notin P /\ reader[s] \in P THEN Count(P) - 1
                          ELSE Count(P)
<1>1. /\ IsFiniteSet(In(P)) /\ IsFiniteSet(In(P)')
      /\ Count(P) <= Cardinality(Session) /\ Count(P)' <= Cardinality(Session)
  BY FS_Subset DEF In, Count
<1>2. Count(P) \in Nat /\ Count(P)' \in Nat /\ Cardinality(Session) \in Nat
  BY <1>1, FS_CardinalityType DEF Count
<1>3. In(P)' = IF to \in P THEN In(P) \cup {s} ELSE In(P) \ {s}
  BY DEF In
<1>4. s \in In(P) <=> reader[s] \in P
  BY DEF In
<1>5. /\ Cardinality(In(P) \cup {s}) = IF s \in In(P) THEN Count(P) ELSE Count(P) + 1
      /\ Cardinality(In(P) \ {s}) = IF s \in In(P) THEN Count(P) - 1 ELSE Count(P)
  BY <1>1, FS_AddElement, FS_RemoveElement DEF Count
<1>6. Count(P)' = IF to \in P THEN Cardinality(In(P) \cup {s}) ELSE Cardinality(In(P) \ {s})
  BY <1>3 DEF Count
<1> QED BY <1>1, <1>2, <1>4, <1>5, <1>6
\* One more message.
LEMMA TimesSuccessor ==
    ASSUME NEW m \in Nat, NEW a \in Nat
    PROVE  m * (a + 1) = m * a + m
OBVIOUS

\* No more sessions are at P than there are.
LEMMA CountBounded ==
    ASSUME NEW P
    PROVE  Cardinality(Session) \in Nat
           /\ Count(P) \in 0..Cardinality(Session) /\ Count(P)' \in 0..Cardinality(Session)
<1>1. /\ IsFiniteSet(In(P)) /\ IsFiniteSet(In(P)')
      /\ Count(P) <= Cardinality(Session) /\ Count(P)' <= Cardinality(Session)
  BY FS_Subset DEF In, Count
<1> QED BY <1>1, FS_CardinalityType DEF Count

--------------------------------------------------------------------------------
(* The counters. *)

\* A step that leaves the five related places and their counters alone.
LEMMA DepthSteps ==
    ASSUME MetricsInv, NEW s \in Session, LoadDepth(s) \/ SwapDepth(s)
    PROVE  /\ MetricsTypeOK' /\ DepthInv' /\ CounterInv' /\ LatencyInv'
           /\ \A x \in Names : counter[x] <= counter'[x]
<1> USE DEF MetricsInv
<1>0. PICK to \in {"queued", "swapping", "retrying"} : reader' = [reader EXCEPT ![s] = to]
  BY DEF LoadDepth, SwapDepth
<1>1. reader[s] \in {"received", "retrying", "swapping"}
  BY DEF LoadDepth, SwapDepth
<1>2. \/ UNCHANGED counter
      \/ counter["depth"] < depth[s] /\ counter' = [counter EXCEPT !["depth"] = depth[s]]
  BY DEF LoadDepth, SwapDepth, DepthInv
<1>3. MetricsTypeOK'
  <2>1. reader' \in [Session -> Labels] /\ counter' \in [Names -> Nat]
    BY <1>0, <1>2, NamesAre DEF MetricsTypeOK, Labels, Unread
  <2>2. counter["depth"] \in Nat
    BY NamesAre DEF MetricsTypeOK
  <2>3. depth' \in [Session -> Nat] /\ current' \in [Session -> Nat]
    BY <2>2 DEF LoadDepth, SwapDepth, MetricsTypeOK
  <2> QED BY <2>1, <2>3 DEF LoadDepth, SwapDepth, MetricsTypeOK
<1>4. \A x \in Names : counter[x] <= counter'[x] /\ (x # "depth" => counter'[x] = counter[x])
  BY <1>2, NamesAre DEF MetricsTypeOK
<1>5. DepthInv'
  <2>1. \A t \in Session \ {s} : reader'[t] = reader[t] /\ depth'[t] = depth[t] /\ current'[t] = current[t]
    BY DEF LoadDepth, SwapDepth, MetricsTypeOK
  <2>2. counter["depth"] <= counter'["depth"] /\ counter["depth"] \in Nat /\ counter'["depth"] \in Nat
    BY <1>3, <1>4, NamesAre DEF MetricsTypeOK
  <2>3. /\ reader'[s] = "swapping" => current'[s] < depth'[s]
        /\ reader'[s] \notin {"swapping", "retrying"} => depth'[s] <= counter'["depth"]
    BY <2>2, NamesAre DEF LoadDepth, SwapDepth, MetricsTypeOK
  <2>4. \A t \in Session : depth[t] \in Nat
    BY DEF MetricsTypeOK
  <2> QED BY <2>1, <2>2, <2>3, <2>4 DEF DepthInv, DepthIsHighest
<1>6. CounterInv' /\ LatencyInv'
  <2>1. /\ Count(Unread)' = Count(Unread) /\ Count({"typed"})' = Count({"typed"})
        /\ Count({"counted", "typed"})' = Count({"counted", "typed"})
        /\ Count({"added"})' = Count({"added"})
    BY <1>0, <1>1, CountMoves DEF MetricsTypeOK, Unread
  <2> QED BY <1>4, <2>1, NamesAre DEF CounterInv, LatencyInv, Typed, Settled
<1> QED BY <1>3, <1>4, <1>5, <1>6

\* A step that counts something keeps the depths and adds to one counter.
LEMMA CountingSteps ==
    ASSUME MetricsInv, NEW s \in Session, NEW from \in Labels, NEW to \in Labels,
           ReadStep(s, from, to), NEW x \in Names \ {"depth"}, NEW n \in Nat, Add(x, n),
           from \notin {"swapping", "retrying"}, to # "swapping"
    PROVE  MetricsTypeOK' /\ DepthInv' /\ \A y \in Names : counter[y] <= counter'[y]
<1> USE DEF MetricsInv, MetricsTypeOK, ReadStep, Add
<1>1. MetricsTypeOK'
  OBVIOUS
<1>2. \A y \in Names : counter[y] <= counter'[y]
  OBVIOUS
<1>3. counter'["depth"] = counter["depth"]
  BY NamesAre
<1>4. DepthInv'
  BY <1>3 DEF DepthInv, DepthIsHighest
<1> QED BY <1>1, <1>2, <1>4

\* What a read loop that moves does to the number of sessions between counters.
Moved(P, from, to) ==
    Count(P)' = IF to \in P /\ from \notin P THEN Count(P) + 1
                ELSE IF to \notin P /\ from \in P THEN Count(P) - 1
                ELSE Count(P)

\* The same for the four differences that are compared.
LEMMA DifferencesMove ==
    ASSUME NEW s \in Session, NEW from, NEW to, ReadStep(s, from, to), MetricsTypeOK
    PROVE  /\ Moved(Unread, from, to) /\ Moved({"typed"}, from, to)
           /\ Moved({"counted", "typed"}, from, to) /\ Moved({"added"}, from, to)
<1>1. /\ DOMAIN reader = Session /\ reader[s] = from
      /\ reader' = [reader EXCEPT ![s] = to]
  BY DEF MetricsTypeOK, ReadStep
<1>2. ASSUME NEW P PROVE Moved(P, from, to)
  BY <1>1, CountMoves DEF Moved
<1> QED BY <1>2

\* Each counting step moves one session across one of the differences, and
\* changes the counter on that side.
LEMMA ReadStepsKeepCounters ==
    ASSUME MetricsInv, NEW s \in Session,
           \/ Receive(s) \/ DeadlineFails(s) \/ AddLatency(s)
           \/ CountLatency(s) \/ CountType(s) \/ CountResult(s)
    PROVE  /\ MetricsTypeOK' /\ DepthInv' /\ CounterInv' /\ LatencyInv'
           /\ \A x \in Names : counter[x] <= counter'[x]
<1> USE DEF MetricsInv
<1> DEFINE U == Count(Unread)  T == Count({"typed"})  C == Count({"counted", "typed"})
           A == Count({"added"})
<1>0. /\ \A x \in Names : counter[x] \in Nat
      /\ DOMAIN reader = Session /\ counter \in [Names -> Nat]
      /\ U \in Nat /\ T \in Nat /\ C \in Nat /\ A \in Nat
  BY CountBounded DEF MetricsTypeOK
<1>1. CASE Receive(s)
  <2>1. U' = U + 1 /\ T' = T /\ C' = C /\ A' = A
    BY <1>1, DifferencesMove DEF Receive, Moved, Unread
  <2>0. /\ counter'["received"] = counter["received"] + 1
        /\ \A x \in Names \ {"received"} : counter'[x] = counter[x]
    BY <1>0, <1>1, NamesAre DEF Receive, Add
  <2>2. CounterInv' /\ LatencyInv'
    BY <1>0, <2>0, <2>1, NamesAre DEF CounterInv, LatencyInv, Typed, Settled
  <2> QED BY <1>1, <2>2, CountingSteps, NamesAre DEF Receive, Labels, Unread
<1>2. CASE DeadlineFails(s)
  <2>1. U' = U /\ T' = T /\ C' = C /\ A' = A
    BY <1>2, DifferencesMove DEF DeadlineFails, Moved, Unread
  <2>2. CounterInv' /\ LatencyInv'
    BY <1>2, <2>1 DEF DeadlineFails, CounterInv, LatencyInv, Typed, Settled
  <2>3. MetricsTypeOK' /\ DepthInv'
    BY <1>2 DEF DeadlineFails, ReadStep, MetricsTypeOK, DepthInv, DepthIsHighest, Labels, Unread
  <2> QED BY <1>0, <1>2, <2>2, <2>3 DEF DeadlineFails
<1>3. CASE AddLatency(s)
  <2>1. U' = U /\ T' = T /\ C' = C /\ A' = A + 1
    BY <1>3, DifferencesMove DEF AddLatency, Moved, Unread
  <2>2. PICK n \in 1..MaxLatency : Add("total", n)
    BY <1>3 DEF AddLatency
  <2>3. MaxLatency * (counter["count"] + A + 1) = MaxLatency * (counter["count"] + A) + MaxLatency
    BY <1>0, NamesAre, TimesSuccessor
  <2>4. /\ counter'["total"] = counter["total"] + n
        /\ \A x \in Names \ {"total"} : counter'[x] = counter[x]
    BY <1>0, <2>2, NamesAre DEF Add
  <2>5. MaxLatency * (counter["count"] + A) \in Nat
    BY <1>0, NamesAre
  <2>6. counter'["total"] <= MaxLatency * (counter'["count"] + A')
    <3>1. counter'["count"] + A' = counter["count"] + A + 1
      BY <1>0, <2>1, <2>4, NamesAre
    <3>2. counter["total"] <= MaxLatency * (counter["count"] + A) /\ counter["total"] \in Nat
      BY <1>0, NamesAre DEF LatencyInv
    <3>3. counter'["total"] <= MaxLatency * (counter["count"] + A) + MaxLatency
      BY <2>4, <2>5, <3>2
    <3> QED BY <2>3, <3>1, <3>3
  <2>7. CounterInv'
    BY <1>0, <2>1, <2>4, NamesAre DEF CounterInv, Typed, Settled
  <2>8. LatencyInv'
    BY <2>6 DEF LatencyInv
  <2> QED BY <1>3, <2>2, <2>7, <2>8, CountingSteps, NamesAre DEF AddLatency, Labels, Unread
<1>4. CASE CountLatency(s)
  <2>1. U' = U /\ T' = T /\ C' = C + 1 /\ A' = A - 1
    BY <1>4, DifferencesMove DEF CountLatency, Moved, Unread
  <2>2. /\ counter'["count"] = counter["count"] + 1
        /\ \A x \in Names \ {"count"} : counter'[x] = counter[x]
    BY <1>0, <1>4, NamesAre DEF CountLatency, Add
  <2>3. counter'["count"] + A' = counter["count"] + A
    BY <1>0, <2>1, <2>2, NamesAre
  <2>4. CounterInv'
    BY <1>0, <2>1, <2>2, NamesAre DEF CounterInv, Typed, Settled
  <2>5. LatencyInv'
    BY <2>2, <2>3, NamesAre DEF LatencyInv
  <2> QED BY <1>4, <2>4, <2>5, CountingSteps, NamesAre DEF CountLatency, Labels, Unread
<1>5. CASE CountType(s)
  <2>1. U' = U - 1 /\ T' = T + 1 /\ C' = C /\ A' = A
    BY <1>5, DifferencesMove DEF CountType, Moved, Unread
  <2>2. PICK t \in Types : Add(t, 1)
    BY <1>5 DEF CountType
  <2>3. CounterInv'
    <3>1. CASE t = "room.join"
      <4>1. /\ counter'["room.join"] = counter["room.join"] + 1
            /\ \A x \in Names \ {"room.join"} : counter'[x] = counter[x]
        BY <1>0, <2>2, <3>1, NamesAre DEF Add
      <4> QED BY <1>0, <2>1, <4>1, NamesAre DEF CounterInv, Typed, Settled
    <3>2. CASE t = "unknown"
      <4>1. /\ counter'["unknown"] = counter["unknown"] + 1
            /\ \A x \in Names \ {"unknown"} : counter'[x] = counter[x]
        BY <1>0, <2>2, <3>2, NamesAre DEF Add
      <4> QED BY <1>0, <2>1, <4>1, NamesAre DEF CounterInv, Typed, Settled
    <3> QED BY <3>1, <3>2 DEF Types
  <2>4. LatencyInv'
    BY <1>0, <2>1, <2>2, NamesAre DEF Add, Types, LatencyInv
  <2> QED BY <1>5, <2>2, <2>3, <2>4, CountingSteps, NamesAre DEF CountType, Labels, Unread, Types
<1>6. CASE CountResult(s)
  <2>1. U' = U /\ T' = T - 1 /\ C' = C - 1 /\ A' = A
    BY <1>6, DifferencesMove DEF CountResult, Moved, Unread
  <2>2. PICK r \in Results : Add(r, 1)
    BY <1>6 DEF CountResult
  <2>3. CounterInv'
    <3>1. CASE r = "success"
      <4>1. /\ counter'["success"] = counter["success"] + 1
            /\ \A x \in Names \ {"success"} : counter'[x] = counter[x]
        BY <1>0, <2>2, <3>1, NamesAre DEF Add
      <4> QED BY <1>0, <2>1, <4>1, NamesAre DEF CounterInv, Typed, Settled
    <3>2. CASE r = "error"
      <4>1. /\ counter'["error"] = counter["error"] + 1
            /\ \A x \in Names \ {"error"} : counter'[x] = counter[x]
        BY <1>0, <2>2, <3>2, NamesAre DEF Add
      <4> QED BY <1>0, <2>1, <4>1, NamesAre DEF CounterInv, Typed, Settled
    <3> QED BY <3>1, <3>2 DEF Results
  <2>4. LatencyInv'
    BY <1>0, <2>1, <2>2, NamesAre DEF Add, Results, LatencyInv
  <2> QED BY <1>6, <2>2, <2>3, <2>4, CountingSteps, NamesAre DEF CountResult, Labels, Unread, Results
<1> QED BY <1>1, <1>2, <1>3, <1>4, <1>5, <1>6
--------------------------------------------------------------------------------
(* The snapshot. *)

\* The four comparisons, of the counters themselves.
CountersAddUp ==
    LET sessions == Cardinality(Session) IN
    /\ counter["received"] <= counter["room.join"] + counter["unknown"] + sessions
    /\ counter["room.join"] + counter["unknown"] <= counter["success"] + counter["error"] + sessions
    /\ counter["success"] + counter["error"] <= counter["count"]
    /\ counter["total"] <= MaxLatency * (counter["count"] + sessions)

\* Every session has at most one message between two counters.
LEMMA CountersDoAddUp == MetricsTypeOK /\ CounterInv /\ LatencyInv => CountersAddUp
<1> SUFFICES ASSUME MetricsTypeOK, CounterInv, LatencyInv PROVE CountersAddUp
  OBVIOUS
<1>1. /\ \A P : Count(P) \in Nat /\ Count(P) <= Cardinality(Session)
      /\ Cardinality(Session) \in Nat
  BY CountBounded
<1>2. \A x \in Names : counter[x] \in Nat
  BY DEF MetricsTypeOK
<1>3. /\ counter["received"] <= Typed(counter) + Cardinality(Session)
      /\ Typed(counter) <= Settled(counter) + Cardinality(Session)
      /\ Settled(counter) <= counter["count"]
  BY <1>1, <1>2, NamesAre DEF CounterInv, Typed, Settled
<1>4. counter["total"] <= MaxLatency * (counter["count"] + Cardinality(Session))
  <2>1. MaxLatency * (counter["count"] + Count({"added"}))
          <= MaxLatency * (counter["count"] + Cardinality(Session))
    BY <1>1, <1>2, NamesAre, TimesMonotone
  <2>2. /\ MaxLatency * (counter["count"] + Count({"added"})) \in Nat
        /\ MaxLatency * (counter["count"] + Cardinality(Session)) \in Nat
    BY <1>1, <1>2, NamesAre
  <2> QED BY <1>2, <2>1, <2>2, NamesAre DEF LatencyInv
<1> QED BY <1>3, <1>4 DEF CountersAddUp, Typed, Settled

\* The same after a step.
LEMMA CountersStillAddUp == (MetricsTypeOK /\ CounterInv /\ LatencyInv => CountersAddUp)'
BY CountersDoAddUp, PTL

\* Counters that grow keep the comparisons with a snapshot in progress.
LEMMA GrowthKeepsSnapshot ==
    ASSUME MetricsInv, MetricsTypeOK', CountersAddUp', UNCHANGED <<loaded, snapshot>>,
           \A x \in Names : counter[x] <= counter'[x]
    PROVE  SnapshotInv'
<1> USE DEF MetricsInv
<1> DEFINE N == Cardinality(Session)
<1>0. N \in Nat
  BY CountBounded
<1>1. \A x \in Names : Seen(x) \in Nat /\ Seen(x)' \in Nat /\ counter[x] \in Nat /\ counter'[x] \in Nat
  BY DEF MetricsTypeOK, Seen
<1>2. \A x \in Names : Seen(x) <= Seen(x)' /\ Seen(x)' <= counter'[x]
  BY <1>1 DEF Seen, SnapshotInv
<1>3. /\ loaded >= 1 => Seen("received")' = Seen("received")
      /\ loaded >= 2 => Seen("room.join")' = Seen("room.join")
      /\ loaded >= 3 => Seen("unknown")' = Seen("unknown")
      /\ loaded >= 4 => Seen("success")' = Seen("success")
      /\ loaded >= 5 => Seen("error")' = Seen("error")
      /\ loaded >= 7 => Seen("total")' = Seen("total")
  <2>1. \A x : (\E i \in 1..loaded : LoadOrder[i] = x) => Seen(x)' = Seen(x)
    BY DEF Seen
  <2>2. \A i \in 1..8 : i <= loaded => Seen(LoadOrder[i])' = Seen(LoadOrder[i])
    BY <2>1 DEF MetricsTypeOK
  <2> QED BY <2>2 DEF LoadOrder
<1>4. /\ loaded < 1 => Seen("room.join")' = counter'["room.join"]
      /\ loaded < 3 => Seen("unknown")' = counter'["unknown"]
      /\ loaded < 3 => Seen("success")' = counter'["success"]
      /\ loaded < 5 => Seen("error")' = counter'["error"]
      /\ loaded < 8 => Seen("count")' = counter'["count"]
  <2>1. \A x : ~ (\E i \in 1..loaded : LoadOrder[i] = x) => Seen(x)' = counter'[x]
    BY DEF Seen
  <2>2. \A i \in 1..8 : ~ (i <= loaded) => ~ \E j \in 1..loaded : LoadOrder[j] = LoadOrder[i]
    BY NamesAre DEF MetricsTypeOK
  <2>3. \A i \in 1..8 : ~ (i <= loaded) => Seen(LoadOrder[i])' = counter'[LoadOrder[i]]
    BY <2>1, <2>2
  <2> QED BY <2>3 DEF LoadOrder, MetricsTypeOK
<1>5. Seen("received")' <= Seen("room.join")' + Seen("unknown")' + N
  <2>1. CASE loaded >= 1
    BY <1>0, <1>1, <1>2, <1>3, <2>1, NamesAre DEF SnapshotInv
  <2>2. CASE loaded < 1
    BY <1>0, <1>1, <1>2, <1>4, <2>2, NamesAre DEF CountersAddUp, MetricsTypeOK
  <2> QED BY <2>1, <2>2 DEF MetricsTypeOK
<1>6. Seen("room.join")' + Seen("unknown")' <= Seen("success")' + Seen("error")' + N
  <2>1. CASE loaded >= 3
    BY <1>0, <1>1, <1>2, <1>3, <2>1, NamesAre DEF SnapshotInv, MetricsTypeOK
  <2>2. CASE loaded < 3
    BY <1>0, <1>1, <1>2, <1>4, <2>2, NamesAre DEF CountersAddUp, MetricsTypeOK
  <2> QED BY <2>1, <2>2 DEF MetricsTypeOK
<1>7. Seen("success")' + Seen("error")' <= Seen("count")'
  <2>1. CASE loaded >= 5
    BY <1>1, <1>2, <1>3, <2>1, NamesAre DEF SnapshotInv, MetricsTypeOK
  <2>2. CASE loaded < 5
    BY <1>1, <1>2, <1>4, <2>2, NamesAre DEF CountersAddUp, MetricsTypeOK
  <2> QED BY <2>1, <2>2 DEF MetricsTypeOK
<1>8. Seen("total")' <= MaxLatency * (Seen("count")' + N)
  <2>1. CASE loaded >= 7
    <3>1. MaxLatency * (Seen("count") + N) <= MaxLatency * (Seen("count")' + N)
      BY <1>0, <1>1, <1>2, NamesAre, TimesMonotone
    <3>2. MaxLatency * (Seen("count") + N) \in Nat /\ MaxLatency * (Seen("count")' + N) \in Nat
      BY <1>0, <1>1, NamesAre
    <3>3. Seen("total")' <= MaxLatency * (Seen("count") + N) /\ Seen("total")' \in Nat
      BY <1>1, <1>3, <2>1, NamesAre DEF SnapshotInv
    <3> QED BY <3>1, <3>2, <3>3
  <2>2. CASE loaded < 7
    <3>1. Seen("count")' = counter'["count"]
      BY <1>4, <2>2 DEF MetricsTypeOK
    <3>2. MaxLatency * (counter'["count"] + N) \in Nat
      BY <1>0, <1>1, NamesAre
    <3>3. /\ Seen("total")' <= counter'["total"] /\ counter'["total"] <= MaxLatency * (counter'["count"] + N)
          /\ Seen("total")' \in Nat /\ counter'["total"] \in Nat
      BY <1>1, <1>2, NamesAre DEF CountersAddUp
    <3> QED BY <3>1, <3>2, <3>3
  <2> QED BY <2>1, <2>2 DEF MetricsTypeOK
<1> QED BY <1>2, <1>5, <1>6, <1>7, <1>8 DEF SnapshotInv

\* Loading a counter changes nothing of what is seen; a new snapshot sees the
\* counters.
LEMMA LoadKeepsSnapshot ==
    ASSUME MetricsInv, Load
    PROVE  MetricsInv'
<1> USE DEF MetricsInv
<1>1. CASE loaded < Len(LoadOrder)
  <2> DEFINE x == LoadOrder[loaded + 1]
  <2>1. /\ loaded' = loaded + 1 /\ loaded + 1 \in 1..8 /\ x \in Names /\ loaded \in Nat
        /\ snapshot' = [snapshot EXCEPT ![x] = counter[x]]
    BY <1>1, NamesAre DEF Load, MetricsTypeOK
  <2>2. UNCHANGED <<counter, reader, depth, current>>
    BY DEF Load
  <2>3. MetricsTypeOK'
    BY <2>1, <2>2 DEF MetricsTypeOK
  <2>4. ~ \E i \in 1..loaded : LoadOrder[i] = x
    BY <2>1, NamesAre
  <2>5. \A y \in Names : (\E i \in 1..loaded' : LoadOrder[i] = y)
                           <=> y = x \/ (\E i \in 1..loaded : LoadOrder[i] = y)
    BY <2>1
  <2>6. \A y \in Names : snapshot'[y] = IF y = x THEN counter[x] ELSE snapshot[y]
    BY <2>1 DEF MetricsTypeOK
  <2> HIDE DEF x
  <2>7. \A y \in Names : Seen(y)' = Seen(y)
    BY <2>2, <2>4, <2>5, <2>6 DEF Seen
  <2>8. SnapshotInv'
    BY <2>2, <2>7, NamesAre DEF SnapshotInv
  <2> QED BY <2>2, <2>3, <2>8 DEF DepthInv, DepthIsHighest, CounterInv, LatencyInv, Typed, Settled, Count, In
<1>2. CASE ~ (loaded < Len(LoadOrder))
  <2>1. loaded' = 0 /\ snapshot' = Zero /\ UNCHANGED <<counter, reader, depth, current>>
    BY <1>2 DEF Load
  <2>2. MetricsTypeOK'
    BY <2>1 DEF MetricsTypeOK, Zero
  <2>3. \A y \in Names : Seen(y)' = counter[y] /\ counter[y] \in Nat
    BY <2>1 DEF Seen, MetricsTypeOK
  <2>4. SnapshotInv'
    BY <2>1, <2>3, CountersDoAddUp, NamesAre DEF SnapshotInv, CountersAddUp
  <2> QED BY <2>1, <2>2, <2>4 DEF DepthInv, DepthIsHighest, CounterInv, LatencyInv, Typed, Settled, Count, In
<1> QED BY <1>1, <1>2
--------------------------------------------------------------------------------
(* Theorems. *)

\* Fresh metrics satisfy the invariant.
LEMMA InitMetricsInv == MetricsInit => MetricsInv
<1> SUFFICES ASSUME MetricsInit PROVE MetricsInv
  OBVIOUS
<1>1. MetricsTypeOK
  BY DEF MetricsInit, MetricsTypeOK, Zero, Labels
<1>2. \A x \in Names : counter[x] = 0
  BY DEF MetricsInit, Zero
<1>3. DepthInv
  BY <1>2, NamesAre DEF MetricsInit, DepthInv, DepthIsHighest
<1>4. /\ Count(Unread) = 0 /\ Count({"typed"}) = 0 /\ Count({"counted", "typed"}) = 0
      /\ Count({"added"}) = 0
  <2>1. ASSUME NEW P, "reading" \notin P PROVE Count(P) = 0
    <3>1. In(P) = {}
      BY <2>1 DEF MetricsInit, In
    <3> QED BY <3>1, FS_EmptySet DEF Count
  <2> QED BY <2>1 DEF Unread
<1>5. CounterInv
  BY <1>2, <1>4, NamesAre DEF CounterInv, Typed, Settled
<1>6. LatencyInv
  BY <1>2, <1>4, NamesAre DEF LatencyInv
<1>7. \A x \in Names : Seen(x) = counter[x]
  BY DEF MetricsInit, Seen
<1>8. SnapshotInv
  BY <1>1, <1>2, <1>5, <1>6, <1>7, CountersDoAddUp, NamesAre DEF SnapshotInv, CountersAddUp
<1> QED BY <1>1, <1>3, <1>5, <1>6, <1>8 DEF MetricsInv

\* Every step preserves the invariant.
LEMMA NextMetricsInv == MetricsInv /\ [MetricsNext]_metricsVars => MetricsInv'
<1> SUFFICES ASSUME MetricsInv, [MetricsNext]_metricsVars PROVE MetricsInv'
  OBVIOUS
<1>1. ASSUME NEW s \in Session,
             \/ Receive(s) \/ DeadlineFails(s) \/ LoadDepth(s) \/ SwapDepth(s)
             \/ AddLatency(s) \/ CountLatency(s) \/ CountType(s) \/ CountResult(s)
      PROVE  MetricsInv'
  <2>1. UNCHANGED <<loaded, snapshot>>
    BY <1>1 DEF Receive, DeadlineFails, LoadDepth, SwapDepth, AddLatency, CountLatency, CountType,
       CountResult, ReadStep
  <2>2. /\ MetricsTypeOK' /\ DepthInv' /\ CounterInv' /\ LatencyInv'
        /\ \A x \in Names : counter[x] <= counter'[x]
    BY <1>1, DepthSteps, ReadStepsKeepCounters
  <2>3. CountersAddUp'
    BY <2>2, CountersStillAddUp
  <2> QED BY <2>1, <2>2, <2>3, GrowthKeepsSnapshot DEF MetricsInv
<1>2. CASE UNCHANGED metricsVars
  BY <1>2 DEF metricsVars, MetricsInv, MetricsTypeOK, DepthInv, DepthIsHighest, CounterInv,
     LatencyInv, SnapshotInv, Seen, Typed, Settled, Count, In
<1> QED BY <1>1, <1>2, LoadKeepsSnapshot DEF MetricsNext

\* Every reachable state satisfies the invariant.
THEOREM MetricsCorrect == MetricsSpec => []MetricsInv
BY InitMetricsInv, NextMetricsInv, PTL DEF MetricsSpec

\* UpdateMaxQueueDepth loses no update, however many race.
THEOREM DepthAlwaysHighest == MetricsSpec => []DepthIsHighest
<1>1. MetricsInv => DepthIsHighest
  BY DEF MetricsInv, DepthInv
<1> QED BY <1>1, MetricsCorrect, PTL

\* Snapshot, which stops nobody, returns numbers that fit together, up to one
\* message per read loop.
THEOREM SnapshotsAddUp == MetricsSpec => []SnapshotAddsUp
<1>1. MetricsInv => SnapshotAddsUp
  <2> SUFFICES ASSUME MetricsInv, loaded = Len(LoadOrder) PROVE SnapshotAddsUp
    BY DEF SnapshotAddsUp
  <2>1. \A x \in Names : Seen(x) = snapshot[x]
    <3>1. \A x \in Names : \E i \in 1..loaded : LoadOrder[i] = x
      BY DEF Names
    <3> QED BY <3>1 DEF Seen
  <2> QED BY <2>1, NamesAre DEF SnapshotAddsUp, MetricsInv, SnapshotInv
<1> QED BY <1>1, MetricsCorrect, PTL
================================================================================

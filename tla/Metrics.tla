--------------------------------- MODULE Metrics -------------------------------
(******************************************************************************)
(* The process-wide metrics: counters that the read loops change one atomic   *)
(* operation at a time, and the snapshot of the metrics endpoint, which loads *)
(* them one after another while they change.                                  *)
(*                                                                            *)
(* A counter is named for its field.  Two of the five message types stand for *)
(* all; counters that no other is compared with are left out.                 *)
(******************************************************************************)
EXTENDS Naturals, Sequences, FiniteSets

CONSTANTS
    Session,      \* read loops
    MaxMessages,  \* bound: messages received
    MaxLatency,   \* bound: duration of processing one message
    MaxDepth      \* bound: length of a send queue

ASSUME MetricsAssumption ==
    /\ {MaxMessages, MaxDepth} \subseteq Nat
    /\ MaxLatency \in Nat \ {0}   \* what is shorter than 1 ns counts as 1 ns
ASSUME SessionAssumption == IsFiniteSet(Session)

VARIABLES
    counter,      \* every counter
    reader,       \* what each read loop did last
    depth,        \* the depth it last called UpdateMaxQueueDepth with
    current,      \* the maximum that call has loaded and would replace
    loaded,       \* how many counters Snapshot has loaded
    snapshot      \* what it has loaded

metricsVars == <<counter, reader, depth, current, loaded, snapshot>>

Types == {"room.join", "unknown"}
Results == {"success", "error"}

\* Mutant of LoadOrder: the latency count is loaded before the total.
LoadOrderSwapped ==
    <<"received", "room.join", "unknown", "success", "error", "depth", "count", "total">>

\* Snapshot loads the counters in this order.
LoadOrder ==
    <<"received", "room.join", "unknown", "success", "error", "depth", "total", "count">>

Names == {LoadOrder[i] : i \in DOMAIN LoadOrder}
Zero == [x \in Names |-> 0]

MetricsInit ==
    /\ counter = Zero /\ snapshot = Zero /\ loaded = 0
    /\ reader = [s \in Session |-> "reading"]
    /\ depth = [s \in Session |-> 0] /\ current = [s \in Session |-> 0]

Add(x, n) == counter' = [counter EXCEPT ![x] = @ + n]

--------------------------------------------------------------------------------
\* A step of readLoop that counts something.
ReadStep(s, from, to) ==
    /\ reader[s] = from
    /\ reader' = [reader EXCEPT ![s] = to]
    /\ UNCHANGED <<depth, current, loaded, snapshot>>

\* IncrementMessagesReceived.
Receive(s) ==
    /\ counter["received"] < MaxMessages
    /\ ReadStep(s, "reading", "received") /\ Add("received", 1)

\* The read deadline cannot be renewed: readLoop returns, and nothing else is
\* counted for the message.
DeadlineFails(s) == ReadStep(s, "received", "stopped") /\ UNCHANGED counter

\* The answer, or the message it carries to another session, is queued, and
\* UpdateMaxQueueDepth called with the length of the queue, 0 if the writer was
\* faster (or there was no place, and no call): it loads and compares ...
LoadDepth(s) ==
    /\ reader[s] \in {"received", "retrying"}
    /\ \E d \in 0..MaxDepth :
         /\ reader[s] = "retrying" => d = depth[s]
         /\ depth' = [depth EXCEPT ![s] = d]
         /\ IF d <= counter["depth"]
            THEN reader' = [reader EXCEPT ![s] = "queued"] /\ UNCHANGED current
            ELSE /\ reader' = [reader EXCEPT ![s] = "swapping"]
                 /\ current' = [current EXCEPT ![s] = counter["depth"]]
    /\ UNCHANGED <<counter, loaded, snapshot>>

\* Mutant of SwapDepth: the depth is stored whatever happened since the load.
StoreDepth(s) ==
    /\ reader[s] = "swapping"
    /\ reader' = [reader EXCEPT ![s] = "queued"]
    /\ counter' = [counter EXCEPT !["depth"] = depth[s]]
    /\ current' = [current EXCEPT ![s] = 0]
    /\ UNCHANGED <<depth, loaded, snapshot>>

\* ... and swaps, or starts again.
SwapDepth(s) ==
    /\ reader[s] = "swapping"
    /\ IF counter["depth"] = current[s]
       THEN /\ counter' = [counter EXCEPT !["depth"] = depth[s]]
            /\ reader' = [reader EXCEPT ![s] = "queued"]
       ELSE UNCHANGED counter /\ reader' = [reader EXCEPT ![s] = "retrying"]
    /\ current' = [current EXCEPT ![s] = 0]
    /\ UNCHANGED <<depth, loaded, snapshot>>

\* RecordProcessingLatency: the total, at least 1 ns per message ...
AddLatency(s) ==
    /\ ReadStep(s, "queued", "added")
    /\ \E d \in 0..MaxLatency : Add("total", IF d <= 0 THEN 1 ELSE d)

\* ... and then the count.
CountLatency(s) == ReadStep(s, "added", "counted") /\ Add("count", 1)

\* IncrementInboundType.
CountType(s) == ReadStep(s, "counted", "typed") /\ \E t \in Types : Add(t, 1)

\* IncrementInboundResult.
CountResult(s) == ReadStep(s, "typed", "reading") /\ \E r \in Results : Add(r, 1)

\* Snapshot: the next load; a finished snapshot is dropped for the next one.
Load ==
    /\ IF loaded < Len(LoadOrder)
       THEN LET x == LoadOrder[loaded + 1] IN
            loaded' = loaded + 1 /\ snapshot' = [snapshot EXCEPT ![x] = counter[x]]
       ELSE loaded' = 0 /\ snapshot' = Zero
    /\ UNCHANGED <<counter, reader, depth, current>>

MetricsNext ==
    \/ \E s \in Session :
         \/ Receive(s) \/ DeadlineFails(s) \/ LoadDepth(s) \/ SwapDepth(s)
         \/ AddLatency(s) \/ CountLatency(s) \/ CountType(s) \/ CountResult(s)
    \/ Load

MetricsSpec == MetricsInit /\ [][MetricsNext]_metricsVars

--------------------------------------------------------------------------------
(* Properties. *)

\* The maximum queue depth is at least every depth whose update has returned,
\* whatever updates raced it.
DepthIsHighest ==
    \A s \in Session :
        reader[s] \notin {"swapping", "retrying"} => depth[s] <= counter["depth"]

\* A finished snapshot adds up although nothing stops the counters meanwhile:
\* each session has at most one message between any two of its counters, and
\* what bounds a counter is loaded after it.  Hence the total behind the average
\* latency exceeds what its count stands for by at most one message per session;
\* it may fall short of it by any number, those counted between the two loads.
SnapshotAddsUp ==
    loaded = Len(LoadOrder) =>
        LET sessions == Cardinality(Session)
            typed == snapshot["room.join"] + snapshot["unknown"]
            settled == snapshot["success"] + snapshot["error"] IN
        /\ snapshot["received"] <= typed + sessions
        /\ typed <= settled + sessions
        /\ settled <= snapshot["count"]
        /\ snapshot["total"] <= MaxLatency * (snapshot["count"] + sessions)
================================================================================

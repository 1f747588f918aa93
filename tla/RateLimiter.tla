------------------------------ MODULE RateLimiter ------------------------------
(******************************************************************************)
(* The token bucket of rate_limit.go, shared by callers that read the clock   *)
(* before they take the lock (Allow = AllowAt(time.Now())), so that their     *)
(* timestamps may be applied out of order.                                    *)
(*                                                                            *)
(* Tokens are kept in units of 1/Interval, as `credit': a refill adds         *)
(* Limit * elapsed, a message costs Interval and the bucket holds at most     *)
(* Limit * Interval.  The arithmetic is then exact where the code rounds to   *)
(* float64.                                                                   *)
(*                                                                            *)
(* winStart, winAdmitted, latest, inOrder and outcome are history: winStart   *)
(* is an arbitrary instant, and winAdmitted counts the messages admitted with *)
(* a timestamp at or after it.                                                *)
(******************************************************************************)
EXTENDS Integers

CONSTANTS
    Caller,     \* goroutines that call Allow
    Limit,      \* messages per interval; 0 turns the limiter off
    Interval,   \* length of the interval; 0 turns the limiter off
    MaxTime     \* bound: last instant of the clock

ASSUME LimitAssumption == Limit \in Nat /\ Interval \in Nat
ASSUME MaxTimeAssumption == MaxTime \in Nat

VARIABLES
    clock,          \* time.Now()
    stamp,          \* the timestamp each caller holds, or NoStamp
    credit,         \* rl.tokens, in units of 1/Interval
    lastRefreshed,  \* rl.lastRefreshed
    winStart, winAdmitted, latest, inOrder, outcome

vars == <<clock, stamp, credit, lastRefreshed, winStart, winAdmitted, latest, inOrder, outcome>>

NoStamp == -1
Enabled == Limit > 0 /\ Interval > 0
Capacity == Limit * Interval
Least(a, b) == IF a <= b THEN a ELSE b

\* NewRateLimiter at instant 0: a full bucket.
Init ==
    /\ clock = 0
    /\ stamp = [p \in Caller |-> NoStamp]
    /\ credit = Capacity
    /\ lastRefreshed = 0
    /\ winStart \in 0..MaxTime
    /\ winAdmitted = 0
    /\ latest = 0
    /\ inOrder = TRUE
    /\ outcome = "none"

\* Time passes.
Tick ==
    /\ clock < MaxTime
    /\ clock' = clock + 1
    /\ UNCHANGED <<stamp, credit, lastRefreshed, winStart, winAdmitted, latest, inOrder, outcome>>

\* Allow reads the clock.
Allow(p) ==
    /\ stamp[p] = NoStamp
    /\ stamp' = [stamp EXCEPT ![p] = clock]
    /\ UNCHANGED <<clock, credit, lastRefreshed, winStart, winAdmitted, latest, inOrder, outcome>>

\* Mutant of Refilled: the bucket is not capped.
RefilledUncapped(now) == credit + Limit * (now - lastRefreshed)

\* Mutant of Refilled: the refill is one interval too slow.
RefilledSlowly(now) == Least(Capacity, credit + (Limit - 1) * (now - lastRefreshed))

\* The bucket after the refill for the time since lastRefreshed, which is
\* negative when a later timestamp was applied first.
Refilled(now) == Least(Capacity, credit + Limit * (now - lastRefreshed))

\* What the history records of a message stamped now.
Record(now, admitted) ==
    /\ winAdmitted' = IF admitted /\ now >= winStart THEN winAdmitted + 1 ELSE winAdmitted
    /\ latest' = IF now > latest THEN now ELSE latest
    /\ inOrder' = (inOrder /\ now >= lastRefreshed)
    /\ outcome' = IF admitted THEN "admitted" ELSE "refused"

\* AllowAt: one critical section.
AllowAt(p) ==
    LET now == stamp[p] IN
    /\ now # NoStamp
    /\ stamp' = [stamp EXCEPT ![p] = NoStamp]
    /\ IF Enabled
       THEN LET admitted == Refilled(now) >= Interval IN
            /\ lastRefreshed' = now
            /\ credit' = IF admitted THEN Refilled(now) - Interval ELSE Refilled(now)
            /\ Record(now, admitted)
       ELSE /\ UNCHANGED <<credit, lastRefreshed>>
            /\ Record(now, TRUE)
    /\ UNCHANGED <<clock, winStart>>

Next == Tick \/ \E p \in Caller : Allow(p) \/ AllowAt(p)

Spec == Init /\ [][Next]_vars

--------------------------------------------------------------------------------
(* Properties. *)

\* Types of the bucket, of the callers and of the history; the bucket is never
\* filled beyond its capacity, however long the session was silent.
TypeOK ==
    /\ clock \in Nat
    /\ stamp \in [Caller -> Nat \cup {NoStamp}]
    /\ credit \in Int /\ credit <= Capacity
    /\ lastRefreshed \in Nat
    /\ winStart \in Nat
    /\ winAdmitted \in Nat
    /\ latest \in Nat
    /\ inOrder \in BOOLEAN
    /\ outcome \in {"none", "admitted", "refused"}

\* Of the messages stamped from winStart to the latest stamp, at most
\* Limit + Limit * (latest - winStart) / Interval are admitted, whatever order
\* the callers' timestamps are applied in.
WindowBound ==
    Enabled /\ winAdmitted > 0 =>
        winAdmitted * Interval <= Capacity + Limit * (latest - winStart)

\* As long as timestamps are applied in order, a message is refused only if at
\* least Limit messages were admitted during the interval that ends with it, if
\* the session is that old.
RefusalJustified ==
    inOrder /\ outcome = "refused" /\ lastRefreshed - winStart >= Interval =>
        winAdmitted >= Limit

\* The bounds on the bucket that make both inductive: what is left in it plus
\* what was admitted is paid for by the refill since winStart; out of order
\* timestamps only borrow against the time already seen; and in order it is at
\* least the refill since winStart less what was admitted since.
BucketInv ==
    Enabled =>
        /\ credit <= Capacity
        /\ credit + Limit * (latest - lastRefreshed) >= 0
        /\ lastRefreshed <= latest
        /\ winAdmitted > 0 =>
               winAdmitted * Interval + credit <= Capacity + Limit * (lastRefreshed - winStart)
        /\ inOrder =>
               /\ credit >= 0
               /\ lastRefreshed >= winStart =>
                    credit + winAdmitted * Interval
                      >= Least(Capacity, Limit * (lastRefreshed - winStart))
               /\ lastRefreshed < winStart => winAdmitted = 0

\* A refusal leaves less than one message's worth in the bucket.
RefusedInv == outcome = "refused" => Enabled /\ credit < Interval
================================================================================

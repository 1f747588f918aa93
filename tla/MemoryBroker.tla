------------------------------ MODULE MemoryBroker -----------------------------
(******************************************************************************)
(* The in-process event bus: goroutines publish, subscribe, cancel and close  *)
(* it concurrently.  The closed flag is atomic and read before the lock is    *)
(* taken; handlers are called without the lock.                               *)
(*                                                                            *)
(* A subject is a sequence of segments, a pattern one that may end in ">".    *)
(******************************************************************************)
EXTENDS Naturals, SequencesExt

CONSTANTS
    Publisher,    \* one Publish call each
    Subscription, \* one Subscribe call each, and perhaps its cancel
    Subjects,     \* subjects that are published
    PatternOf     \* the pattern of each subscription

ASSUME PatternAssumption == PatternOf \in [Subscription -> Seq(STRING) \ {<< >>}]
ASSUME SubjectsAssumption == Subjects \subseteq Seq(STRING) \ {<< >>}

VARIABLES
    subscribers,  \* b.subscribers: from id to subscription
    nextID,       \* b.nextID
    closed,       \* b.closed
    sub,          \* progress of each Subscribe call and of its cancel
    id,           \* the id it was given
    pub,          \* progress, subject and remaining matches of each Publish call
    close,        \* progress of Close
    before, gone, called
      \* history of each Publish call: subscriptions made before it began, those
      \* cancelled before it began, and those whose handler it has called

memory == <<subscribers, nextID, closed, sub, id, pub, close, before, gone, called>>

MemoryInit ==
    /\ subscribers = << >> /\ nextID = 0 /\ closed = FALSE /\ close = "none"
    /\ sub = [s \in Subscription |-> "none"] /\ id = [s \in Subscription |-> 0]
    /\ pub = [p \in Publisher |-> [step |-> "none", subject |-> << >>, matches |-> {}]]
    /\ before = [p \in Publisher |-> {}]
    /\ gone = [p \in Publisher |-> {}]
    /\ called = [p \in Publisher |-> {}]

--------------------------------------------------------------------------------
\* A pattern matches itself; "p.>" what begins with "p."; ">" everything.
matchSubject(pattern, subject) ==
    \/ pattern = subject
    \/ /\ Len(pattern) > 1 /\ Last(pattern) = ">"
       /\ IsStrictPrefix(Front(pattern), subject)
    \/ pattern = <<">">>

Subscribe(s) ==
    /\ sub[s] = "none"
    /\ sub' = [sub EXCEPT ![s] = IF closed THEN "refused" ELSE "checked"]
    /\ UNCHANGED <<subscribers, nextID, closed, id, pub, close, before, gone, called>>

\* Mutant of NewID: ids are reused once a subscription has been cancelled.
LowestFreeID == Cardinality(DOMAIN subscribers)

NewID == nextID

\* The critical section of Subscribe.
Insert(s) ==
    /\ sub[s] = "checked"
    /\ subscribers' = [i \in DOMAIN subscribers \cup {NewID} |->
                          IF i = NewID THEN s ELSE subscribers[i]]
    /\ id' = [id EXCEPT ![s] = NewID]
    /\ nextID' = nextID + 1
    /\ sub' = [sub EXCEPT ![s] = "subscribed"]
    /\ UNCHANGED <<closed, pub, close, before, gone, called>>

\* The cancel function: delete, which a missing id does not mind.
Cancel(s) ==
    /\ sub[s] = "subscribed"
    /\ subscribers' = Restrict(subscribers, DOMAIN subscribers \ {id[s]})
    /\ sub' = [sub EXCEPT ![s] = "cancelled"]
    /\ UNCHANGED <<nextID, closed, id, pub, close, before, gone, called>>

\* Mutant of Refuses: Publish does not look at the flag.
NeverRefuses == FALSE

Refuses == closed

Publish(p, subject) ==
    /\ pub[p].step = "none"
    /\ pub' = [pub EXCEPT ![p].step = IF Refuses THEN "refused" ELSE "checked",
                          ![p].subject = subject]
    /\ before' = [before EXCEPT ![p] = {s \in Subscription : sub[s] = "subscribed"}]
    /\ gone' = [gone EXCEPT ![p] = {s \in Subscription : sub[s] = "cancelled" \/ close = "returned"}]
    /\ UNCHANGED <<subscribers, nextID, closed, sub, id, close, called>>

\* The critical section of Publish: a snapshot of the matches.
Match(p) ==
    /\ pub[p].step = "checked"
    /\ pub' = [pub EXCEPT
         ![p].step = "calling",
         ![p].matches = {s \in Range(subscribers) : matchSubject(PatternOf[s], pub[p].subject)}]
    /\ UNCHANGED <<subscribers, nextID, closed, sub, id, close, before, gone, called>>

\* The next handler is called, in the order the map yields them.
Call(p) ==
    /\ \E s \in pub[p].matches :
         /\ called' = [called EXCEPT ![p] = @ \cup {s}]
         /\ pub' = [pub EXCEPT ![p].matches = @ \ {s}]
    /\ UNCHANGED <<subscribers, nextID, closed, sub, id, close, before, gone>>

\* Publish returns nil.
Return(p) ==
    /\ pub[p].step = "calling" /\ pub[p].matches = {}
    /\ pub' = [pub EXCEPT ![p].step = "returned"]
    /\ UNCHANGED <<subscribers, nextID, closed, sub, id, close, before, gone, called>>

\* Close sets the flag ...
Close ==
    /\ close = "none"
    /\ closed' = TRUE /\ close' = "flagged"
    /\ UNCHANGED <<subscribers, nextID, sub, id, pub, before, gone, called>>

\* ... and then replaces the map.
Clear ==
    /\ close = "flagged"
    /\ subscribers' = << >> /\ close' = "returned"
    /\ UNCHANGED <<nextID, closed, sub, id, pub, before, gone, called>>

MemoryNext ==
    \/ \E s \in Subscription : Subscribe(s) \/ Insert(s) \/ Cancel(s)
    \/ \E p \in Publisher :
         \/ \E subject \in Subjects : Publish(p, subject)
         \/ Match(p) \/ Call(p) \/ Return(p)
    \/ Close \/ Clear

--------------------------------------------------------------------------------
(* Properties. *)

\* What the subject language of the broker says: segment by segment, and ">"
\* stands for one or more segments.
Covers(pattern, subject) ==
    /\ \A i \in DOMAIN pattern :
         \/ i \in DOMAIN subject /\ pattern[i] = subject[i]
         \/ i = Len(pattern) /\ pattern[i] = ">" /\ i \in DOMAIN subject
    /\ Last(pattern) = ">" \/ Len(subject) = Len(pattern)

Covered(p) == {s \in Subscription : Covers(PatternOf[s], pub[p].subject)}

\* A Publish that returns nil has called every handler its subject is covered by
\* that was subscribed before it began and is neither cancelled nor closed yet,
\* whatever was subscribed or cancelled meanwhile; and no other subject's.
PublishReaches ==
    \A p \in Publisher :
        /\ pub[p].step = "returned" /\ ~ closed =>
               {s \in before[p] \cap Covered(p) : sub[s] = "subscribed"} \subseteq called[p]
        /\ called[p] \subseteq Covered(p)

\* A Publish that begins after a cancel has returned does not call that handler,
\* and one that begins after Close has returned calls none, also if a Subscribe
\* that was under way has put a subscription into the new map.
QuietAfterStop == \A p \in Publisher : called[p] \cap gone[p] = {}
================================================================================

------------------------------ MODULE BrokerProofs -----------------------------
(******************************************************************************)
(* Proofs about Broker: the in-process bus for any number of publishers and   *)
(* subscriptions with any patterns, JetStream for any number of nodes, events *)
(* and faults.                                                                *)
(*                                                                            *)
(* First the subject language: matchSubject compares prefixes, and decides    *)
(* what segment by segment comparison would.  Then an invariant per broker.   *)
(******************************************************************************)
EXTENDS Broker, TLAPS

USE PatternAssumption, SubjectsAssumption, NodeIDAssumption, EventAssumption, FaultsAssumption

--------------------------------------------------------------------------------
(* Subjects and patterns. *)

\* A pattern that ends in ">" matches what goes on behind the rest of it.
LEMMA FrontIsStrictPrefix ==
    ASSUME NEW p \in Seq(STRING), NEW t \in Seq(STRING), Len(p) > 1
    PROVE  IsStrictPrefix(Front(p), t)
             <=> Len(t) >= Len(p) /\ \A i \in 1..(Len(p) - 1) : p[i] = t[i]
<1> DEFINE n == Len(p) - 1  f == Front(p)
<1>1. n \in Nat /\ n > 0 /\ Len(t) \in Nat /\ Len(p) = n + 1
  OBVIOUS
<1>2. f \in Seq(STRING) /\ Len(f) = n /\ \A i \in 1..n : f[i] = p[i]
  BY <1>1 DEF Front
<1>3. SubSeq(f, 1, Len(f)) = f
  BY <1>1, <1>2
<1>4. ASSUME Len(t) >= n
      PROVE  /\ Len(SubSeq(t, 1, n)) = n /\ SubSeq(t, 1, n) \in Seq(STRING)
             /\ \A i \in 1..n : SubSeq(t, 1, n)[i] = t[i]
  BY <1>1, <1>4
<1>5. IsPrefix(f, t) <=> Len(t) >= n /\ \A i \in 1..n : p[i] = t[i]
  <2>1. ASSUME Len(t) >= n, \A i \in 1..n : p[i] = t[i] PROVE SubSeq(t, 1, n) = f
    BY <1>1, <1>2, <1>4, <2>1
  <2>2. ASSUME Len(t) >= n, SubSeq(t, 1, n) = f PROVE \A i \in 1..n : p[i] = t[i]
    BY <1>1, <1>2, <1>4, <2>2
  <2> QED BY <1>1, <1>2, <1>3, <2>1, <2>2 DEF IsPrefix
<1>6. ASSUME Len(t) >= n, \A i \in 1..n : p[i] = t[i] PROVE f = t <=> Len(t) = n
  <2>1. ASSUME Len(t) = n PROVE f = t
    BY <1>1, <1>2, <1>6, <2>1
  <2> QED BY <1>2, <2>1
<1>7. IsStrictPrefix(f, t) <=> IsPrefix(f, t) /\ f # t
  BY DEF IsStrictPrefix
<1> DEFINE agree == \A i \in 1..n : p[i] = t[i]
           m == Len(t)
<1>8. /\ n \in Nat /\ m \in Nat
      /\ IsPrefix(f, t) <=> m >= n /\ agree
      /\ m >= n /\ agree => (f = t <=> m = n)
  BY <1>1, <1>5, <1>6
<1>9. IsStrictPrefix(f, t) <=> m >= n + 1 /\ agree
  <2> HIDE DEF f, n, m, agree
  <2>1. m >= n + 1 <=> m >= n /\ m # n
    BY ONLY <1>8
  <2> QED BY ONLY <1>7, <1>8, <2>1
<1> QED BY <1>1, <1>9

\* matchSubject, which compares strings, says what Covers says of segments.
LEMMA MatchIsCover ==
    ASSUME NEW p \in Seq(STRING) \ {<< >>}, NEW t \in Seq(STRING) \ {<< >>}
    PROVE  matchSubject(p, t) <=> Covers(p, t)
<1> DEFINE n == Len(p)
<1>1. n \in Nat /\ n >= 1 /\ Len(t) \in Nat /\ Len(t) >= 1 /\ DOMAIN p = 1..n /\ DOMAIN t = 1..Len(t)
  OBVIOUS
<1>2. CASE p[n] = ">" /\ n > 1
  <2>1. Covers(p, t) <=> Len(t) >= n /\ \A i \in 1..(n - 1) : p[i] = t[i]
    <3> DEFINE m == Len(t)
    <3>1. Covers(p, t) <=>
            \A i \in 1..n : (i \in 1..m /\ p[i] = t[i]) \/ (i = n /\ p[i] = ">" /\ i \in 1..m)
      BY <1>1, <1>2 DEF Covers, Last
    <3>2. n \in Nat /\ m \in Nat /\ n > 1 /\ p[n] = ">"
      BY <1>1, <1>2
    <3> HIDE DEF n, m
    <3>3. ASSUME Covers(p, t) PROVE m >= n /\ \A i \in 1..(n - 1) : p[i] = t[i]
      BY <3>1, <3>2, <3>3
    <3>4. ASSUME m >= n, \A i \in 1..(n - 1) : p[i] = t[i] PROVE Covers(p, t)
      BY <3>1, <3>2, <3>4
    <3> QED BY <3>3, <3>4 DEF n, m
  <2>2. p = t => Covers(p, t)
    BY <1>1 DEF Covers
  <2>3. p # <<">">>
    BY <1>2
  <2> QED BY <1>2, <2>1, <2>2, <2>3, FrontIsStrictPrefix DEF matchSubject, Last
<1>3. CASE p[n] = ">" /\ n = 1
  <2>1. p = <<">">>
    BY <1>3
  <2> QED BY <1>1, <1>3, <2>1 DEF matchSubject, Covers, Last
<1>4. CASE p[n] # ">"
  <2>1. Covers(p, t) <=> Len(t) = n /\ \A i \in 1..n : p[i] = t[i]
    BY <1>1, <1>4 DEF Covers, Last
  <2>2. ASSUME Len(t) = n, \A i \in 1..n : p[i] = t[i] PROVE p = t
    BY <1>1, <2>2
  <2>3. ASSUME p = <<">">> PROVE FALSE
    <3>1. Len(p) = 1 /\ p[1] = ">"
      BY <2>3
    <3> QED BY <1>4, <3>1
  <2> QED BY <1>1, <1>4, <2>1, <2>2, <2>3 DEF matchSubject, Last
<1> QED BY <1>1, <1>2, <1>3, <1>4

--------------------------------------------------------------------------------
(* The in-process bus: the invariant. *)

PublishCall ==
    [step : {"none", "checked", "refused", "calling", "returned"},
     subject : Seq(STRING), matches : SUBSET Subscription]

MemoryTypeOK ==
    /\ nextID \in Nat /\ closed \in BOOLEAN /\ close \in {"none", "flagged", "returned"}
    /\ sub \in [Subscription -> {"none", "checked", "refused", "subscribed", "cancelled"}]
    /\ id \in [Subscription -> Nat]
    /\ pub \in [Publisher -> PublishCall]
    /\ before \in [Publisher -> SUBSET Subscription]
    /\ gone \in [Publisher -> SUBSET Subscription]
    /\ called \in [Publisher -> SUBSET Subscription]

\* The map holds subscriptions under the id they were given, and, until Close,
\* all of them.
MapInv ==
    /\ \A i \in DOMAIN subscribers :
         /\ i \in Nat /\ i < nextID /\ subscribers[i] \in Subscription
         /\ sub[subscribers[i]] = "subscribed" /\ id[subscribers[i]] = i
    /\ ~ closed => \A s \in Subscription : sub[s] = "subscribed" =>
         id[s] \in DOMAIN subscribers /\ subscribers[id[s]] = s
    /\ ~ closed => close = "none"

\* What a Publish call is bound to call, and what it must not.
PublishInv ==
    \A p \in Publisher :
        /\ pub[p].step # "none" => pub[p].subject # << >>
        /\ pub[p].step # "calling" => pub[p].matches = {}
        /\ pub[p].step \notin {"calling", "returned"} => called[p] = {}
        /\ called[p] \cup pub[p].matches \subseteq Covered(p)
        /\ (called[p] \cup pub[p].matches) \cap gone[p] = {}
        /\ pub[p].step # "refused" => \A s \in gone[p] : sub[s] = "cancelled"
        /\ \A s \in before[p] : sub[s] \in {"subscribed", "cancelled"}
        /\ pub[p].step \in {"calling", "returned"} /\ ~ closed =>
             \A s \in before[p] \cap Covered(p) :
                 sub[s] = "subscribed" => s \in called[p] \cup pub[p].matches

MemoryInv == MemoryTypeOK /\ MapInv /\ PublishInv

--------------------------------------------------------------------------------
(* JetStream: the invariant. *)

\* A callback acknowledges only what its handler has been called with.
NatsInv ==
    /\ holding \in [Node -> Event \cup {NoEvent}] /\ done \in [Node -> BOOLEAN]
    /\ backlog \in [Names -> SUBSET Event]
    /\ owed \in [Node -> SUBSET Event] /\ handled \in [Node -> SUBSET Event]
    /\ \A n \in Node : holding[n] # NoEvent /\ done[n] => holding[n] \in handled[n]
    /\ NothingDropped
--------------------------------------------------------------------------------
(* The in-process bus: preservation. *)

\* The empty bus satisfies the invariant.
LEMMA InitMemoryInv == MemoryInit => MemoryInv
<1> SUFFICES ASSUME MemoryInit PROVE MemoryInv
  OBVIOUS
<1>1. MemoryTypeOK
  <2>1. closed \in BOOLEAN
    BY DEF MemoryInit
  <2>2. pub \in [Publisher -> PublishCall]
    BY DEF MemoryInit, PublishCall
  <2> QED BY <2>1, <2>2 DEF MemoryInit, MemoryTypeOK
<1>2. MapInv
  BY DEF MemoryInit, MapInv
<1>3. PublishInv
  BY DEF MemoryInit, PublishInv
<1> QED BY <1>1, <1>2, <1>3 DEF MemoryInv

\* Subscribe, up to its critical section.
LEMMA SubscribeInv ==
    ASSUME MemoryInv, NEW s \in Subscription, Subscribe(s)
    PROVE  MemoryInv'
<1> USE DEF MemoryInv, Subscribe
<1>1. MemoryTypeOK'
  BY DEF MemoryTypeOK
<1>2. MapInv'
  BY DEF MapInv, MemoryTypeOK
<1>3. PublishInv'
  BY DEF PublishInv, MemoryTypeOK, PublishCall, Covered
<1> QED BY <1>1, <1>2, <1>3

\* Insert: the next id is free.
LEMMA InsertInv ==
    ASSUME MemoryInv, NEW s \in Subscription, Insert(s)
    PROVE  MemoryInv'
<1> USE DEF MemoryInv, Insert, NewID
<1>1. MemoryTypeOK'
  BY DEF MemoryTypeOK
<1>2. MapInv'
  <2>0. nextID \notin DOMAIN subscribers /\ nextID \in Nat
    BY DEF MapInv, MemoryTypeOK
  <2>1. /\ DOMAIN subscribers' = DOMAIN subscribers \cup {nextID}
        /\ subscribers'[nextID] = s
        /\ \A i \in DOMAIN subscribers : i # nextID /\ subscribers'[i] = subscribers[i]
    BY <2>0
  <2>2. /\ sub'[s] = "subscribed" /\ id'[s] = nextID /\ sub[s] = "checked"
        /\ \A t \in Subscription : t # s => sub'[t] = sub[t] /\ id'[t] = id[t]
    BY DEF MemoryTypeOK
  <2>3. ASSUME NEW i \in DOMAIN subscribers'
        PROVE  /\ i \in Nat /\ i < nextID' /\ subscribers'[i] \in Subscription
               /\ sub'[subscribers'[i]] = "subscribed" /\ id'[subscribers'[i]] = i
    BY <2>0, <2>1, <2>2 DEF MapInv
  <2>4. ASSUME ~ closed, NEW t \in Subscription, sub'[t] = "subscribed"
        PROVE  id'[t] \in DOMAIN subscribers' /\ subscribers'[id'[t]] = t
    BY <2>1, <2>2, <2>4 DEF MapInv
  <2> QED BY <2>3, <2>4 DEF MapInv
<1>3. PublishInv'
  BY DEF PublishInv, MemoryTypeOK, PublishCall, Covered
<1> QED BY <1>1, <1>2, <1>3

\* The cancel function: the id is the subscription's own.
LEMMA CancelInv ==
    ASSUME MemoryInv, NEW s \in Subscription, Cancel(s)
    PROVE  MemoryInv'
<1> USE DEF MemoryInv, Cancel
<1>1. MemoryTypeOK'
  BY DEF MemoryTypeOK
<1>2. MapInv'
  <2>1. /\ DOMAIN subscribers' = DOMAIN subscribers \ {id[s]}
        /\ \A i \in DOMAIN subscribers' : subscribers'[i] = subscribers[i]
    BY DEF Restrict
  <2>2. /\ \A t \in Subscription : sub'[t] = IF t = s THEN "cancelled" ELSE sub[t]
        /\ sub[s] = "subscribed" /\ UNCHANGED <<nextID, closed, id, close>>
    BY DEF MemoryTypeOK
  <2> HIDE DEF Cancel
  <2>3. \A i \in DOMAIN subscribers' : subscribers'[i] # s
    BY <2>1 DEF MapInv
  <2>4. ASSUME NEW i \in DOMAIN subscribers'
        PROVE  /\ i \in Nat /\ i < nextID /\ subscribers'[i] \in Subscription
               /\ sub'[subscribers'[i]] = "subscribed" /\ id[subscribers'[i]] = i
    BY <2>1, <2>2, <2>3 DEF MapInv
  <2>5. ASSUME ~ closed, NEW t \in Subscription, sub'[t] = "subscribed"
        PROVE  id[t] \in DOMAIN subscribers' /\ subscribers'[id[t]] = t
    <3>1. t # s /\ sub[t] = "subscribed"
      BY <2>2, <2>5
    <3>2. /\ id[t] \in DOMAIN subscribers /\ subscribers[id[t]] = t
          /\ subscribers[id[s]] = s
      BY <2>2, <2>5, <3>1 DEF MapInv
    <3> QED BY <2>1, <3>1, <3>2
  <2> QED BY <2>2, <2>4, <2>5 DEF MapInv
<1>3. PublishInv'
  BY DEF PublishInv, MemoryTypeOK, PublishCall, Covered
<1> QED BY <1>1, <1>2, <1>3

\* Publish: after Close has returned it is refused.
LEMMA PublishStepInv ==
    ASSUME MemoryInv, NEW p \in Publisher, NEW subject \in Subjects, Publish(p, subject)
    PROVE  MemoryInv'
<1> USE DEF MemoryInv
<1> DEFINE st == IF closed THEN "refused" ELSE "checked"
           call == [[pub[p] EXCEPT !.step = st] EXCEPT !.subject = subject]
<1>0. /\ pub' = [pub EXCEPT ![p] = call]
      /\ pub[p].step = "none"
      /\ before' = [before EXCEPT ![p] = {s \in Subscription : sub[s] = "subscribed"}]
      /\ gone' = [gone EXCEPT ![p] = {s \in Subscription : sub[s] = "cancelled" \/ close = "returned"}]
      /\ UNCHANGED <<subscribers, nextID, closed, sub, id, close, called>>
  BY DEF Publish, Refuses, MemoryTypeOK
<1>1. /\ call \in PublishCall /\ call.step = st /\ call.subject = subject
      /\ call.matches = pub[p].matches
  BY DEF MemoryTypeOK, PublishCall
<1> HIDE DEF call
<1>2. MemoryTypeOK'
  BY <1>0, <1>1 DEF MemoryTypeOK
<1>3. MapInv'
  BY <1>0 DEF MapInv
<1>4. subject # << >> /\ pub[p].matches = {} /\ called[p] = {}
  BY <1>0 DEF PublishInv
<1>5. closed \/ close = "none"
  BY DEF MapInv
<1>6. /\ pub'[p] = call
      /\ gone'[p] = {s \in Subscription : sub[s] = "cancelled" \/ close = "returned"}
      /\ before'[p] = {s \in Subscription : sub[s] = "subscribed"}
      /\ \A q \in Publisher : q # p => pub'[q] = pub[q] /\ gone'[q] = gone[q] /\ before'[q] = before[q]
  BY <1>0 DEF MemoryTypeOK
<1>7. /\ pub'[p].step = IF closed THEN "refused" ELSE "checked"
      /\ pub'[p].subject # << >> /\ pub'[p].matches = {} /\ called'[p] = {}
      /\ \A s \in gone'[p] : sub[s] = "cancelled" \/ closed
  BY <1>0, <1>1, <1>4, <1>5, <1>6
<1>8. PublishInv'
  <2> SUFFICES ASSUME NEW q \in Publisher
               PROVE  PublishInv!(q)'
    BY DEF PublishInv
  <2>1. CASE q = p
    BY <1>0, <1>6, <1>7, <2>1
  <2>2. CASE q # p
    BY <1>0, <1>6, <2>2 DEF PublishInv, Covered
  <2> QED BY <2>1, <2>2
<1> QED BY <1>2, <1>3, <1>8

\* The critical section of Publish: the matches are live and covered, and none
\* that is covered and still subscribed is missing.
LEMMA MatchInv ==
    ASSUME MemoryInv, NEW p \in Publisher, Match(p)
    PROVE  MemoryInv'
<1> USE DEF MemoryInv, Match
<1> DEFINE found == {s \in Range(subscribers) : matchSubject(PatternOf[s], pub[p].subject)}
<1>0. Range(subscribers) \subseteq {s \in Subscription : sub[s] = "subscribed"}
  BY DEF MapInv, Range
<1>1. MemoryTypeOK'
  <2>1. [pub[p] EXCEPT !.step = "calling", !.matches = found] \in PublishCall
    BY <1>0 DEF MemoryTypeOK, PublishCall
  <2> QED BY <2>1 DEF MemoryTypeOK
<1>2. MapInv'
  BY DEF MapInv
<1>3. pub[p].subject \in Seq(STRING) \ {<< >>}
  BY DEF PublishInv, MemoryTypeOK, PublishCall
<1>4. found = {s \in Range(subscribers) : Covers(PatternOf[s], pub[p].subject)}
  BY <1>0, <1>3, MatchIsCover
<1>5. /\ pub'[p].step = "calling" /\ pub'[p].subject = pub[p].subject /\ pub'[p].matches = found
      /\ pub[p].step = "checked" /\ called[p] = {}
      /\ \A q \in Publisher : q # p => pub'[q] = pub[q]
  BY DEF PublishInv, MemoryTypeOK, PublishCall
<1> HIDE DEF found
<1>6. found \subseteq Covered(p) /\ found \subseteq {s \in Subscription : sub[s] = "subscribed"}
  BY <1>0, <1>4 DEF Covered
<1>7. found \cap gone[p] = {}
  BY <1>5, <1>6 DEF PublishInv
<1>8. ASSUME ~ closed, NEW s \in Covered(p), sub[s] = "subscribed" PROVE s \in found
  <2>1. id[s] \in DOMAIN subscribers /\ subscribers[id[s]] = s
    BY <1>8 DEF Covered, MapInv
  <2>2. s \in Range(subscribers)
    BY <2>1 DEF Range
  <2> QED BY <1>4, <2>2 DEF Covered
<1>9. \A q \in Publisher : Covered(q)' = Covered(q)
  BY <1>5 DEF Covered
<1>10. UNCHANGED <<called, gone, before, sub, closed>>
  OBVIOUS
<1> HIDE DEF Match
<1>11. PublishInv'
  BY <1>3, <1>5, <1>6, <1>7, <1>8, <1>9, <1>10 DEF PublishInv
<1> QED BY <1>1, <1>2, <1>11

\* A handler is called, or Publish returns.
LEMMA CallInv ==
    ASSUME MemoryInv, NEW p \in Publisher, Call(p) \/ Return(p)
    PROVE  MemoryInv'
<1> USE DEF MemoryInv
<1>1. CASE Call(p)
  <2>1. PICK s \in pub[p].matches :
          /\ called' = [called EXCEPT ![p] = @ \cup {s}]
          /\ pub' = [pub EXCEPT ![p].matches = @ \ {s}]
    BY <1>1 DEF Call
  <2>2. UNCHANGED <<subscribers, nextID, closed, sub, id, close, before, gone>>
    BY <1>1 DEF Call
  <2>3. MemoryTypeOK'
    <3>1. [pub[p] EXCEPT !.matches = @ \ {s}] \in PublishCall /\ s \in Subscription
      BY DEF MemoryTypeOK, PublishCall
    <3>2. pub' \in [Publisher -> PublishCall] /\ called' \in [Publisher -> SUBSET Subscription]
      BY <2>1, <3>1 DEF MemoryTypeOK
    <3> QED BY <2>2, <3>2 DEF MemoryTypeOK
  <2>4. MapInv'
    BY <2>2 DEF MapInv
  <2>5. /\ pub'[p].step = "calling" /\ pub[p].step = "calling" /\ pub'[p].subject = pub[p].subject
        /\ called'[p] \cup pub'[p].matches = called[p] \cup pub[p].matches
        /\ \A q \in Publisher : q # p => pub'[q] = pub[q] /\ called'[q] = called[q]
    BY <2>1 DEF MemoryTypeOK, PublishCall, PublishInv
  <2>6. \A q \in Publisher : Covered(q)' = Covered(q)
    BY <2>5 DEF Covered
  <2>7. PublishInv'
    BY <2>2, <2>5, <2>6 DEF PublishInv
  <2> QED BY <2>3, <2>4, <2>7
<1>2. CASE Return(p)
  <2>0. [pub[p] EXCEPT !.step = "returned"] \in PublishCall
    BY DEF MemoryTypeOK, PublishCall
  <2>1. MemoryTypeOK' /\ MapInv'
    BY <1>2, <2>0 DEF Return, MemoryTypeOK, MapInv
  <2>2. PublishInv'
    BY <1>2 DEF Return, MemoryTypeOK, PublishCall, PublishInv, Covered
  <2> QED BY <2>1, <2>2
<1> QED BY <1>1, <1>2

\* Close, in its two steps.
LEMMA CloseInv ==
    ASSUME MemoryInv, Close \/ Clear
    PROVE  MemoryInv'
<1> USE DEF MemoryInv
<1>1. closed' = TRUE
  BY DEF Close, Clear, MapInv, MemoryTypeOK
<1>2. MemoryTypeOK'
  <2>1. closed' \in BOOLEAN
    BY <1>1
  <2> QED BY <2>1 DEF Close, Clear, MemoryTypeOK
<1>3. MapInv'
  <2>1. CASE Close
    BY <1>1, <2>1 DEF Close, MapInv
  <2>2. CASE Clear
    <3>1. DOMAIN subscribers' = {}
      BY <2>2 DEF Clear
    <3> QED BY <1>1, <3>1 DEF MapInv
  <2> QED BY <2>1, <2>2
<1>4. PublishInv'
  BY <1>1 DEF Close, Clear, PublishInv, Covered
<1> QED BY <1>2, <1>3, <1>4

\* Every step of the in-process bus keeps its invariant.
LEMMA NextMemoryInv == MemoryInv /\ MemoryNext => MemoryInv'
<1> SUFFICES ASSUME MemoryInv, MemoryNext PROVE MemoryInv'
  OBVIOUS
<1>1. ASSUME NEW s \in Subscription, Subscribe(s) \/ Insert(s) \/ Cancel(s) PROVE MemoryInv'
  BY <1>1, SubscribeInv, InsertInv, CancelInv
<1>2. ASSUME NEW p \in Publisher, NEW subject \in Subjects, Publish(p, subject) PROVE MemoryInv'
  BY <1>2, PublishStepInv
<1>3. ASSUME NEW p \in Publisher, Match(p) \/ Call(p) \/ Return(p) PROVE MemoryInv'
  BY <1>3, MatchInv, CallInv
<1>4. ASSUME Close \/ Clear PROVE MemoryInv'
  BY <1>4, CloseInv
<1> QED BY <1>1, <1>2, <1>3, <1>4 DEF MemoryNext

--------------------------------------------------------------------------------
(* JetStream: preservation. *)

\* Before the first node starts nothing is owed.
LEMMA InitNatsInv == NatsInit => NatsInv
<1> SUFFICES ASSUME NatsInit PROVE NatsInv
  OBVIOUS
<1>1. done \in [Node -> BOOLEAN]
  BY DEF NatsInit
<1>2. backlog \in [Names -> SUBSET Event]
  BY DEF NatsInit
<1> QED BY <1>1, <1>2 DEF NatsInit, NatsInv, NothingDropped

\* The durable of a node is one of the names.
LEMMA OwnDurable == \A n \in Node : DurableName(n) \in Names
  BY DEF Names

\* Steps that change neither what is kept nor what was handled, and leave every
\* callback where it was or without an event.
LEMMA ClientStepInv ==
    ASSUME NatsInv, NEW n \in Node,
           \/ NewNATSBroker(n) \/ NatsSubscribe(n) \/ Reconnect(n) \/ Exit(n)
           \/ AckLost(n) \/ Disconnect(n) \/ NatsClose(n) \/ Crash(n)
    PROVE  NatsInv'
<1>1. UNCHANGED <<done, backlog, expired, owed, handled>>
  BY DEF NewNATSBroker, NatsSubscribe, Reconnect, Exit, AckLost, Disconnect, NatsClose, Crash,
         Gone, stream
<1>2. holding' = holding \/ holding' = [holding EXCEPT ![n] = NoEvent]
  BY DEF NewNATSBroker, NatsSubscribe, Reconnect, Exit, AckLost, Disconnect, NatsClose, Crash, Gone
<1>3. /\ holding' \in [Node -> Event \cup {NoEvent}]
      /\ \A m \in Node : holding'[m] \in {holding[m], NoEvent}
  BY <1>2 DEF NatsInv
<1> QED BY <1>1, <1>3 DEF NatsInv, NothingDropped

\* Store: what a node is owed from now on is kept under its name.
LEMMA StoreInv ==
    ASSUME NatsInv, NEW n \in Node, NEW e \in Event, NatsPublish(n, e)
    PROVE  NatsInv'
<1>1. UNCHANGED <<holding, done, handled, expired>>
  BY DEF NatsPublish, Store, client
<1>2. /\ backlog' = [d \in Names |-> IF d \in durables THEN backlog[d] \cup {e} ELSE backlog[d]]
      /\ owed' = [m \in Node |-> IF DurableName(m) \in durables THEN owed[m] \cup {e} ELSE owed[m]]
  BY DEF NatsPublish, Store
<1>3. backlog' \in [Names -> SUBSET Event] /\ owed' \in [Node -> SUBSET Event]
  BY <1>2 DEF NatsInv
<1>4. NothingDropped'
  BY <1>1, <1>2, OwnDurable DEF NatsInv, NothingDropped
<1> QED BY <1>1, <1>3, <1>4 DEF NatsInv

\* Deliver: the event stays in the backlog, the callback has not handled it.
LEMMA DeliverInv ==
    ASSUME NatsInv, NEW n \in Node, Deliver(n)
    PROVE  NatsInv'
<1>1. PICK e \in backlog[DurableName(n)] :
        holding' = [holding EXCEPT ![n] = e] /\ done' = [done EXCEPT ![n] = FALSE]
  BY DEF Deliver
<1>2. e \in Event
  BY OwnDurable DEF NatsInv
<1>3. UNCHANGED <<backlog, owed, expired, handled>>
  BY DEF Deliver, stream
<1>4. done' \in [Node -> BOOLEAN] /\ ~ done'[n] /\ \A m \in Node : m # n => done'[m] = done[m]
  BY <1>1 DEF NatsInv
<1>5. /\ holding' \in [Node -> Event \cup {NoEvent}]
      /\ \A m \in Node : m # n => holding'[m] = holding[m]
  BY <1>1, <1>2 DEF NatsInv
<1> QED BY <1>3, <1>4, <1>5 DEF NatsInv, NothingDropped

\* The handler is called with what the callback holds.
LEMMA HandleInv ==
    ASSUME NatsInv, NEW n \in Node, Handle(n)
    PROVE  NatsInv'
<1>1. UNCHANGED <<holding, backlog, owed, expired>>
  BY DEF Handle, stream
<1>2. holding[n] \in Event
  BY DEF Handle, NatsInv
<1>3. done' \in [Node -> BOOLEAN] /\ \A m \in Node : m # n => done'[m] = done[m]
  BY DEF Handle, NatsInv
<1>4. /\ handled' \in [Node -> SUBSET Event] /\ holding[n] \in handled'[n]
      /\ \A m \in Node : handled[m] \subseteq handled'[m]
  BY <1>2 DEF Handle, NatsInv
<1> QED BY <1>1, <1>3, <1>4 DEF NatsInv, NothingDropped

\* Ack: only this node's durable forgets the event, and the node has handled it.
LEMMA AckInv ==
    ASSUME NatsInv, NEW n \in Node, Ack(n)
    PROVE  NatsInv'
<1>1. UNCHANGED <<done, owed, expired, handled>>
  BY DEF Ack
<1>2. holding[n] \in handled[n]
  BY DEF Ack, NatsInv
<1>3. /\ backlog' \in [Names -> SUBSET Event]
      /\ backlog[DurableName(n)] \subseteq backlog'[DurableName(n)] \cup {holding[n]}
      /\ \A d \in Names : d # DurableName(n) => backlog'[d] = backlog[d]
  BY OwnDurable DEF Ack, NatsInv
<1>4. /\ holding' \in [Node -> Event \cup {NoEvent}]
      /\ \A m \in Node : holding'[m] \in {holding[m], NoEvent}
  BY DEF Ack, NatsInv
<1>5. NothingDropped'
  <2> SUFFICES ASSUME NEW m \in Node, OwnName(m)
               PROVE  owed[m] \subseteq handled[m] \cup backlog'[DurableName(m)] \cup expired
    BY <1>1 DEF NothingDropped, OwnName
  <2>1. owed[m] \subseteq handled[m] \cup backlog[DurableName(m)] \cup expired
    BY DEF NatsInv, NothingDropped
  <2>2. CASE m = n
    BY <1>2, <1>3, <2>1, <2>2
  <2>3. CASE m # n
    BY <1>3, <2>1, <2>3, OwnDurable DEF OwnName
  <2> QED BY <2>2, <2>3
<1> QED BY <1>1, <1>3, <1>4, <1>5 DEF NatsInv

\* MaxAge: every durable forgets the event, which is now too old.
LEMMA ExpireInv ==
    ASSUME NatsInv, NEW e \in Event, Expire(e)
    PROVE  NatsInv'
<1>1. UNCHANGED <<holding, done, owed, handled>>
  BY DEF Expire, client
<1>2. expired' = expired \cup {e} /\ backlog' = [d \in Names |-> backlog[d] \ {e}]
  BY DEF Expire
<1>3. backlog' \in [Names -> SUBSET Event]
  BY <1>2 DEF NatsInv
<1>4. NothingDropped'
  BY <1>1, <1>2, OwnDurable DEF NatsInv, NothingDropped
<1> QED BY <1>1, <1>3, <1>4 DEF NatsInv

\* Every step of the nodes and of the stream keeps the invariant.
LEMMA NextNatsInv == NatsInv /\ NatsNext => NatsInv'
<1> SUFFICES ASSUME NatsInv, NatsNext PROVE NatsInv'
  OBVIOUS
<1>1. ASSUME NEW n \in Node, NodeStep(n) PROVE NatsInv'
  BY <1>1, ClientStepInv, DeliverInv, HandleInv, AckInv DEF NodeStep
<1>2. ASSUME NEW n \in Node, AckLost(n) \/ Disconnect(n) \/ NatsClose(n) \/ Crash(n) PROVE NatsInv'
  BY <1>2, ClientStepInv
<1>3. ASSUME NEW n \in Node, NEW e \in Event, NatsPublish(n, e) PROVE NatsInv'
  BY <1>3, StoreInv
<1>4. ASSUME NEW e \in Event, Expire(e) PROVE NatsInv'
  BY <1>4, ExpireInv
<1> QED BY <1>1, <1>2, <1>3, <1>4 DEF NatsNext

--------------------------------------------------------------------------------
(* The broker the server was built with. *)

\* Both invariants hold of the broker, whichever of the two was made.
THEOREM BrokerCorrect == BrokerSpec => [](MemoryInv /\ NatsInv)
<1> DEFINE Inv == MemoryInv /\ NatsInv
<1>1. BrokerInit => Inv
  BY InitMemoryInv, InitNatsInv DEF BrokerInit
<1>2. UNCHANGED memory /\ MemoryInv => MemoryInv'
  BY DEF memory, MemoryInv, MemoryTypeOK, MapInv, PublishInv, Covered
<1>3. UNCHANGED nats /\ NatsInv => NatsInv'
  BY DEF nats, client, stream, NatsInv, NothingDropped
<1>4. Inv /\ [MemoryStep \/ NatsStep]_brokerVars => Inv'
  BY <1>2, <1>3, NextMemoryInv, NextNatsInv DEF MemoryStep, NatsStep, brokerVars
<1> QED BY <1>1, <1>4, PTL DEF BrokerSpec

\* memory.go Publish: when it returns, every handler that was subscribed before
\* the call and is still subscribed has been called, and no other subject's.
THEOREM PublishAlwaysReaches == BrokerSpec => []PublishReaches
<1>1. MemoryInv => PublishReaches
  BY DEF MemoryInv, PublishInv, PublishReaches
<1> QED BY <1>1, BrokerCorrect, PTL

\* memory.go: a cancelled handler, and any handler once Close has returned, is
\* not called by a Publish that begins later.
THEOREM StopIsFinal == BrokerSpec => []QuietAfterStop
<1>1. MemoryInv => QuietAfterStop
  BY DEF MemoryInv, PublishInv, QuietAfterStop
<1> QED BY <1>1, BrokerCorrect, PTL

\* nats.go: what the stream stored for a node has been handled by it, is kept
\* for it or is too old, through any number of crashes, restarts, lost
\* connections and lost acknowledgements.
THEOREM NothingEverDropped == BrokerSpec => []NothingDropped
<1>1. NatsInv => NothingDropped
  BY DEF NatsInv
<1> QED BY <1>1, BrokerCorrect, PTL
================================================================================

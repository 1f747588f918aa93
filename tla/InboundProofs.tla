----------------------------- MODULE InboundProofs -----------------------------
(******************************************************************************)
(* Proofs about RateLimiter, for every limit, interval, window and set of     *)
(* callers; then about Protocol, for every frame; then about Inbound, the     *)
(* read loop that uses both, for every set of frames a peer may send.         *)
(******************************************************************************)
EXTENDS Inbound, TLAPS

--------------------------------------------------------------------------------
(* The token bucket. *)

\* Refills add up: the one step of non-linear arithmetic the proofs need.
LEMMA RefillAdds ==
    ASSUME NEW a \in Int, NEW b \in Int, NEW c \in Int
    PROVE  /\ Limit * (a - b) \in Int
           /\ Limit * (a - b) + Limit * (b - c) = Limit * (a - c)
BY LimitAssumption

\* A longer wait never refills less.
LEMMA RefillMonotone ==
    ASSUME NEW a \in Int, NEW b \in Int, a <= b
    PROVE  Limit * a <= Limit * b
BY LimitAssumption

LEMMA InitBucketInv == Init => TypeOK /\ BucketInv
<1> SUFFICES ASSUME Init PROVE TypeOK /\ BucketInv
  OBVIOUS
<1>1. Capacity \in Nat
  BY LimitAssumption DEF Capacity
<1>2. TypeOK
  BY <1>1, MaxTimeAssumption DEF Init, TypeOK, NoStamp
<1>3. BucketInv
  <2>1. Limit * (latest - lastRefreshed) = 0
    BY LimitAssumption DEF Init
  <2>2. lastRefreshed >= winStart => Limit * (lastRefreshed - winStart) = 0
    BY LimitAssumption, MaxTimeAssumption DEF Init
  <2> QED BY <1>1, <2>1, <2>2, LimitAssumption, MaxTimeAssumption
          DEF Init, BucketInv, Least
<1> QED BY <1>2, <1>3

\* One critical section of an enabled limiter keeps the bounds on the bucket.
LEMMA AllowAtBucketInv ==
    ASSUME TypeOK, BucketInv, Enabled, NEW p \in Caller, AllowAt(p)
    PROVE  BucketInv'
<1> DEFINE now == stamp[p]
           refill == Limit * (now - lastRefreshed)
           since == Limit * (lastRefreshed - winStart)
           paid == winAdmitted * Interval
           admitted == Refilled(now) >= Interval
<1>1. /\ now \in Nat /\ lastRefreshed \in Nat /\ winStart \in Nat /\ latest \in Nat
      /\ winAdmitted \in Nat /\ credit \in Int
  BY DEF TypeOK, AllowAt
<1>2. /\ Capacity \in Nat /\ paid \in Nat /\ refill \in Int /\ since \in Int
      /\ Limit \in Nat /\ Interval \in Nat /\ Limit > 0 /\ Interval > 0
  BY <1>1, LimitAssumption DEF Capacity, Enabled
<1>3. Capacity >= Interval
  BY <1>2 DEF Capacity
<1>4. /\ lastRefreshed' = now
      /\ winStart' = winStart
      /\ credit' = IF admitted THEN Refilled(now) - Interval ELSE Refilled(now)
      /\ winAdmitted' = IF admitted /\ now >= winStart THEN winAdmitted + 1 ELSE winAdmitted
      /\ latest' = IF now > latest THEN now ELSE latest
      /\ inOrder' = (inOrder /\ now >= lastRefreshed)
  BY DEF AllowAt, Record
<1>5. Refilled(now) = Least(Capacity, credit + refill)
  BY DEF Refilled
<1>6. /\ Refilled(now) \in Int /\ Refilled(now) <= Capacity
      /\ Refilled(now) <= credit + refill
      /\ Refilled(now) = Capacity \/ Refilled(now) = credit + refill
  BY <1>1, <1>2, <1>5 DEF Least
<1>7. /\ credit' \in Int /\ credit' <= Refilled(now)
      /\ credit' >= 0 \/ credit' = Refilled(now)
      /\ credit' = Refilled(now) \/ credit' = Refilled(now) - Interval
  BY <1>2, <1>4, <1>6
<1>8. Limit * (now - winStart) = refill + since
  BY <1>1, RefillAdds
<1>9. (winAdmitted + 1) * Interval = paid + Interval
  BY <1>1, <1>2
<1>10. credit' <= Capacity
  BY <1>2, <1>6, <1>7
<1>11. credit' + Limit * (latest' - now) >= 0
  <2>1. PICK hi \in Nat : hi = latest' /\ hi >= now /\ hi >= latest
    BY <1>1, <1>4
  <2> SUFFICES credit' + Limit * (hi - now) >= 0
    BY <2>1
  <2>2. Limit * (hi - now) >= 0
    <3>1. Limit * 0 <= Limit * (hi - now)
      BY <1>1, <2>1, RefillMonotone
    <3> QED BY <1>1, <1>2, <2>1, <3>1
  <2>3. Limit * (hi - now) + refill >= Limit * (latest - lastRefreshed)
    <3>1. Limit * (hi - now) + refill = Limit * (hi - lastRefreshed)
      BY <1>1, <1>2, <2>1
    <3>2. Limit * (latest - lastRefreshed) <= Limit * (hi - lastRefreshed)
      BY <1>1, <2>1, RefillMonotone
    <3> QED BY <3>1, <3>2
  <2>4. credit + Limit * (latest - lastRefreshed) >= 0
    BY DEF BucketInv
  <2>5. Limit * (hi - now) \in Int /\ Limit * (latest - lastRefreshed) \in Int
    BY <1>1, <1>2, <2>1
  <2>6. CASE credit' >= 0
    BY <1>7, <2>2, <2>5, <2>6
  <2>7. CASE credit' = Refilled(now) /\ Refilled(now) = Capacity
    BY <1>2, <2>2, <2>5, <2>7
  <2>8. CASE credit' = Refilled(now) /\ Refilled(now) = credit + refill
    BY <1>1, <1>2, <2>3, <2>4, <2>5, <2>8
  <2> QED BY <1>6, <1>7, <2>6, <2>7, <2>8
<1>12. now <= latest'
  BY <1>1, <1>4
<1>13. winAdmitted' > 0 =>
         winAdmitted' * Interval + credit' <= Capacity + Limit * (now - winStart)
  <2> SUFFICES ASSUME winAdmitted' > 0
               PROVE  winAdmitted' * Interval + credit' <= Capacity + refill + since
    BY <1>1, <1>2, <1>8
  <2>0. winAdmitted > 0 => paid + credit <= Capacity + since
    BY DEF BucketInv
  <2>1. CASE admitted /\ now >= winStart
    <3>1. winAdmitted' * Interval = paid + Interval /\ credit' = Refilled(now) - Interval
      BY <1>4, <1>9, <2>1
    <3>2. CASE winAdmitted > 0
      BY <1>1, <1>2, <1>6, <2>0, <3>1, <3>2
    <3>3. CASE winAdmitted = 0
      <4>1. Limit * 0 <= Limit * (now - winStart)
        BY <1>1, <2>1, RefillMonotone
      <4>2. refill + since >= 0
        BY <1>2, <1>8, <4>1
      <4>3. paid = 0
        BY <1>2, <3>3
      <4> QED BY <1>2, <1>6, <3>1, <4>2, <4>3
    <3> QED BY <1>1, <3>2, <3>3
  <2>2. CASE ~ (admitted /\ now >= winStart)
    <3>1. winAdmitted' = winAdmitted
      BY <1>4, <2>2
    <3> QED BY <1>1, <1>2, <1>6, <1>7, <2>0, <3>1
  <2> QED BY <2>1, <2>2
<1>14. ASSUME inOrder'
       PROVE  /\ credit' >= 0
              /\ now >= winStart =>
                   credit' + winAdmitted' * Interval >= Least(Capacity, Limit * (now - winStart))
              /\ now < winStart => winAdmitted' = 0
  <2>1. inOrder /\ now >= lastRefreshed
    BY <1>4, <1>14
  <2>2. /\ credit >= 0
        /\ lastRefreshed >= winStart => credit + paid >= Least(Capacity, since)
        /\ lastRefreshed < winStart => winAdmitted = 0
    BY <2>1 DEF BucketInv
  <2>3. refill >= 0
    <3>1. Limit * 0 <= Limit * (now - lastRefreshed)
      BY <1>1, <2>1, RefillMonotone
    <3> QED BY <1>2, <3>1
  <2>4. Refilled(now) >= 0
    BY <1>1, <1>2, <1>6, <2>2, <2>3
  <2>5. credit' >= 0
    BY <1>2, <1>4, <1>6, <2>4
  <2>6. ASSUME now >= winStart
        PROVE  credit' + winAdmitted' * Interval >= Least(Capacity, refill + since)
    <3>1. credit' + winAdmitted' * Interval = Refilled(now) + paid
      BY <1>2, <1>4, <1>6, <1>9, <2>6
    <3>2. Refilled(now) + paid >= Least(Capacity, refill + since)
      <4>1. CASE Refilled(now) = Capacity
        BY <1>2, <4>1 DEF Least
      <4>2. CASE Refilled(now) = credit + refill /\ lastRefreshed >= winStart
        BY <1>1, <1>2, <2>2, <2>3, <4>2 DEF Least
      <4>3. CASE Refilled(now) = credit + refill /\ lastRefreshed < winStart
        <5>1. Limit * (lastRefreshed - winStart) <= Limit * 0
          BY <1>1, <4>3, RefillMonotone
        <5>2. since <= 0
          BY <1>2, <5>1
        <5> QED BY <1>1, <1>2, <2>2, <4>3, <5>2 DEF Least
      <4> QED BY <1>1, <1>6, <4>1, <4>2, <4>3
    <3> QED BY <3>1, <3>2
  <2>7. now < winStart => winAdmitted' = 0
    BY <1>1, <1>4, <2>1, <2>2
  <2> QED BY <1>8, <2>5, <2>6, <2>7
<1> QED
  <2>1. Capacity' = Capacity
    BY DEF Capacity
  <2> QED BY <1>4, <1>10, <1>11, <1>12, <1>13, <1>14, <2>1 DEF BucketInv, Enabled, Least

\* Every step keeps the types and the bounds on the bucket.
LEMMA NextBucketInv == TypeOK /\ BucketInv /\ [Next]_vars => TypeOK' /\ BucketInv'
<1> SUFFICES ASSUME TypeOK, BucketInv, [Next]_vars PROVE TypeOK' /\ BucketInv'
  OBVIOUS
<1>1. CASE Tick \/ (\E p \in Caller : Allow(p)) \/ UNCHANGED vars
  <2>1. UNCHANGED <<credit, lastRefreshed, winStart, winAdmitted, latest, inOrder, outcome>>
    BY <1>1 DEF Tick, Allow, vars
  <2>2. BucketInv'
    BY <2>1 DEF BucketInv, Enabled, Capacity, Least
  <2>3. clock' \in Nat /\ stamp' \in [Caller -> Nat \cup {NoStamp}]
    BY <1>1 DEF TypeOK, Tick, Allow, vars
  <2> QED BY <2>1, <2>2, <2>3 DEF TypeOK, Capacity
<1>2. ASSUME NEW p \in Caller, AllowAt(p)
      PROVE  TypeOK' /\ BucketInv'
  <2>1. stamp[p] \in Nat /\ stamp' \in [Caller -> Nat \cup {NoStamp}]
    BY <1>2 DEF TypeOK, AllowAt
  <2>2. UNCHANGED <<clock, winStart>>
    BY <1>2 DEF AllowAt
  <2>3. /\ winAdmitted' \in Nat /\ latest' \in Nat /\ inOrder' \in BOOLEAN
        /\ outcome' \in {"none", "admitted", "refused"}
    <3>1. winAdmitted' \in Nat
      BY <1>2, <2>1 DEF TypeOK, AllowAt, Record
    <3>2. latest' \in Nat
      BY <1>2, <2>1 DEF TypeOK, AllowAt, Record
    <3>3. inOrder' = (inOrder /\ stamp[p] >= lastRefreshed)
      BY <1>2 DEF AllowAt, Record
    <3>4. outcome' \in {"none", "admitted", "refused"}
      BY <1>2 DEF AllowAt, Record
    <3> QED BY <3>1, <3>2, <3>3, <3>4
  <2>4. CASE Enabled
    <3>1. Refilled(stamp[p]) \in Int
      BY <2>1, LimitAssumption DEF Refilled, Least, Capacity, TypeOK
    <3>2. credit' \in Int /\ lastRefreshed' \in Nat
      BY <1>2, <2>1, <2>4, <3>1, LimitAssumption DEF AllowAt
    <3>3. credit' <= Capacity
      BY <1>2, <2>4, AllowAtBucketInv DEF BucketInv, Enabled, Capacity
    <3>4. TypeOK'
      BY <2>1, <2>2, <2>3, <3>2, <3>3 DEF TypeOK, Capacity
    <3> QED BY <1>2, <2>4, <3>4, AllowAtBucketInv
  <2>5. CASE ~ Enabled
    <3>1. UNCHANGED <<credit, lastRefreshed>>
      BY <1>2, <2>5 DEF AllowAt
    <3> QED BY <2>1, <2>2, <2>3, <2>5, <3>1 DEF TypeOK, BucketInv, Enabled, Capacity
  <2> QED BY <2>4, <2>5
<1> QED BY <1>1, <1>2 DEF Next

\* The types and the bounds on the bucket hold in every reachable state.
THEOREM BucketCorrect == Spec => [](TypeOK /\ BucketInv)
<1>1. Init => TypeOK /\ BucketInv
  BY InitBucketInv
<1>2. (TypeOK /\ BucketInv) /\ [Next]_vars => (TypeOK /\ BucketInv)'
  BY NextBucketInv
<1> QED BY <1>1, <1>2, PTL DEF Spec

\* In any window, whatever order concurrent callers' timestamps are applied in,
\* AllowAt admits at most the burst plus the refill of the window.
THEOREM WindowBounded == Spec => []WindowBound
<1>1. TypeOK /\ BucketInv => WindowBound
  <2> SUFFICES ASSUME TypeOK, BucketInv, Enabled, winAdmitted > 0
               PROVE  winAdmitted * Interval <= Capacity + Limit * (latest - winStart)
    BY DEF WindowBound
  <2>1. /\ winAdmitted * Interval \in Int /\ Capacity \in Int
        /\ credit \in Int
        /\ Limit * (latest - lastRefreshed) \in Int
        /\ Limit * (lastRefreshed - winStart) \in Int
    BY LimitAssumption DEF TypeOK, Capacity
  <2>2. /\ credit + Limit * (latest - lastRefreshed) >= 0
        /\ winAdmitted * Interval + credit <= Capacity + Limit * (lastRefreshed - winStart)
    BY DEF BucketInv
  <2>3. Limit * (latest - lastRefreshed) + Limit * (lastRefreshed - winStart)
          = Limit * (latest - winStart)
    BY LimitAssumption DEF TypeOK
  <2> QED BY <2>1, <2>2, <2>3
<1> QED BY <1>1, BucketCorrect, PTL

\* Types of the limiter in every reachable state.
THEOREM LimiterTypeCorrect == Spec => []TypeOK
<1>1. TypeOK /\ BucketInv => TypeOK
  OBVIOUS
<1> QED BY <1>1, BucketCorrect, PTL

\* A session is told rate_limit_exceeded only after Limit messages were admitted
\* within the last Interval, provided timestamps were applied in order, as they
\* are when one reader owns the limiter.
THEOREM RefusalsJustified == Spec => []RefusalJustified
<1>1. Init => RefusedInv
  BY DEF Init, RefusedInv
<1>2. TypeOK /\ RefusedInv /\ [Next]_vars => RefusedInv'
  <2> SUFFICES ASSUME TypeOK, RefusedInv, [Next]_vars PROVE RefusedInv'
    OBVIOUS
  <2>1. CASE UNCHANGED <<outcome, credit>>
    BY <2>1 DEF RefusedInv, Enabled
  <2>2. ASSUME NEW p \in Caller, AllowAt(p) PROVE RefusedInv'
    <3>1. stamp[p] \in Nat /\ credit \in Int /\ lastRefreshed \in Nat
      BY <2>2 DEF TypeOK, AllowAt
    <3>2. Refilled(stamp[p]) \in Int
      BY <3>1, LimitAssumption DEF Refilled, Least, Capacity
    <3>3. CASE Enabled /\ Refilled(stamp[p]) < Interval
      <4>1. credit' = Refilled(stamp[p])
        BY <2>2, <3>2, <3>3, LimitAssumption DEF AllowAt
      <4> QED BY <3>3, <4>1 DEF RefusedInv, Enabled
    <3>4. CASE ~ Enabled \/ Refilled(stamp[p]) >= Interval
      <4>1. outcome' = "admitted"
        BY <2>2, <3>4 DEF AllowAt, Record
      <4> QED BY <4>1 DEF RefusedInv
    <3> QED BY <3>2, <3>3, <3>4, LimitAssumption
  <2>3. CASE Tick \/ (\E p \in Caller : Allow(p)) \/ UNCHANGED vars
    BY <2>1, <2>3 DEF Tick, Allow, vars
  <2> QED BY <2>2, <2>3 DEF Next
<1>3. TypeOK /\ BucketInv /\ RefusedInv => RefusalJustified
  <2> SUFFICES ASSUME TypeOK, BucketInv, RefusedInv, inOrder, outcome = "refused",
                      lastRefreshed - winStart >= Interval
               PROVE  winAdmitted >= Limit
    BY DEF RefusalJustified
  <2>1. /\ Limit \in Nat /\ Interval \in Nat /\ Limit > 0 /\ Interval > 0
        /\ credit \in Int /\ credit < Interval
        /\ winAdmitted \in Nat /\ lastRefreshed \in Nat /\ winStart \in Nat
    BY LimitAssumption DEF TypeOK, RefusedInv, Enabled
  <2>2. credit + winAdmitted * Interval >= Least(Capacity, Limit * (lastRefreshed - winStart))
    BY <2>1 DEF BucketInv, Enabled
  <2>3. Limit * Interval <= Limit * (lastRefreshed - winStart)
    BY <2>1, RefillMonotone
  <2>4. credit + winAdmitted * Interval >= Limit * Interval
    BY <2>1, <2>2, <2>3 DEF Least, Capacity
  <2>5. ASSUME winAdmitted < Limit PROVE FALSE
    <3>1. winAdmitted * Interval + Interval = (winAdmitted + 1) * Interval
      BY <2>1
    <3>2. (winAdmitted + 1) * Interval <= Limit * Interval
      BY <2>1, <2>5
    <3>3. winAdmitted * Interval \in Int /\ Limit * Interval \in Int
      BY <2>1
    <3>4. winAdmitted * Interval + Interval <= Limit * Interval
      BY <3>1, <3>2
    <3> QED BY <2>1, <2>4, <3>3, <3>4
  <2> QED BY <2>1, <2>5
<1> QED BY <1>1, <1>2, <1>3, BucketCorrect, PTL DEF Spec

--------------------------------------------------------------------------------
(* The decoder. *)

\* The fields of a frame, in the classes of text the protocol tells apart.
LEMMA FrameFields ==
    ASSUME NEW f \in Frame
    PROVE  /\ f.binary \in BOOLEAN /\ f.json \in {"object", "trailing", "invalid"}
           /\ f.version \in {"1", "padded", "2"} /\ f.type \in CommandTypes \cup {"other"}
           /\ f.requestID \in Text /\ f.roomID \in Text /\ f.recipientID \in Text
           /\ f.payload \in {"object", "absent", "other"}
BY DEF Frame

\* TrimSpace leaves nothing of what is not present, and its result is trimmed.
LEMMA Trimmed ==
    ASSUME NEW s \in Text
    PROVE  /\ TrimSpace(s) = "" <=> ~ Present(s)
           /\ Exceeds(TrimSpace(s)) <=> s = "long"
           /\ TrimSpace(TrimSpace(s)) = TrimSpace(s)
<1>1. CASE s \in {"", "blank"}
  BY <1>1 DEF TrimSpace, Present, Exceeds
<1>2. CASE s \in {"id", "padded", "wide"}
  BY <1>2 DEF TrimSpace, Present, Exceeds
<1>3. CASE s = "long"
  BY <1>3 DEF TrimSpace, Present, Exceeds
<1> QED BY <1>1, <1>2, <1>3 DEF Text

\* The switch of Validate asks for the fields that the protocol requires.
LEMMA MissingIsRequired ==
    ASSUME NEW f \in Frame, f.type \in CommandTypes
    PROVE  MissingField(f) <=> ~ (Required[f.type] \subseteq Carried(f))
<1>1. /\ TrimSpace(f.roomID) = "" <=> ~ Present(f.roomID)
      /\ TrimSpace(f.recipientID) = "" <=> ~ Present(f.recipientID)
  BY FrameFields, Trimmed
<1>2. /\ "room_id" \in Carried(f) <=> Present(f.roomID)
      /\ "recipient_id" \in Carried(f) <=> Present(f.recipientID)
      /\ "payload" \in Carried(f) <=> f.payload = "object"
  BY DEF Carried
<1>3. CASE f.type \in {"room.join", "room.leave"}
  <2>1. Required[f.type] = {"room_id"}
    BY <1>3 DEF Required, CommandTypes
  <2> QED BY <1>1, <1>3, <1>2, <2>1 DEF MissingField
<1>4. CASE f.type = "room.broadcast"
  <2>1. Required[f.type] = {"room_id", "payload"}
    BY <1>4 DEF Required, CommandTypes
  <2> QED BY <1>1, <1>4, <1>2, <2>1 DEF MissingField
<1>5. CASE f.type = "private.send"
  <2>1. Required[f.type] = {"recipient_id", "payload"}
    BY <1>5 DEF Required, CommandTypes
  <2> QED BY <1>1, <1>5, <1>2, <2>1 DEF MissingField
<1> QED BY <1>3, <1>4, <1>5 DEF CommandTypes

\* Every code names another fault than none.
LEMMA CodesAreFaults ==
    ASSUME NEW code \in DecoderCodes, NEW requestID
    PROVE  /\ Fault(code, requestID) # NoFault
           /\ Fault(code, requestID).code = code
           /\ Fault(code, requestID).requestID = requestID
<1>1. Fault(code, requestID).code = code /\ Fault(code, requestID).requestID = requestID
  BY DEF Fault
<1>2. NoFault.code = "none"
  BY DEF Fault, NoFault
<1> QED BY <1>1, <1>2 DEF DecoderCodes

\* Validate: no fault for well-formed commands only, and otherwise one the frame
\* deserves, with the request id trimmed.
LEMMA ValidateIsRight ==
    ASSUME NEW f \in Frame, ~ f.binary, f.json = "object"
    PROVE  /\ Validate(f) = NoFault <=> WellFormed(f)
           /\ Validate(f) # NoFault =>
                /\ Validate(f).code \in DecoderCodes
                /\ Deserves(f, Validate(f).code)
                /\ Validate(f).requestID = TrimSpace(f.requestID)
<1> DEFINE r == TrimSpace(f.requestID)
<1>1. /\ r = "" <=> ~ Present(f.requestID)
      /\ Exceeds(r) <=> f.requestID = "long"
  BY FrameFields, Trimmed
<1>2. Exceeds(f.roomID) \/ Exceeds(f.recipientID)
        <=> {f.roomID, f.recipientID} \cap {"wide", "long"} # {}
  BY DEF Exceeds
<1>3. f.type \in CommandTypes \cup {"other"}
  BY FrameFields
<1> HIDE DEF r
<1>4. CASE f.version = "2"
  <2>1. Validate(f) = Fault("unsupported_version", r)
    BY <1>4 DEF Validate, r
  <2>2. ~ WellFormed(f) /\ Deserves(f, "unsupported_version")
    BY <1>4 DEF WellFormed, Deserves
  <2> QED BY <2>1, <2>2, CodesAreFaults DEF DecoderCodes, r
<1>5. CASE f.version # "2" /\ (r = "" \/ Exceeds(r))
  <2>1. Validate(f) = Fault("invalid_message", r)
    BY <1>5 DEF Validate, r
  <2>2. ~ WellFormed(f)
    BY <1>1, <1>5 DEF WellFormed
  <2>3. Deserves(f, "invalid_message")
    BY <1>5, <2>2 DEF Deserves
  <2> QED BY <2>1, <2>2, <2>3, CodesAreFaults DEF DecoderCodes, r
<1>6. CASE f.version # "2" /\ ~ (r = "" \/ Exceeds(r)) /\ f.type \notin CommandTypes
  <2>1. Validate(f) = Fault("unknown_message_type", r)
    BY <1>6 DEF Validate, r
  <2>2. ~ WellFormed(f) /\ Deserves(f, "unknown_message_type")
    BY <1>3, <1>6 DEF WellFormed, Deserves
  <2> QED BY <2>1, <2>2, CodesAreFaults DEF DecoderCodes, r
<1>7. CASE /\ f.version # "2" /\ ~ (r = "" \/ Exceeds(r)) /\ f.type \in CommandTypes
           /\ MissingField(f) \/ Exceeds(f.roomID) \/ Exceeds(f.recipientID)
  <2>1. Validate(f) = Fault("invalid_message", r)
    BY <1>7 DEF Validate, r
  <2>2. ~ WellFormed(f)
    BY <1>2, <1>7, MissingIsRequired DEF WellFormed
  <2>3. Deserves(f, "invalid_message")
    BY <1>7, <2>2 DEF Deserves
  <2> QED BY <2>1, <2>2, <2>3, CodesAreFaults DEF DecoderCodes, r
<1>8. CASE /\ f.version # "2" /\ ~ (r = "" \/ Exceeds(r)) /\ f.type \in CommandTypes
           /\ ~ (MissingField(f) \/ Exceeds(f.roomID) \/ Exceeds(f.recipientID))
  <2>1. Validate(f) = NoFault
    BY <1>8 DEF Validate, r
  <2>2. WellFormed(f)
    BY <1>1, <1>2, <1>8, MissingIsRequired DEF WellFormed
  <2> QED BY <2>1, <2>2
<1> QED BY <1>4, <1>5, <1>6, <1>7, <1>8

\* DecodeInbound of message.go, which stops at the first rule a frame breaks,
\* accepts exactly the commands its document describes; a frame it refuses has
\* the fault the code names; and the fault names the request of the frame, up
\* to the blanks around it, unless no object could be decoded.
THEOREM DecoderIsRight ==
    \A f \in Frame : ~ f.binary =>
        /\ DecodeInbound(f) = NoFault <=> WellFormed(f)
        /\ DecodeInbound(f) # NoFault =>
             /\ DecodeInbound(f).code \in DecoderCodes
             /\ Deserves(f, DecodeInbound(f).code)
             /\ f.json # "invalid" =>
                  TrimSpace(DecodeInbound(f).requestID) = TrimSpace(f.requestID)
<1> SUFFICES ASSUME NEW f \in Frame, ~ f.binary
             PROVE  DecoderIsRight!(f)!2
  OBVIOUS
<1>1. CASE f.json = "invalid"
  <2>1. PICK id : DecodeInbound(f) = Fault("invalid_json", id)
    BY <1>1 DEF DecodeInbound
  <2>2. ~ WellFormed(f) /\ Deserves(f, "invalid_json")
    BY <1>1 DEF WellFormed, Deserves
  <2>3. "invalid_json" \in DecoderCodes
    BY DEF DecoderCodes
  <2>4. DecodeInbound(f) # NoFault /\ DecodeInbound(f).code = "invalid_json"
    BY <2>1, <2>3, CodesAreFaults
  <2> QED BY <1>1, <2>2, <2>3, <2>4
<1>2. CASE f.json = "trailing"
  <2>1. DecodeInbound(f) = Fault("invalid_json", f.requestID)
    BY <1>2 DEF DecodeInbound
  <2>2. ~ WellFormed(f) /\ Deserves(f, "invalid_json")
    BY <1>2 DEF WellFormed, Deserves
  <2> QED BY <2>1, <2>2, CodesAreFaults DEF DecoderCodes
<1>3. CASE f.json = "object"
  <2>1. DecodeInbound(f) = Validate(f)
    BY <1>3 DEF DecodeInbound
  <2>2. TrimSpace(TrimSpace(f.requestID)) = TrimSpace(f.requestID)
    BY FrameFields, Trimmed
  <2> QED BY <1>3, <2>1, <2>2, ValidateIsRight
<1> QED BY <1>1, <1>2, <1>3, FrameFields

--------------------------------------------------------------------------------
(* The read loop. *)

\* The loop is a caller of the limiter, and its only one: everything proved of
\* the limiter holds in a session.
THEOREM SessionUsesLimiter == InboundSpec => Spec
<1>1. InboundInit => Init
  BY DEF InboundInit
<1>2. [InboundNext]_inboundVars => [Next]_vars
  BY ReaderAssumption
     DEF InboundNext, inboundVars, Receive, Throttle, RejectFrame, Execute, Answer, ReadFails,
         Time, Next
<1> QED BY <1>1, <1>2, PTL DEF InboundSpec, Spec

\* The reader stamps a message after it has applied the stamp before.
OrderInv ==
    /\ inOrder
    /\ \A p \in Caller : stamp[p] # NoStamp => p = Reader
    /\ stamp[Reader] = NoStamp => lastRefreshed <= clock
    /\ stamp[Reader] # NoStamp => lastRefreshed <= stamp[Reader] /\ stamp[Reader] <= clock

\* Of the frame the loop is at work on it knows what the limiter said; it has
\* executed nothing before it has answered, and its answers are as they should.
AnswerInv ==
    /\ reader \in {"reading", "limiting", "deciding", "answering", "stopped"}
    /\ reader \in {"limiting", "deciding", "answering"} => frame \in Sent
    /\ reader \in {"deciding", "answering"} => outcome \in {"admitted", "refused"}
    /\ reader \in {"reading", "limiting", "deciding"} => executed = FALSE
    /\ AnswerIsHonest
    /\ AnswerNamesRequest

\* In a session timestamps are applied in order, because one goroutine reads the
\* clock and calls AllowAt.
LEMMA OrderKept ==
    InboundSpec => []OrderInv
<1>1. InboundInit => OrderInv
  BY ReaderAssumption DEF InboundInit, Init, OrderInv, NoStamp
<1>2. TypeOK /\ OrderInv /\ [InboundNext]_inboundVars => OrderInv'
  <2> SUFFICES ASSUME TypeOK, OrderInv, [InboundNext]_inboundVars PROVE OrderInv'
    OBVIOUS
  <2>1. CASE Allow(Reader)
    BY <2>1, ReaderAssumption DEF Allow, OrderInv, TypeOK, NoStamp
  <2>2. CASE AllowAt(Reader)
    <3>1. /\ stamp[Reader] \in Nat /\ lastRefreshed <= stamp[Reader] /\ stamp[Reader] <= clock
          /\ lastRefreshed \in Nat /\ clock \in Nat
      BY <2>2, ReaderAssumption DEF AllowAt, OrderInv, TypeOK
    <3>2. /\ lastRefreshed' \in {stamp[Reader], lastRefreshed} /\ clock' = clock
          /\ inOrder' = (inOrder /\ stamp[Reader] >= lastRefreshed)
          /\ stamp' = [stamp EXCEPT ![Reader] = NoStamp]
      BY <2>2 DEF AllowAt, Record
    <3>3. inOrder'
      BY <3>1, <3>2 DEF OrderInv
    <3> QED BY <3>1, <3>2, <3>3, ReaderAssumption DEF OrderInv, TypeOK
  <2>3. CASE Tick
    <3>1. clock' = clock + 1 /\ UNCHANGED <<stamp, lastRefreshed, inOrder>>
      BY <2>3 DEF Tick
    <3>2. clock \in Nat /\ lastRefreshed \in Nat /\ stamp[Reader] \in Nat \cup {NoStamp}
      BY ReaderAssumption DEF TypeOK
    <3> QED BY <3>1, <3>2 DEF OrderInv
  <2>4. CASE UNCHANGED vars
    BY <2>4 DEF vars, OrderInv
  <2> QED BY <2>1, <2>2, <2>3, <2>4
          DEF InboundNext, inboundVars, Receive, Throttle, RejectFrame, Execute, Answer,
              ReadFails, Time
<1> QED BY <1>1, <1>2, SessionUsesLimiter, LimiterTypeCorrect, PTL DEF InboundSpec

\* So a session is told rate_limit_exceeded only after Limit of its messages were
\* admitted within the last Interval: the proviso of RefusalJustified is met.
THEOREM SessionRefusalsJustified ==
    InboundSpec => [](RefusalJustified /\ inOrder)
<1>1. OrderInv => inOrder
  BY DEF OrderInv
<1> QED BY <1>1, OrderKept, SessionUsesLimiter, RefusalsJustified, PTL

\* RejectFrame answers what the limiter refused or the decoder found.
LEMMA RejectionIsRight ==
    ASSUME NEW f \in Frame, outcome \in {"admitted", "refused"}
    PROVE  LET r == Rejection(f) IN
           /\ r = NoReply <=> outcome = "admitted" /\ WellFormed(f)
           /\ r # NoReply =>
                /\ r.type = "error"
                /\ r.code = "rate_limit_exceeded" <=> outcome = "refused" /\ ~ f.binary
                /\ r.code \in DecoderCodes => Deserves(f, r.code)
                /\ ~ f.binary /\ f.json # "invalid" =>
                     TrimSpace(r.requestID) = TrimSpace(f.requestID)
<1> DEFINE r == Rejection(f)  d == DecodeInbound(f)
<1>0. ASSUME NEW code, code # "none", NEW id
      PROVE  /\ Reply("error", id, code) # NoReply /\ Reply("error", id, code).type = "error"
             /\ Reply("error", id, code).code = code /\ Reply("error", id, code).requestID = id
  <2>1. NoReply.code = "none"
    BY DEF NoReply, Reply
  <2>2. /\ Reply("error", id, code).type = "error"
        /\ Reply("error", id, code).code = code /\ Reply("error", id, code).requestID = id
    BY DEF Reply
  <2> QED BY <1>0, <2>1, <2>2
<1>1. CASE f.binary
  <2>1. PICK id : r = Reply("error", id, "invalid_message")
    BY <1>1 DEF Rejection
  <2>2. ~ WellFormed(f) /\ Deserves(f, "invalid_message")
    BY <1>1 DEF WellFormed, Deserves
  <2>3. r # NoReply /\ r.type = "error" /\ r.code = "invalid_message"
    BY <1>0, <2>1
  <2> QED BY <1>1, <2>2, <2>3
<1>2. CASE ~ f.binary /\ outcome = "refused"
  <2>1. r = Reply("error", RefusedID(f), "rate_limit_exceeded")
    BY <1>2 DEF Rejection
  <2>2. f.json # "invalid" => TrimSpace(RefusedID(f)) = TrimSpace(f.requestID)
    BY <1>2, DecoderIsRight DEF RefusedID
  <2>3. /\ r # NoReply /\ r.type = "error" /\ r.code = "rate_limit_exceeded"
        /\ r.requestID = RefusedID(f)
    BY <1>0, <2>1
  <2>4. r.code \notin DecoderCodes
    BY <2>3 DEF DecoderCodes
  <2> QED BY <1>2, <2>2, <2>3, <2>4
<1>3. CASE ~ f.binary /\ outcome # "refused" /\ d # NoFault
  <2>1. r = Reply("error", d.requestID, d.code)
    BY <1>3 DEF Rejection
  <2>2. /\ ~ WellFormed(f) /\ d.code \in DecoderCodes /\ Deserves(f, d.code)
        /\ f.json # "invalid" => TrimSpace(d.requestID) = TrimSpace(f.requestID)
    BY <1>3, DecoderIsRight
  <2>3. d.code # "none" /\ d.code # "rate_limit_exceeded"
    BY <2>2 DEF DecoderCodes
  <2> HIDE DEF d
  <2>4. r # NoReply /\ r.type = "error" /\ r.code = d.code /\ r.requestID = d.requestID
    BY <1>0, <2>1, <2>3
  <2> QED BY <1>3, <2>2, <2>3, <2>4
<1>4. CASE ~ f.binary /\ outcome # "refused" /\ d = NoFault
  BY <1>4, DecoderIsRight DEF Rejection
<1> QED BY <1>1, <1>2, <1>3, <1>4

\* What the hub returns for a command is neither the decoder's nor the limiter's.
LEMMA HubCodes ==
    ASSUME NEW t \in CommandTypes, NEW result \in HubResults[t]
    PROVE  result \notin DecoderCodes /\ result # "rate_limit_exceeded" /\ result # "none"
<1>1. CASE t = "room.leave"
  BY <1>1 DEF HubResults, CommandTypes, DecoderCodes
<1>2. CASE t \in {"room.join", "room.broadcast"}
  BY <1>2 DEF HubResults, CommandTypes, DecoderCodes
<1>3. CASE t = "private.send"
  BY <1>3 DEF HubResults, CommandTypes, DecoderCodes
<1> QED BY <1>1, <1>2, <1>3 DEF CommandTypes

\* The frame is rejected.
LEMMA RejectFrameInv ==
    ASSUME AnswerInv, RejectFrame
    PROVE  AnswerInv'
<1>1. /\ reader = "deciding" /\ reader' = "answering" /\ Rejection(frame) # NoReply
      /\ answer' = Rejection(frame) /\ UNCHANGED <<frame, executed, outcome>>
  BY DEF RejectFrame, vars
<1>2. /\ frame \in Sent /\ frame \in Frame /\ outcome \in {"admitted", "refused"}
      /\ executed = FALSE
  BY <1>1, SentAssumption DEF AnswerInv
<1>3. /\ ~ (outcome = "admitted" /\ WellFormed(frame))
      /\ answer'.type = "error"
      /\ answer'.code = "rate_limit_exceeded" <=> outcome = "refused" /\ ~ frame.binary
      /\ answer'.code \in DecoderCodes => Deserves(frame, answer'.code)
      /\ ~ frame.binary /\ frame.json # "invalid" =>
           TrimSpace(answer'.requestID) = TrimSpace(frame.requestID)
  BY <1>1, <1>2, RejectionIsRight
<1>4. AnswerIsHonest'
  BY <1>1, <1>2, <1>3 DEF AnswerIsHonest
<1>5. AnswerNamesRequest'
  BY <1>1, <1>3 DEF AnswerNamesRequest
<1> QED BY <1>1, <1>2, <1>4, <1>5 DEF AnswerInv

\* The command is executed.
LEMMA ExecuteInv ==
    ASSUME AnswerInv, Execute
    PROVE  AnswerInv'
<1>1. /\ reader = "deciding" /\ reader' = "answering" /\ Rejection(frame) = NoReply
      /\ UNCHANGED <<frame, outcome>>
  BY DEF Execute, vars
<1>2. frame \in Sent /\ frame \in Frame /\ outcome \in {"admitted", "refused"}
  BY <1>1, SentAssumption DEF AnswerInv
<1>3. outcome = "admitted" /\ WellFormed(frame)
  BY <1>1, <1>2, RejectionIsRight
<1>4. PICK result \in HubResults[frame.type] :
        /\ executed' = (result = "ok")
        /\ answer' = IF result = "ok" THEN Reply("command.ack", frame.requestID, "none")
                     ELSE Reply("error", frame.requestID, result)
  BY DEF Execute
<1>5. frame.type \in CommandTypes
  BY <1>3 DEF WellFormed
<1>6. result \notin DecoderCodes /\ result # "rate_limit_exceeded"
  BY <1>5, HubCodes
<1>7. /\ answer'.type = IF result = "ok" THEN "command.ack" ELSE "error"
      /\ answer'.requestID = frame.requestID
      /\ answer'.code \in {"none", result}
  BY <1>4 DEF Reply
<1>8. answer'.code \notin DecoderCodes /\ answer'.code # "rate_limit_exceeded"
  BY <1>6, <1>7 DEF DecoderCodes
<1>9. executed' <=> answer'.type = "command.ack"
  BY <1>4, <1>7
<1>10. AnswerIsHonest'
  BY <1>1, <1>3, <1>8, <1>9 DEF AnswerIsHonest
<1>11. AnswerNamesRequest'
  BY <1>1, <1>7 DEF AnswerNamesRequest
<1> QED BY <1>1, <1>2, <1>10, <1>11 DEF AnswerInv

\* Every step of the loop keeps the invariant.
LEMMA NextAnswerInv == AnswerInv /\ [InboundNext]_inboundVars => AnswerInv'
<1> SUFFICES ASSUME AnswerInv, [InboundNext]_inboundVars PROVE AnswerInv'
  OBVIOUS
<1>1. ASSUME NEW f \in Sent, Receive(f) PROVE AnswerInv'
  BY <1>1 DEF Receive, AnswerInv, AnswerIsHonest, AnswerNamesRequest
<1>2. CASE Throttle
  <2>1. outcome' \in {"admitted", "refused"}
    BY <1>2 DEF Throttle, AllowAt, Record
  <2> QED BY <1>2, <2>1 DEF Throttle, AnswerInv, AnswerIsHonest, AnswerNamesRequest
<1>3. CASE Answer
  BY <1>3 DEF Answer, AnswerInv, AnswerIsHonest, AnswerNamesRequest
<1>4. CASE ReadFails
  BY <1>4 DEF ReadFails, AnswerInv, AnswerIsHonest, AnswerNamesRequest
<1>5. CASE Time \/ UNCHANGED inboundVars
  <2>1. UNCHANGED <<reader, frame, answer, executed, outcome>>
    BY <1>5 DEF Time, Tick, inboundVars, vars
  <2> QED BY <2>1 DEF AnswerInv, AnswerIsHonest, AnswerNamesRequest
<1> QED BY <1>1, <1>2, <1>3, <1>4, <1>5, RejectFrameInv, ExecuteInv DEF InboundNext

\* The read loop keeps its invariant.
LEMMA AnswersCorrect == InboundSpec => []AnswerInv
<1>1. InboundInit => AnswerInv
  BY DEF InboundInit, AnswerInv, AnswerIsHonest, AnswerNamesRequest
<1> QED BY <1>1, NextAnswerInv, PTL DEF InboundSpec

\* client.go readLoop: what a frame is answered with is true of the frame, of
\* the limiter's verdict and of what the hub has done.
THEOREM AnswersAlwaysHonest == InboundSpec => []AnswerIsHonest
<1>1. AnswerInv => AnswerIsHonest
  BY DEF AnswerInv
<1> QED BY <1>1, AnswersCorrect, PTL

\* client.go readLoop: the answer names the request of its frame, also when the
\* limiter or the decoder refuses it.
THEOREM AnswersAlwaysNameRequest == InboundSpec => []AnswerNamesRequest
<1>1. AnswerInv => AnswerNamesRequest
  BY DEF AnswerInv
<1> QED BY <1>1, AnswersCorrect, PTL
================================================================================

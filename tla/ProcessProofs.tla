----------------------------- MODULE ProcessProofs -----------------------------
(******************************************************************************)
(* Proofs about Process: for every environment the process is started in and  *)
(* every Origin header, and for every read timeout, delay and number of       *)
(* buffered frames of the session.                                            *)
(******************************************************************************)
EXTENDS Process, TLAPS

--------------------------------------------------------------------------------
(* The invariants. *)

\* A process that serves has loaded its configuration from its environment.
ConfigInv ==
    /\ process = "start" => env \in Envs
    /\ Serving => env \in Envs /\ LoadFrom(env) /\ cfg = Loaded(env)

\* A request that was upgraded or rejected was checked.
RequestInv ==
    /\ process \in {"rejected", "upgraded"} => header \in Headers
    /\ process = "upgraded" =>
         checkOrigin(cfg.origins, header) /\ cfg.environment # "production"

\* Types of the heartbeat; before the session nothing has an age.
HeartbeatTypeOK ==
    /\ status \in {"none", "open", "heartbeat_timeout", "read_failed"}
    /\ readTimeout \in Nat /\ pingInterval = PingInterval(readTimeout)
    /\ idle \in Nat /\ phase \in Nat
    /\ due \in Nat \cup {NoAge} /\ pong \in Nat \cup {NoAge}
    /\ busy \in Nat \cup {NoAge} /\ silent \in Nat \cup {NoAge}
    /\ pongs \in BOOLEAN
    /\ frames \in Nat /\ frames <= MaxFrames
    /\ due <= MaxPingDelay /\ pong <= MaxRoundTrip /\ busy <= MaxBusy
    /\ process # "session" => HeartbeatInit

\* The reader renews the deadline when it takes a frame, and the ticker fires
\* once per interval.
AgesInv ==
    /\ busy # NoAge => busy = idle
    /\ pingInterval > 0 => phase < pingInterval

\* While the peer responds, the deadline is no older than what it waits for: the
\* next tick, the ping that is due, the pong that is on its way; and a pong that
\* has arrived came before the deadline passed.
Pulse ==
    /\ ~ pongs /\ pong = NoAge /\ due = NoAge => idle <= phase
    /\ ~ pongs /\ pong = NoAge /\ due # NoAge => idle <= pingInterval + due
    /\ ~ pongs /\ pong # NoAge => idle <= pingInterval + MaxPingDelay + pong
    /\ pongs /\ busy = NoAge => idle < readTimeout

InTime ==
    /\ readTimeout > 10 * (MaxPingDelay + MaxRoundTrip) /\ readTimeout > MaxBusy
    /\ pingInterval > 0

PulseInv == status = "open" /\ silent = NoAge /\ InTime => Pulse

\* Once the peer is silent, every frame that is left in the buffer buys it at
\* most the time the reader needs for it, and a frame that is being executed at
\* most what is left of that.
Budget == (MaxFrames + 1) * MaxBusy
SilenceInv ==
    silent # NoAge =>
        /\ pong = NoAge
        /\ busy # NoAge => silent + (MaxBusy - busy) + frames * MaxBusy <= Budget
        /\ busy = NoAge /\ (pongs \/ frames > 0) => silent + frames * MaxBusy <= Budget
        /\ busy = NoAge => silent <= Budget + idle
        /\ silent <= readTimeout + Budget

HeartbeatInv ==
    HeartbeatTypeOK /\ AgesInv /\ PulseInv /\ SilenceInv /\ ResponsiveStaysConnected

--------------------------------------------------------------------------------
(* The configuration. *)

\* Every limit and timeout has a default.
LEMMA DefaultsAreNumbers == \A k \in NumberKeys : Default[k] \in Int
<1> SUFFICES ASSUME NEW k \in NumberKeys PROVE Default[k] \in Int
  OBVIOUS
<1>1. CASE k \in IntegerKeys
  BY <1>1 DEF Default, NumberKeys, IntegerKeys
<1>2. CASE k \in DurationKeys
  BY <1>2 DEF Default, NumberKeys, DurationKeys
<1> QED BY <1>1, <1>2 DEF NumberKeys

\* What LoadFrom lets through.
LEMMA LoadedIsSound ==
    ASSUME NEW e \in Envs, LoadFrom(e)
    PROVE  LET c == Loaded(e) IN
           /\ \A k \in NumberKeys :
                /\ c.number[k] \in Nat /\ c.number[k] > 0
                /\ e.number[k].form \in {"number", "padded"} => c.number[k] = e.number[k].n
                /\ e.number[k].form # "malformed"
           /\ c.environment = "production" => e.origins.form = "list" /\ c.origins = e.origins.list
           /\ c.origins = IF Missing(e.origins.form) THEN defaultDevelopmentOrigins
                          ELSE e.origins.list
           /\ \A o \in c.origins : validateOrigin(o)
<1> DEFINE c == Loaded(e)
           environment == valueOrDefault(e.environment, "development")
<1>1. /\ c.number = Number(e) /\ c.environment = environment
      /\ c.origins = IF Missing(e.origins.form) THEN DefaultOrigins(environment)
                     ELSE e.origins.list
  BY DEF Loaded
<1>2. Parses(e) /\ Validate(c)
  BY DEF LoadFrom
<1> HIDE DEF c, environment
<1>3. ASSUME NEW k \in NumberKeys
      PROVE  /\ c.number[k] \in Nat /\ c.number[k] > 0
             /\ e.number[k].form \in {"number", "padded"} => c.number[k] = e.number[k].n
             /\ e.number[k].form # "malformed"
  <2>1. c.number[k] = IF Missing(e.number[k].form) THEN Default[k] ELSE e.number[k].n
    BY <1>1 DEF Number
  <2>2. c.number[k] \in Int
    BY <2>1, DefaultsAreNumbers, EnvsAssumption
  <2>3. c.number[k] > 0
    BY <1>2 DEF Validate, Positive
  <2>4. e.number[k].form # "malformed"
    BY <1>2 DEF Parses, NumberKeys
  <2> QED BY <2>1, <2>2, <2>3, <2>4 DEF Missing
<1>4. Missing(e.origins.form) => c.environment # "production"
  BY <1>1, <1>2 DEF Validate, DefaultOrigins
<1>5. c.environment = "production" => e.origins.form = "list" /\ c.origins = e.origins.list
  BY <1>1, <1>4, EnvsAssumption DEF Missing
<1>6. c.origins = IF Missing(e.origins.form) THEN defaultDevelopmentOrigins ELSE e.origins.list
  BY <1>1, <1>4 DEF DefaultOrigins
<1>7. \A o \in c.origins : validateOrigin(o)
  BY <1>2 DEF Validate
<1> QED BY <1>3, <1>5, <1>6, <1>7 DEF c

\* The shutdown timeout is shared out, and pings come before the deadline.
LEMMA TimeoutsAreShared ==
    ASSUME NEW t \in Nat, t > 0
    PROVE  DrainTimeout(t) + RemainingTimeout(t) = t /\ PingInterval(t) \in Nat /\ PingInterval(t) < t
BY DEF DrainTimeout, RemainingTimeout, PingInterval

\* Start, Upgrade and Handle; the session leaves the process alone.
LEMMA NextConfigInv ==
    ConfigInv /\ RequestInv /\ [ProcessNext]_processVars => ConfigInv' /\ RequestInv'
<1> SUFFICES ASSUME ConfigInv, RequestInv, [ProcessNext]_processVars
             PROVE  ConfigInv' /\ RequestInv'
  OBVIOUS
<1>1. CASE Start
  BY <1>1 DEF Start, ConfigInv, RequestInv, Serving
<1>2. ASSUME NEW o \in Headers, NEW identity \in BOOLEAN, Upgrade(o, identity)
      PROVE  ConfigInv' /\ RequestInv'
  BY <1>2 DEF Upgrade, Authenticates, ConfigInv, RequestInv, Serving
<1>3. CASE Handle
  BY <1>3 DEF Handle, ConfigInv, RequestInv, Serving
<1>4. CASE Session \/ Ended \/ UNCHANGED processVars
  <2>1. UNCHANGED <<process, env, cfg, header>>
    BY <1>4 DEF Session, Ended, processVars
  <2> QED BY <2>1 DEF ConfigInv, RequestInv, Serving
<1> QED BY <1>1, <1>2, <1>3, <1>4 DEF ProcessNext

\* What a process knows of its environment and of the request.
LEMMA ConfigCorrect == ProcessSpec => [](ConfigInv /\ RequestInv)
<1>1. ProcessInit => ConfigInv /\ RequestInv
  BY DEF ProcessInit, ConfigInv, RequestInv, Serving
<1>2. (ConfigInv /\ RequestInv) /\ [ProcessNext]_processVars => (ConfigInv /\ RequestInv)'
  BY NextConfigInv
<1> QED BY <1>1, <1>2, PTL DEF ProcessSpec

\* config.go: whatever its environment variables hold, a process that serves has
\* positive limits and timeouts that leave room for drain, stop and pings, and
\* in production explicit origins.
THEOREM ServedConfigIsSound == ProcessSpec => []ServesSoundConfig
<1>1. ConfigInv => ServesSoundConfig
  <2> SUFFICES ASSUME ConfigInv, Serving PROVE ServesSoundConfig!2
    BY DEF ServesSoundConfig
  <2>1. env \in Envs /\ LoadFrom(env) /\ cfg = Loaded(env)
    BY DEF ConfigInv
  <2>2. "SHUTDOWN_TIMEOUT" \in NumberKeys /\ "WS_READ_TIMEOUT" \in NumberKeys
    BY DEF NumberKeys, DurationKeys
  <2>3. \A k \in NumberKeys : cfg.number[k] \in Nat /\ cfg.number[k] > 0
    BY <2>1, LoadedIsSound
  <2> QED BY <2>1, <2>2, <2>3, LoadedIsSound, TimeoutsAreShared
<1> QED BY <1>1, ConfigCorrect, PTL

\* websocket.go checkOrigin: only origins that were configured get a session, and
\* those that were are not turned away.
THEOREM OriginsAreConfigured == ProcessSpec => []OnlyConfiguredOrigins
<1>1. ConfigInv /\ RequestInv => OnlyConfiguredOrigins
  <2> SUFFICES ASSUME ConfigInv, RequestInv, process \in {"rejected", "upgraded"}
               PROVE  OnlyConfiguredOrigins
    BY DEF OnlyConfiguredOrigins
  <2>1. env \in Envs /\ LoadFrom(env) /\ cfg = Loaded(env) /\ IsOrigin(header)
    BY HeadersAssumption DEF ConfigInv, RequestInv, Serving
  <2> DEFINE configured == IF Missing(env.origins.form) THEN defaultDevelopmentOrigins
                           ELSE env.origins.list
  <2>2. cfg.origins = configured /\ \A o \in configured : validateOrigin(o)
    BY <2>1, LoadedIsSound
  <2> HIDE DEF configured
  <2> DEFINE key == Origin(Lowered(header).scheme, header.host, "")
  <2>3. ASSUME process = "upgraded", header # NoOrigin
        PROVE  \E a \in configured : Lowered(a) = Lowered(Origin(header.scheme, header.host, ""))
    <3>1. key \in configured /\ Lowered(header).scheme \in {"http", "https"}
      BY <2>2, <2>3 DEF RequestInv, checkOrigin
    <3>2. Lowered(key) = Lowered(Origin(header.scheme, header.host, ""))
      BY <3>1 DEF Lowered, Origin
    <3> QED BY <3>1, <3>2
  <2>4. ASSUME header \in configured, header.scheme # "HTTP"
        PROVE  checkOrigin(cfg.origins, header)
    <3>1. Lowered(header).scheme = header.scheme
      BY <2>4 DEF Lowered, Origin
    <3>2. /\ header.host # "" /\ header.path = ""
          /\ Lowered(header).scheme \in {"http", "https"}
      BY <2>2, <2>4 DEF validateOrigin
    <3>3. key = header
      BY <2>1, <3>1, <3>2 DEF IsOrigin
    <3> QED BY <2>2, <2>4, <3>1, <3>2, <3>3 DEF checkOrigin
  <2>5. process = "upgraded" => cfg.environment # "production"
    BY DEF RequestInv
  <2> QED BY <2>3, <2>4, <2>5 DEF OnlyConfiguredOrigins, configured
<1> QED BY <1>1, ConfigCorrect, PTL

--------------------------------------------------------------------------------
(* The heartbeat. *)

\* The bounds are numbers.
LEMMA DelaysAreNumbers ==
    MaxPingDelay \in Nat /\ MaxRoundTrip \in Nat /\ MaxBusy \in Nat /\ MaxFrames \in Nat
BY DelayAssumption

\* What the buffered frames cost: the one step of non-linear arithmetic.
LEMMA FramesCost ==
    ASSUME NEW n \in Nat
    PROVE  /\ n * MaxBusy \in Nat /\ Budget \in Nat
           /\ n > 0 => n * MaxBusy = (n - 1) * MaxBusy + MaxBusy
           /\ n = 0 => n * MaxBusy = 0
           /\ n <= MaxFrames => n * MaxBusy + MaxBusy <= Budget
<1>1. MaxBusy \in Nat /\ MaxFrames \in Nat
  BY DelaysAreNumbers
<1>2. Budget = MaxFrames * MaxBusy + MaxBusy /\ MaxFrames * MaxBusy \in Nat
  BY <1>1 DEF Budget
<1>3. n * MaxBusy \in Nat
  BY <1>1
<1>4. n > 0 => n * MaxBusy = (n - 1) * MaxBusy + MaxBusy
  BY <1>1
<1>5. n <= MaxFrames => n * MaxBusy <= MaxFrames * MaxBusy
  BY <1>1
<1> QED BY <1>1, <1>2, <1>3, <1>4, <1>5

\* A session step is one of an open session.
LEMMA SessionIsOpen ==
    HeartbeatNext => status = "open"
BY DEF HeartbeatNext, Time, SendPing, PongArrives, FrameArrives, GoSilent, ReadPong, ReadFrame,
       FrameDone, ReadTimesOut, Reading

\* A unit of time: what waits has not had its time yet.
LEMMA TimeInv ==
    ASSUME HeartbeatInv, Time, process' = process, process = "session"
    PROVE  HeartbeatInv'
<1> USE DelaysAreNumbers DEF HeartbeatInv
<1>1. /\ status = "open" /\ ~ Urgent /\ idle' = idle + 1
      /\ phase' = IF phase + 1 < pingInterval THEN phase + 1 ELSE 0
      /\ due' = IF due = NoAge /\ phase + 1 = pingInterval THEN 0 ELSE Older(due)
      /\ pong' = Older(pong) /\ busy' = Older(busy) /\ silent' = Older(silent)
      /\ UNCHANGED <<status, readTimeout, pingInterval, pongs, frames, process>>
  BY DEF Time, buffer
<1>2. /\ readTimeout \in Nat /\ pingInterval \in Nat /\ idle \in Nat /\ phase \in Nat
      /\ due \in Nat \cup {NoAge} /\ pong \in Nat \cup {NoAge}
      /\ busy \in Nat \cup {NoAge} /\ silent \in Nat \cup {NoAge} /\ frames \in Nat
  BY DEF HeartbeatTypeOK, PingInterval
<1>3. /\ due < MaxPingDelay /\ pong < MaxRoundTrip /\ busy < MaxBusy
      /\ busy = NoAge => ~ pongs /\ frames = 0 /\ idle < readTimeout
  BY <1>1, <1>2 DEF Urgent, Reading, Passed, NoAge
<1>4. /\ due' \in Nat \cup {NoAge} /\ due' <= MaxPingDelay
      /\ pong' \in Nat \cup {NoAge} /\ pong' <= MaxRoundTrip
      /\ busy' \in Nat \cup {NoAge} /\ busy' <= MaxBusy
      /\ silent' \in Nat \cup {NoAge} /\ idle' \in Nat /\ phase' \in Nat
  BY <1>1, <1>2, <1>3 DEF Older, NoAge
<1>5. HeartbeatTypeOK'
  BY <1>1, <1>4 DEF HeartbeatTypeOK
<1>6. AgesInv'
  BY <1>1, <1>2 DEF AgesInv, Older, NoAge
<1>7. PulseInv'
  <2> SUFFICES ASSUME silent' = NoAge, InTime PROVE Pulse'
    BY <1>1 DEF PulseInv, InTime
  <2>1. silent = NoAge
    BY <1>1, <1>2 DEF Older, NoAge
  <2>2. Pulse /\ phase < pingInterval
    BY <1>1, <2>1 DEF PulseInv, AgesInv, InTime
  <2>3. pong' = NoAge <=> pong = NoAge
    BY <1>1, <1>2 DEF Older, NoAge
  <2>4. busy' = NoAge <=> busy = NoAge
    BY <1>1, <1>2 DEF Older, NoAge
  <2>5. CASE pongs
    BY <1>1, <1>3, <2>4, <2>5 DEF Pulse
  <2>6. CASE ~ pongs /\ pong # NoAge
    BY <1>1, <1>2, <2>2, <2>3, <2>6 DEF Pulse, Older, NoAge
  <2>7. CASE ~ pongs /\ pong = NoAge
    BY <1>1, <1>2, <2>2, <2>3, <2>7 DEF Pulse, Older, NoAge
  <2> QED BY <2>5, <2>6, <2>7
<1>8. SilenceInv'
  <2> SUFFICES ASSUME silent' # NoAge PROVE SilenceInv!2'
    BY DEF SilenceInv
  <2>1. silent # NoAge /\ silent' = silent + 1 /\ silent \in Nat
    BY <1>1, <1>2 DEF Older, NoAge
  <2>2. pong' = NoAge
    BY <1>1, <2>1 DEF SilenceInv, Older
  <2>3. frames * MaxBusy \in Nat /\ Budget \in Nat /\ Budget' = Budget
    BY <1>2, FramesCost DEF Budget
  <2>4. CASE busy # NoAge
    BY <1>1, <1>2, <1>3, <2>1, <2>2, <2>3, <2>4 DEF SilenceInv, Older, NoAge
  <2>5. CASE busy = NoAge
    BY <1>1, <1>2, <1>3, <2>1, <2>2, <2>3, <2>5 DEF SilenceInv, Older, NoAge
  <2> QED BY <2>4, <2>5
<1>9. ResponsiveStaysConnected'
  BY <1>1 DEF ResponsiveStaysConnected
<1> QED BY <1>5, <1>6, <1>7, <1>8, <1>9

\* The ping is written, the pong arrives, a frame arrives, the peer goes silent.
LEMMA NetworkInv ==
    ASSUME HeartbeatInv, SendPing \/ PongArrives \/ FrameArrives \/ GoSilent,
           process' = process, process = "session"
    PROVE  HeartbeatInv'
<1> USE DelaysAreNumbers DEF HeartbeatInv
<1>1. /\ status = "open"
      /\ UNCHANGED <<status, readTimeout, pingInterval, idle, phase, busy, process>>
  BY DEF SendPing, PongArrives, FrameArrives, GoSilent, deadline
<1>2. /\ readTimeout \in Nat /\ pingInterval \in Nat /\ idle \in Nat /\ phase \in Nat
      /\ due \in Nat \cup {NoAge} /\ pong \in Nat \cup {NoAge}
      /\ busy \in Nat \cup {NoAge} /\ silent \in Nat \cup {NoAge} /\ frames \in Nat
      /\ due <= MaxPingDelay /\ pong <= MaxRoundTrip /\ busy <= MaxBusy /\ frames <= MaxFrames
  BY DEF HeartbeatTypeOK, PingInterval
<1>3. HeartbeatTypeOK'
  <2>1. pongs' \in BOOLEAN
    BY DEF HeartbeatTypeOK, SendPing, PongArrives, FrameArrives, GoSilent, buffer
  <2>2. /\ due' \in Nat \cup {NoAge} /\ pong' \in Nat \cup {NoAge} /\ silent' \in Nat \cup {NoAge}
        /\ due' <= MaxPingDelay /\ pong' <= MaxRoundTrip
        /\ frames' \in Nat /\ frames' <= MaxFrames
    BY <1>2 DEF SendPing, PongArrives, FrameArrives, GoSilent, buffer, NoAge
  <2> QED BY <1>1, <2>1, <2>2 DEF HeartbeatTypeOK
<1>4. AgesInv'
  BY <1>1 DEF AgesInv
<1>5. PulseInv'
  <2> SUFFICES ASSUME silent' = NoAge, InTime PROVE Pulse'
    BY <1>1 DEF PulseInv, InTime
  <2>1. silent = NoAge /\ ~ GoSilent
    BY DEF SendPing, PongArrives, FrameArrives, GoSilent, NoAge
  <2>2. Pulse
    BY <1>1, <2>1 DEF PulseInv
  <2>3. CASE SendPing
    BY <1>1, <1>2, <2>1, <2>2, <2>3 DEF SendPing, Pulse, buffer, NoAge
  <2>4. CASE PongArrives
    <3>1. pingInterval = (readTimeout * 9) \div 10
      BY DEF HeartbeatTypeOK, PingInterval
    <3>2. pingInterval + MaxPingDelay + MaxRoundTrip < readTimeout
      BY <1>2, <3>1 DEF InTime
    <3> QED BY <1>1, <1>2, <2>2, <2>4, <3>2 DEF PongArrives, Pulse, NoAge
  <2>5. CASE FrameArrives
    BY <1>1, <2>2, <2>5 DEF FrameArrives, Pulse
  <2> QED BY <2>1, <2>3, <2>4, <2>5
<1>6. SilenceInv'
  <2> SUFFICES ASSUME silent' # NoAge PROVE SilenceInv!2'
    BY DEF SilenceInv
  <2>1. CASE silent # NoAge
    <3>1. SendPing
      BY <2>1 DEF SilenceInv, PongArrives, FrameArrives, GoSilent
    <3>2. UNCHANGED <<pong, silent, pongs, frames>>
      BY <2>1, <3>1 DEF SendPing, buffer
    <3> QED BY <1>1, <2>1, <3>2 DEF SilenceInv, Budget
  <2>2. CASE silent = NoAge
    <3>1. GoSilent
      BY <2>2 DEF SendPing, PongArrives, FrameArrives
    <3>2. silent' = 0 /\ pong' = NoAge /\ UNCHANGED <<pongs, frames>>
      BY <3>1 DEF GoSilent, buffer
    <3>3. /\ frames * MaxBusy \in Nat /\ Budget \in Nat /\ Budget' = Budget
          /\ frames * MaxBusy + MaxBusy <= Budget
      BY <1>2, FramesCost DEF Budget
    <3> QED BY <1>1, <1>2, <3>2, <3>3 DEF NoAge
  <2> QED BY <2>1, <2>2
<1>7. ResponsiveStaysConnected'
  BY <1>1 DEF ResponsiveStaysConnected
<1> QED BY <1>3, <1>4, <1>5, <1>6, <1>7

\* The reader takes a pong or a frame, and both renew the deadline; it finishes
\* a frame.
LEMMA ReaderInv ==
    ASSUME HeartbeatInv, ReadPong \/ ReadFrame \/ FrameDone,
           process' = process, process = "session"
    PROVE  HeartbeatInv'
<1> USE DelaysAreNumbers DEF HeartbeatInv
<1>1. /\ status = "open"
      /\ UNCHANGED <<status, readTimeout, pingInterval, phase, due, pong, silent, process>>
  BY DEF ReadPong, ReadFrame, FrameDone, Reading, deadline
<1>2. /\ readTimeout \in Nat /\ pingInterval \in Nat /\ idle \in Nat /\ phase \in Nat
      /\ due \in Nat \cup {NoAge} /\ pong \in Nat \cup {NoAge}
      /\ busy \in Nat \cup {NoAge} /\ silent \in Nat \cup {NoAge} /\ frames \in Nat
      /\ due <= MaxPingDelay /\ pong <= MaxRoundTrip /\ busy <= MaxBusy /\ frames <= MaxFrames
  BY DEF HeartbeatTypeOK, PingInterval
<1>3. HeartbeatTypeOK'
  <2>1. pongs' \in BOOLEAN
    BY DEF HeartbeatTypeOK, ReadPong, ReadFrame, FrameDone, buffer
  <2>2. /\ idle' \in Nat /\ busy' \in Nat \cup {NoAge} /\ busy' <= MaxBusy
        /\ frames' \in Nat /\ frames' <= MaxFrames
    BY <1>2 DEF ReadPong, ReadFrame, FrameDone, buffer, deadline, NoAge
  <2> QED BY <1>1, <2>1, <2>2 DEF HeartbeatTypeOK
<1>4. AgesInv'
  BY <1>1 DEF AgesInv, ReadPong, ReadFrame, FrameDone, Reading, NoAge
<1>5. PulseInv'
  <2> SUFFICES ASSUME silent' = NoAge, InTime PROVE Pulse'
    BY <1>1 DEF PulseInv, InTime
  <2>1. Pulse
    BY <1>1 DEF PulseInv
  <2>2. CASE ReadPong \/ ReadFrame
    <3>1. idle' = 0 /\ readTimeout > 0
      BY <1>2, <2>2 DEF ReadPong, ReadFrame, InTime
    <3> QED BY <1>1, <1>2, <3>1 DEF Pulse, NoAge
  <2>3. CASE FrameDone
    <3>1. idle < readTimeout
      BY <1>2, <2>3 DEF FrameDone, AgesInv, InTime
    <3> QED BY <1>1, <2>1, <2>3, <3>1 DEF FrameDone, Pulse, deadline, buffer
  <2> QED BY <2>2, <2>3
<1>6. SilenceInv'
  <2> SUFFICES ASSUME silent # NoAge PROVE SilenceInv!2'
    BY <1>1 DEF SilenceInv
  <2>1. /\ frames * MaxBusy \in Nat /\ Budget \in Nat /\ Budget' = Budget
        /\ frames > 0 => frames * MaxBusy = (frames - 1) * MaxBusy + MaxBusy
        /\ frames > 0 => (frames - 1) * MaxBusy \in Nat
    BY <1>2, FramesCost DEF Budget
  <2>2. CASE ReadPong
    BY <1>1, <1>2, <2>1, <2>2 DEF ReadPong, Reading, SilenceInv, NoAge
  <2>3. CASE ReadFrame
    <3>1. /\ busy = NoAge /\ frames > 0 /\ frames' = frames - 1 /\ busy' = 0
          /\ UNCHANGED pongs
      BY <2>3 DEF ReadFrame, Reading
    <3>2. silent + frames * MaxBusy <= Budget /\ pong = NoAge /\ silent <= readTimeout + Budget
      BY <3>1 DEF SilenceInv
    <3>3. silent + (MaxBusy - 0) + (frames - 1) * MaxBusy <= Budget
      BY <1>2, <2>1, <3>1, <3>2 DEF NoAge
    <3> QED BY <1>1, <2>1, <3>1, <3>2, <3>3 DEF NoAge
  <2>4. CASE FrameDone
    BY <1>1, <1>2, <2>1, <2>4 DEF FrameDone, SilenceInv, NoAge, deadline, buffer
  <2> QED BY <2>2, <2>3, <2>4
<1>7. ResponsiveStaysConnected'
  BY <1>1 DEF ResponsiveStaysConnected
<1> QED BY <1>3, <1>4, <1>5, <1>6, <1>7

\* The deadline passes: not while the peer responds in time.
LEMMA ReadTimesOutInv ==
    ASSUME HeartbeatInv, ReadTimesOut, process' = process, process = "session"
    PROVE  HeartbeatInv'
<1> USE DelaysAreNumbers DEF HeartbeatInv
<1>1. /\ status = "open" /\ busy = NoAge /\ idle >= readTimeout
      /\ status' = IF pingInterval > 0 THEN "heartbeat_timeout" ELSE "read_failed"
      /\ UNCHANGED <<readTimeout, pingInterval, idle, phase, due, pong, pongs, frames, busy,
                      silent, process>>
  BY DEF ReadTimesOut, Reading, Passed, deadline, buffer
<1>2. HeartbeatTypeOK' /\ AgesInv' /\ PulseInv' /\ SilenceInv'
  BY <1>1 DEF HeartbeatTypeOK, AgesInv, PulseInv, SilenceInv, Budget
<1>3. ResponsiveStaysConnected'
  <2> SUFFICES ASSUME pingInterval > 0, silent = NoAge,
                      readTimeout > 10 * (MaxPingDelay + MaxRoundTrip), readTimeout > MaxBusy
               PROVE  FALSE
    BY <1>1 DEF ResponsiveStaysConnected
  <2>1. Pulse /\ phase < pingInterval
    BY <1>1 DEF PulseInv, InTime, AgesInv
  <2>2. /\ readTimeout \in Nat /\ pingInterval \in Nat /\ idle \in Nat /\ phase \in Nat
        /\ due \in Nat \cup {NoAge} /\ pong \in Nat \cup {NoAge}
        /\ due <= MaxPingDelay /\ pong <= MaxRoundTrip
        /\ pingInterval = (readTimeout * 9) \div 10
    BY DEF HeartbeatTypeOK, PingInterval
  <2>3. pingInterval + MaxPingDelay + MaxRoundTrip < readTimeout
    BY <2>2
  <2> QED BY <1>1, <2>1, <2>2, <2>3 DEF Pulse, NoAge
<1> QED BY <1>2, <1>3

\* The hand-off, with the read timeout the configuration was validated for.
LEMMA HandleInv ==
    ASSUME ConfigInv, HeartbeatInv, Handle
    PROVE  HeartbeatInv'
<1>1. HeartbeatInit /\ process = "upgraded"
  BY DEF Handle, HeartbeatInv, HeartbeatTypeOK
<1> DEFINE t == cfg.number["WS_READ_TIMEOUT"]
<1>2. t \in Nat /\ t > 0
  <2>1. "WS_READ_TIMEOUT" \in NumberKeys
    BY DEF NumberKeys, DurationKeys
  <2> QED BY <1>1, <2>1, LoadedIsSound DEF ConfigInv, Serving
<1>3. /\ status' = "open" /\ readTimeout' = t /\ pingInterval' = PingInterval(t)
      /\ process' = "session"
      /\ UNCHANGED <<idle, phase, due, pong, pongs, frames, busy, silent>>
  BY DEF Handle, Open, buffer
<1> HIDE DEF t
<1>4. HeartbeatTypeOK'
  <2>1. pongs' \in BOOLEAN
    BY <1>1, <1>3 DEF HeartbeatInit
  <2> QED BY <1>1, <1>2, <1>3, <2>1, DelaysAreNumbers DEF HeartbeatInit, HeartbeatTypeOK, NoAge
<1>5. AgesInv'
  BY <1>1, <1>2, <1>3, TimeoutsAreShared DEF HeartbeatInit, AgesInv
<1>6. PulseInv'
  BY <1>1, <1>3 DEF HeartbeatInit, PulseInv, Pulse
<1>7. SilenceInv'
  BY <1>1, <1>3 DEF HeartbeatInit, SilenceInv
<1>8. ResponsiveStaysConnected'
  BY <1>3 DEF ResponsiveStaysConnected
<1> QED BY <1>4, <1>5, <1>6, <1>7, <1>8 DEF HeartbeatInv

\* Every step of process and session keeps the invariant.
LEMMA NextHeartbeatInv ==
    ConfigInv /\ HeartbeatInv /\ [ProcessNext]_processVars => HeartbeatInv'
<1> SUFFICES ASSUME ConfigInv, HeartbeatInv, [ProcessNext]_processVars PROVE HeartbeatInv'
  OBVIOUS
<1>1. CASE Session
  <2>1. status = "open" /\ process' = process
    BY <1>1, SessionIsOpen DEF Session
  <2>2. process = "session"
    BY <2>1 DEF HeartbeatInv, HeartbeatTypeOK, HeartbeatInit
  <2> QED BY <1>1, <2>1, <2>2, TimeInv, NetworkInv, ReaderInv, ReadTimesOutInv
          DEF Session, HeartbeatNext
<1>2. CASE UNCHANGED heartbeat /\ (process = "session" => process' = "session")
  <2>1. UNCHANGED <<status, readTimeout, pingInterval, idle, phase, due, pong, pongs, frames,
                    busy, silent>>
    BY <1>2 DEF heartbeat, deadline, buffer
  <2>2. HeartbeatTypeOK'
    <3>1. HeartbeatInit => HeartbeatInit'
      BY <2>1 DEF HeartbeatInit
    <3>2. process' # "session" => HeartbeatInit
      BY <1>2 DEF HeartbeatInv, HeartbeatTypeOK
    <3> QED BY <2>1, <3>1, <3>2 DEF HeartbeatInv, HeartbeatTypeOK
  <2> QED BY <2>1, <2>2 DEF HeartbeatInv, AgesInv, PulseInv, Pulse, InTime, SilenceInv, Budget,
             ResponsiveStaysConnected
<1>3. CASE Start \/ (\E o \in Headers, identity \in BOOLEAN : Upgrade(o, identity))
  <2>1. UNCHANGED heartbeat /\ process # "session"
    BY <1>3 DEF Start, Upgrade
  <2> QED BY <1>2, <2>1
<1>4. CASE Ended \/ UNCHANGED processVars
  <2>1. UNCHANGED heartbeat /\ UNCHANGED process
    BY <1>4 DEF Ended, processVars
  <2> QED BY <1>2, <2>1
<1> QED BY <1>1, <1>3, <1>4, HandleInv DEF ProcessNext

\* The invariant of the heartbeat holds from the start of the process.
LEMMA HeartbeatCorrect == ProcessSpec => []HeartbeatInv
<1>1. ProcessInit => HeartbeatInv
  <2> SUFFICES ASSUME ProcessInit PROVE HeartbeatInv
    OBVIOUS
  <2>1. pongs \in BOOLEAN
    BY DEF ProcessInit, HeartbeatInit
  <2>2. PingInterval(0) = 0
    BY DEF PingInterval
  <2> QED BY <2>1, <2>2, DelaysAreNumbers
          DEF ProcessInit, HeartbeatInit, HeartbeatInv, HeartbeatTypeOK, AgesInv, PulseInv,
              SilenceInv, ResponsiveStaysConnected, NoAge
<1> QED BY <1>1, NextHeartbeatInv, ConfigCorrect, PTL DEF ProcessSpec

\* client.go: a tenth of the read timeout is enough for the ping to be written
\* and the pong to come back, whatever the phase of the ticker was when the
\* deadline was renewed last.
THEOREM ResponsiveAlwaysConnected == ProcessSpec => []ResponsiveStaysConnected
<1>1. HeartbeatInv => ResponsiveStaysConnected
  BY DEF HeartbeatInv
<1> QED BY <1>1, HeartbeatCorrect, PTL

\* client.go: pings that are sent to a silent peer do not keep its session; what
\* it had sent before buys it no more than the time the reader needs for it.
THEOREM SilentAlwaysDisconnected == ProcessSpec => []SilentIsDisconnected
<1>1. HeartbeatInv => SilentIsDisconnected
  <2> SUFFICES ASSUME HeartbeatInv PROVE SilentIsDisconnected
    OBVIOUS
  <2>1. readTimeout \in Nat /\ Budget \in Nat
    BY DelaysAreNumbers, FramesCost DEF HeartbeatInv, HeartbeatTypeOK
  <2>2. silent # NoAge => silent <= readTimeout + Budget
    BY DEF HeartbeatInv, SilenceInv
  <2>3. silent = NoAge => silent <= readTimeout + Budget
    BY <2>1 DEF NoAge
  <2> QED BY <2>2, <2>3 DEF SilentIsDisconnected, Budget
<1> QED BY <1>1, HeartbeatCorrect, PTL
================================================================================

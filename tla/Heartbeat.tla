------------------------------- MODULE Heartbeat -------------------------------
(******************************************************************************)
(* The heartbeat of one session in discrete time: the read deadline, which    *)
(* only a pong or a frame that is read renews, against the ticker that makes  *)
(* the writer send pings.                                                     *)
(*                                                                            *)
(* Ages count units of time; NoAge means that there is nothing to count.      *)
(* Three delays are not the server's to decide, and are bounded: how long a   *)
(* ping that is due waits for the writer, the round trip of ping and pong,    *)
(* and the time the reader spends on a frame.                                 *)
(******************************************************************************)
EXTENDS Integers

CONSTANTS
    MaxPingDelay,   \* bound: from the tick to the ping on the wire
    MaxRoundTrip,   \* bound: from there to the pong in the receive buffer
    MaxBusy,        \* bound: the reader executes one frame
    MaxFrames       \* bound: frames in the receive buffer

ASSUME DelayAssumption == {MaxPingDelay, MaxRoundTrip, MaxBusy, MaxFrames} \subseteq Nat

VARIABLES
    status,         \* "none", "open", or the reason readLoop returned
    readTimeout,    \* c.readTimeout
    pingInterval,   \* c.pingInterval
    idle,           \* age of the read deadline
    phase,          \* time since the ticker fired
    due,            \* age of the tick in pingChan
    pong,           \* age of the first ping that is not answered yet
    pongs,          \* a pong is in the receive buffer
    frames,         \* number of frames in the receive buffer
    busy,           \* age of the frame the reader is executing
    silent          \* how long the peer has been silent; NoAge while it responds

deadline == <<readTimeout, pingInterval, idle>>
buffer == <<pongs, frames>>
heartbeat == <<status, deadline, phase, due, pong, buffer, busy, silent>>

NoAge == -1
Older(age) == IF age = NoAge THEN NoAge ELSE age + 1

HeartbeatInit ==
    /\ status = "none" /\ readTimeout = 0 /\ pingInterval = 0 /\ idle = 0 /\ phase = 0
    /\ due = NoAge /\ pong = NoAge /\ busy = NoAge /\ silent = NoAge
    /\ pongs = FALSE /\ frames = 0

--------------------------------------------------------------------------------
\* The ping period of a session: nine tenths of its read timeout.
PingInterval(timeout) == (timeout * 9) \div 10

\* Handle and Run: the first deadline is set and the ticker starts.
Open(timeout) ==
    /\ status = "none"
    /\ status' = "open"
    /\ readTimeout' = timeout /\ pingInterval' = PingInterval(timeout)
    /\ UNCHANGED <<idle, phase, due, pong, buffer, busy, silent>>

Reading == status = "open" /\ busy = NoAge

\* The deadline has passed.
Passed == idle >= readTimeout

\* The reader, the writer, the network and the peer have had their time.
Urgent ==
    \/ Reading /\ (pongs \/ frames > 0 \/ Passed)
    \/ due >= MaxPingDelay \/ pong >= MaxRoundTrip \/ busy >= MaxBusy

\* A unit of time passes.  The ticker drops a tick the writer has not taken.
Time ==
    /\ status = "open" /\ ~ Urgent
    /\ idle' = idle + 1
    /\ phase' = IF phase + 1 < pingInterval THEN phase + 1 ELSE 0
    /\ due' = IF due = NoAge /\ phase + 1 = pingInterval THEN 0 ELSE Older(due)
    /\ pong' = Older(pong) /\ busy' = Older(busy) /\ silent' = Older(silent)
    /\ UNCHANGED <<status, readTimeout, pingInterval, buffer>>

\* Mutant of SendPing: a ping that goes out renews the deadline, too.
SendPingRenewing ==
    /\ status = "open" /\ due # NoAge
    /\ due' = NoAge /\ idle' = 0
    /\ pong' = IF silent = NoAge /\ pong = NoAge THEN 0 ELSE pong
    /\ UNCHANGED <<status, readTimeout, pingInterval, phase, buffer, busy, silent>>

\* writeLoop takes the tick and writes a ping, which a silent peer ignores.
SendPing ==
    /\ status = "open" /\ due # NoAge
    /\ due' = NoAge
    /\ pong' = IF silent = NoAge /\ pong = NoAge THEN 0 ELSE pong
    /\ UNCHANGED <<status, deadline, phase, buffer, busy, silent>>

\* The peer's pong arrives.
PongArrives ==
    /\ status = "open" /\ pong # NoAge
    /\ pong' = NoAge /\ pongs' = TRUE
    /\ UNCHANGED <<status, deadline, phase, due, frames, busy, silent>>

\* A frame of the peer arrives.
FrameArrives ==
    /\ status = "open" /\ silent = NoAge /\ frames < MaxFrames
    /\ frames' = frames + 1
    /\ UNCHANGED <<status, deadline, phase, due, pong, pongs, busy, silent>>

\* Nothing arrives from the peer any more.
GoSilent ==
    /\ status = "open" /\ silent = NoAge
    /\ silent' = 0 /\ pong' = NoAge
    /\ UNCHANGED <<status, deadline, phase, due, buffer, busy>>

\* Mutant of ReadPong: the pong handler leaves the deadline alone.
ReadPongIdle ==
    /\ Reading /\ idle <= readTimeout /\ pongs
    /\ pongs' = FALSE
    /\ UNCHANGED <<status, deadline, phase, due, pong, frames, busy, silent>>

\* ReadMessage meets a pong; the handler renews the deadline.
ReadPong ==
    /\ Reading /\ idle <= readTimeout /\ pongs
    /\ pongs' = FALSE /\ idle' = 0
    /\ UNCHANGED <<status, readTimeout, pingInterval, phase, due, pong, frames, busy, silent>>

\* ReadMessage returns a frame; the deadline is renewed before it is executed.
ReadFrame ==
    /\ Reading /\ idle <= readTimeout /\ frames > 0
    /\ frames' = frames - 1 /\ idle' = 0 /\ busy' = 0
    /\ UNCHANGED <<status, readTimeout, pingInterval, phase, due, pong, pongs, silent>>

\* The frame has been answered.
FrameDone ==
    /\ status = "open" /\ busy # NoAge
    /\ busy' = NoAge
    /\ UNCHANGED <<status, deadline, phase, due, pong, buffer, silent>>

\* ReadMessage fails because the deadline has passed, whatever has arrived.
ReadTimesOut ==
    /\ Reading /\ Passed
    /\ status' = IF pingInterval > 0 THEN "heartbeat_timeout" ELSE "read_failed"
    /\ UNCHANGED <<deadline, phase, due, pong, buffer, busy, silent>>

HeartbeatNext ==
    \/ Time \/ SendPing \/ PongArrives \/ FrameArrives \/ GoSilent
    \/ ReadPong \/ ReadFrame \/ FrameDone \/ ReadTimesOut

--------------------------------------------------------------------------------
(* Properties. *)

\* A peer that answers pings in time is never disconnected for a missed
\* deadline, however little else it sends, if a tenth of the read timeout covers
\* the delays of ping and pong and no frame keeps the reader for a read timeout.
ResponsiveStaysConnected ==
    /\ status = "heartbeat_timeout"
    /\ readTimeout > 10 * (MaxPingDelay + MaxRoundTrip) /\ readTimeout > MaxBusy
    => silent # NoAge

\* A silent peer is disconnected after its buffered frames and one read timeout,
\* however many pings are sent to it meanwhile.
SilentIsDisconnected == silent <= readTimeout + (MaxFrames + 1) * MaxBusy
================================================================================

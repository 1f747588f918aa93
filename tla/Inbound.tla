--------------------------------- MODULE Inbound -------------------------------
(******************************************************************************)
(* The read loop of one session: every frame is rate limited, decoded,        *)
(* executed and answered, in this order.                                      *)
(*                                                                            *)
(* It composes RateLimiter, whose only caller is the session's reader, and    *)
(* Protocol.  What the hub makes of a command is its answer alone: the state  *)
(* behind it is the subject of Hub and Routing.                               *)
(******************************************************************************)
EXTENDS RateLimiter, Protocol

CONSTANTS
    Reader,   \* the goroutine in readLoop
    Sent      \* the frames the peer may send

ASSUME ReaderAssumption == Reader \in Caller
ASSUME SentAssumption == Sent \subseteq Frame

VARIABLES
    reader,     \* where readLoop is
    frame,      \* the frame ReadMessage returned last
    answer,     \* the reply to it: its type, the request it names and an error code
    executed    \* the hub has carried the command out

inboundVars == <<vars, reader, frame, answer, executed>>

NoFrame == [binary |-> FALSE, json |-> "none"]
Reply(type, requestID, code) == [type |-> type, requestID |-> requestID, code |-> code]
NoReply == Reply("none", "", "none")

InboundInit ==
    /\ Init
    /\ reader = "reading" /\ frame = NoFrame /\ answer = NoReply /\ executed = FALSE

--------------------------------------------------------------------------------
\* ReadMessage returns a frame, and Allow reads the clock.
Receive(f) ==
    /\ reader = "reading"
    /\ frame' = f
    /\ reader' = "limiting"
    /\ Allow(Reader)
    /\ UNCHANGED <<answer, executed>>

\* AllowAt decides; then the read deadline is renewed, or cannot be.
Throttle ==
    /\ reader = "limiting"
    /\ AllowAt(Reader)
    /\ reader' \in {"deciding", "stopped"}
    /\ UNCHANGED <<frame, answer, executed>>

\* What the hub may return for a command: nil, or the error code sent for it.
HubResults ==
    [t \in CommandTypes |->
        CASE t = "room.leave" -> {"ok"}
          [] t \in {"room.join", "room.broadcast"} -> {"ok", "unauthorized"}
          [] t = "private.send" ->
               {"ok", "unauthorized", "recipient_offline", "recipient_overloaded"}]

\* Mutant of RefusedID: the id is taken from the message also when the decoder,
\* which then returns an empty one, has rejected it.
RefusedIDOfMessage(f) == IF DecodeInbound(f) = NoFault THEN f.requestID ELSE ""

\* The request a rate limited frame is answered with.
RefusedID(f) ==
    IF DecodeInbound(f) = NoFault THEN f.requestID ELSE DecodeInbound(f).requestID

\* The error sent without asking the hub, or NoReply: not a text frame, over the
\* rate limit, not a valid command.
Rejection(f) ==
    IF f.binary THEN Reply("error", "", "invalid_message")
    ELSE IF outcome = "refused" THEN Reply("error", RefusedID(f), "rate_limit_exceeded")
    ELSE IF DecodeInbound(f) # NoFault
    THEN Reply("error", DecodeInbound(f).requestID, DecodeInbound(f).code)
    ELSE NoReply

\* The frame is rejected.
RejectFrame ==
    /\ reader = "deciding"
    /\ Rejection(frame) # NoReply
    /\ answer' = Rejection(frame)
    /\ reader' = "answering"
    /\ UNCHANGED <<vars, frame, executed>>

\* The command is handed to the hub, and acknowledged if it returns no error.
Execute ==
    /\ reader = "deciding"
    /\ Rejection(frame) = NoReply
    /\ \E result \in HubResults[frame.type] :
         /\ executed' = (result = "ok")
         /\ answer' = IF result = "ok" THEN Reply("command.ack", frame.requestID, "none")
                      ELSE Reply("error", frame.requestID, result)
    /\ reader' = "answering"
    /\ UNCHANGED <<vars, frame>>

\* Send takes the answer, and the loop goes on; or it does not (the queue is
\* full, the session closed, no event id), and readLoop returns.
Answer ==
    /\ reader = "answering"
    /\ \/ reader' = "reading" /\ frame' = NoFrame /\ answer' = NoReply /\ executed' = FALSE
       \/ reader' = "stopped" /\ UNCHANGED <<frame, answer, executed>>
    /\ UNCHANGED vars

\* ReadMessage fails.
ReadFails ==
    /\ reader = "reading"
    /\ reader' = "stopped"
    /\ UNCHANGED <<vars, frame, answer, executed>>

\* Time passes.
Time == Tick /\ UNCHANGED <<reader, frame, answer, executed>>

InboundNext ==
    \/ \E f \in Sent : Receive(f)
    \/ Throttle \/ RejectFrame \/ Execute \/ Answer \/ ReadFails
    \/ Time

InboundSpec == InboundInit /\ [][InboundNext]_inboundVars

--------------------------------------------------------------------------------
(* Properties. *)

\* The reply tells the truth about its frame.  Acknowledged commands are well
\* formed, were within the rate limit and have been carried out; a command the
\* hub has carried out is acknowledged; rate_limit_exceeded goes to text frames
\* the limiter refused; each code of the decoder to a frame that deserves it;
\* and the other codes only to well-formed commands.
AnswerIsHonest ==
    reader = "answering" =>
        /\ executed <=> answer.type = "command.ack"
        /\ executed => WellFormed(frame) /\ outcome = "admitted"
        /\ answer.code = "rate_limit_exceeded" <=> outcome = "refused" /\ ~ frame.binary
        /\ answer.code \in DecoderCodes => Deserves(frame, answer.code)
        /\ outcome = "admitted" /\ WellFormed(frame) => answer.code \notin DecoderCodes

\* The answer names the request of its frame, up to the blanks around it,
\* whenever the frame is text and its first object could be decoded: also when
\* it is refused by the limiter or has something behind it.
AnswerNamesRequest ==
    reader = "answering" /\ ~ frame.binary /\ frame.json # "invalid" =>
        TrimSpace(answer.requestID) = TrimSpace(frame.requestID)
================================================================================

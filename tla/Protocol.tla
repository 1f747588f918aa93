-------------------------------- MODULE Protocol -------------------------------
(******************************************************************************)
(* Version one of the message protocol: what DecodeInbound makes of a frame.  *)
(*                                                                            *)
(* A string is one of six classes, the ones TrimSpace and the length limits   *)
(* tell apart:  ""  |  "blank", white space only  |  "id", a value            *)
(*  |  "padded", a value between blanks  |  "wide", a value between so many   *)
(* blanks that only the untrimmed string exceeds the limit  |  "long", a      *)
(* value over the limit.                                                      *)
(******************************************************************************)
EXTENDS Naturals

Text == {"", "blank", "id", "padded", "wide", "long"}
CommandTypes == {"room.join", "room.leave", "room.broadcast", "private.send"}

\* binary: not a text frame.  json: one object, an object with something behind
\* it, or neither.  version: "padded" is version 1 between blanks.  payload: an
\* object, absent, or any other JSON value.
Frame ==
    [binary : BOOLEAN, json : {"object", "trailing", "invalid"}, version : {"1", "padded", "2"},
     type : CommandTypes \cup {"other"}, requestID : Text, roomID : Text, recipientID : Text,
     payload : {"object", "absent", "other"}]

\* strings.TrimSpace.
TrimSpace(s) ==
    CASE s \in {"", "blank"} -> ""
      [] s \in {"id", "padded", "wide"} -> "id"
      [] OTHER -> s

\* Mutant of Exceeds: the limit is compared with the trimmed value.
ExceedsTrimmed(s) == TrimSpace(s) = "long"

\* len(s) is over the limit.
Exceeds(s) == s \in {"wide", "long"}

\* A ProtocolError, and the absence of one.
Fault(code, requestID) == [code |-> code, requestID |-> requestID]
NoFault == Fault("none", "")

\* The fields a command needs: the switch of Validate.
MissingField(m) ==
    \/ m.type \in {"room.join", "room.leave", "room.broadcast"} /\ TrimSpace(m.roomID) = ""
    \/ m.type = "private.send" /\ TrimSpace(m.recipientID) = ""
    \/ m.type \in {"room.broadcast", "private.send"} /\ m.payload # "object"

\* InboundMessage.Validate: the first rule that is broken.
Validate(m) ==
    LET requestID == TrimSpace(m.requestID) IN
    IF m.version = "2" THEN Fault("unsupported_version", requestID)
    ELSE IF requestID = "" \/ Exceeds(requestID) THEN Fault("invalid_message", requestID)
    ELSE IF m.type \notin CommandTypes THEN Fault("unknown_message_type", requestID)
    ELSE IF MissingField(m) \/ Exceeds(m.roomID) \/ Exceeds(m.recipientID)
    THEN Fault("invalid_message", requestID)
    ELSE NoFault

\* DecodeInbound, for a text frame.
DecodeInbound(f) ==
    CASE f.json = "invalid" -> Fault("invalid_json", "")
      [] f.json = "trailing" -> Fault("invalid_json", f.requestID)
      [] f.json = "object" -> Validate(f)

--------------------------------------------------------------------------------
(* The protocol as its document states it: what a command must look like.     *)

Present(s) == s \notin {"", "blank"}

\* The required fields of each command.
Required ==
    [t \in CommandTypes |->
        CASE t \in {"room.join", "room.leave"} -> {"room_id"}
          [] t = "room.broadcast" -> {"room_id", "payload"}
          [] t = "private.send" -> {"recipient_id", "payload"}]

\* The fields a frame carries.
Carried(f) ==
    {x \in {"room_id", "recipient_id", "payload"} :
        \/ x = "room_id" /\ Present(f.roomID)
        \/ x = "recipient_id" /\ Present(f.recipientID)
        \/ x = "payload" /\ f.payload = "object"}

\* A command of version 1 with everything it requires and nothing too long.
WellFormed(f) ==
    /\ ~ f.binary /\ f.json = "object" /\ f.version # "2"
    /\ Present(f.requestID) /\ f.requestID # "long"
    /\ f.type \in CommandTypes
    /\ Required[f.type] \subseteq Carried(f)
    /\ {f.roomID, f.recipientID} \cap {"wide", "long"} = {}

DecoderCodes == {"invalid_json", "unsupported_version", "unknown_message_type", "invalid_message"}

\* What must be wrong with a frame that is answered with one of these codes.
Deserves(f, code) ==
    CASE code = "invalid_json" -> ~ f.binary /\ f.json # "object"
      [] code = "unsupported_version" -> f.version = "2"
      [] code = "unknown_message_type" -> f.version # "2" /\ f.type = "other"
      [] code = "invalid_message" -> f.binary \/ (f.version # "2" /\ ~ WellFormed(f))
================================================================================

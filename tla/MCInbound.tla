-------------------------------- MODULE MCInbound ------------------------------
(* Instance of Inbound for TLC.                                               *)
EXTENDS Inbound

\* Every command with all its fields, between blanks or not.
Plain ==
    {[binary |-> FALSE, json |-> "object", version |-> "1", type |-> t, requestID |-> "id",
      roomID |-> r, recipientID |-> r, payload |-> "object"] :
        t \in CommandTypes, r \in {"id", "padded"}}

\* The same commands with one field changed in any way, with two that interact
\* (the fault the limiter or the decoder meets first decides the answer), and
\* the bare minimum of every command.
OneFault ==
    UNION {
        {[f EXCEPT !.binary = TRUE], [f EXCEPT !.json = "invalid"], [f EXCEPT !.type = "other"]}
        \cup {[f EXCEPT !.version = v, !.requestID = i] : v \in {"padded", "2"}, i \in {"", "wide"}}
        \cup {[f EXCEPT !.json = j, !.requestID = i] : j \in {"object", "trailing"}, i \in Text}
        \cup {[f EXCEPT !.roomID = i] : i \in Text}
        \cup {[f EXCEPT !.recipientID = i] : i \in Text}
        \cup {[f EXCEPT !.payload = v, !.roomID = ""] : v \in {"absent", "other"}}
        \cup {[f EXCEPT !.payload = v, !.recipientID = ""] : v \in {"absent", "object", "other"}}
        : f \in {g \in Plain : g.roomID = "id"}}

Frames == Plain \cup OneFault
================================================================================

-------------------------------- MODULE MCBroker -------------------------------
(* Instance of Broker for TLC.                                                *)
EXTENDS Broker

CONSTANTS n1, n2, s1, s2, s3

\* Two ids that differ; one of them is changed by sanitizeConsumerName.
IDs == n1 :> <<"a", ".", "1">> @@ n2 :> <<"a", "1">>

\* A pattern for everything, one for a namespace and one exact subject.
Patterns == s1 :> <<">">> @@ s2 :> <<"room", ">">> @@ s3 :> <<"room", "lobby">>

\* A subject of the namespace, the namespace itself, and one of another.
SomeSubjects == {<<"room", "lobby">>, <<"room">>, <<"user", "lobby">>}
================================================================================

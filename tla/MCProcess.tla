-------------------------------- MODULE MCProcess ------------------------------
(* Instance of Process for TLC.                                               *)
EXTENDS Process

Unset == [form |-> "unset", n |-> 0]
Texts ==
    {Unset, [form |-> "blank", n |-> 0], [form |-> "malformed", n |-> 0],
     [form |-> "padded", n |-> 7]}
    \cup {[form |-> "number", n |-> i] : i \in {-1, 0, 1, 10}}

Bare ==
    [environment |-> "unset", address |-> "unset", brokerURL |-> "unset", nodeID |-> "unset",
     origins |-> [form |-> "unset", list |-> {}], number |-> [k \in NumberKeys |-> Unset]]

\* Good origins, ones that need care and ones Validate refuses.
SomeOrigins ==
    {Origin("http", "a", ""), Origin("HTTP", "b", ""), Origin("https", "B", ""),
     Origin("ftp", "a", ""), Origin("http", "a", "/"), Origin("http", "*", ""), Origin("http", "", "")}
OriginTexts ==
    {[form |-> f, list |-> {}] : f \in {"unset", "blank", "list"}}
    \cup {[form |-> "list", list |-> {o, p}] : o \in SomeOrigins, p \in SomeOrigins}

\* One number at a time; every combination of environment and origins; the rest.
SomeEnvs ==
    {[Bare EXCEPT !.number[k] = t] : k \in NumberKeys, t \in Texts}
    \cup {[Bare EXCEPT !.environment = e, !.origins = o] :
             e \in {"blank", "test", "production", "staging"}, o \in OriginTexts}
    \cup {[Bare EXCEPT !.address = a, !.brokerURL = u] :
             a \in {"port", "other"}, u \in {"unset", "nats"}}

SomeHeaders ==
    {NoOrigin, Origin("http", "localhost:3000", "")}
    \cup {Origin(s, h, p) : s \in {"http", "HTTP", "https"}, h \in {"a", "b", "B"}, p \in {"", "/", "/x"}}
================================================================================

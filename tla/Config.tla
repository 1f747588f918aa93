--------------------------------- MODULE Config --------------------------------
(******************************************************************************)
(* The configuration: what LoadFrom makes of the environment variables, and   *)
(* which configurations Validate lets through.                                *)
(*                                                                            *)
(* A variable that holds a number or a duration is a text [form, n]: unset,   *)
(* blank, the number n, n between blanks, or malformed.  Other variables are  *)
(* unset, blank, or what their trimmed text says.  Durations are whole units, *)
(* the defaults being in seconds.                                             *)
(******************************************************************************)
EXTENDS Integers

IntegerKeys ==
    {"MAX_CONNECTIONS", "OUTBOUND_QUEUE_CAPACITY", "WS_RATE_LIMIT_MESSAGES",
     "WS_MAX_ROOMS_PER_CLIENT", "WS_MAX_MESSAGE_SIZE"}
DurationKeys ==
    {"HTTP_READ_HEADER_TIMEOUT", "HTTP_READ_TIMEOUT", "HTTP_WRITE_TIMEOUT", "HTTP_IDLE_TIMEOUT",
     "SHUTDOWN_TIMEOUT", "WS_READ_TIMEOUT", "WS_WRITE_TIMEOUT", "WS_RATE_LIMIT_INTERVAL"}
NumberKeys == IntegerKeys \cup DurationKeys

Default ==
    [k \in NumberKeys |->
        CASE k = "MAX_CONNECTIONS" -> 1000
          [] k = "OUTBOUND_QUEUE_CAPACITY" -> 64
          [] k = "WS_RATE_LIMIT_MESSAGES" -> 100
          [] k = "WS_MAX_ROOMS_PER_CLIENT" -> 10
          [] k = "WS_MAX_MESSAGE_SIZE" -> 4096
          [] k = "HTTP_READ_HEADER_TIMEOUT" -> 5
          [] k \in {"HTTP_READ_TIMEOUT", "HTTP_WRITE_TIMEOUT"} -> 15
          [] k \in {"SHUTDOWN_TIMEOUT", "WS_WRITE_TIMEOUT"} -> 10
          [] k \in {"HTTP_IDLE_TIMEOUT", "WS_READ_TIMEOUT", "WS_RATE_LIMIT_INTERVAL"} -> 60]

\* An origin as url.Parse sees it: it lowers the scheme, not the host.
Origin(scheme, host, path) == [scheme |-> scheme, host |-> host, path |-> path]
Lowered(o) == Origin(IF o.scheme = "HTTP" THEN "http" ELSE o.scheme, o.host, o.path)

defaultDevelopmentOrigins == {Origin("http", "localhost:3000", ""), Origin("http", "127.0.0.1:3000", "")}

\* A variable that is not set, or holds white space only, gives way to the default.
Missing(text) == text \in {"unset", "blank"}
valueOrDefault(text, fallback) == IF Missing(text) THEN fallback ELSE text

\* Atoi gets a trimmed text, ParseDuration the text as it is.
Parses(env) ==
    /\ \A k \in IntegerKeys : env.number[k].form # "malformed"
    /\ \A k \in DurationKeys : env.number[k].form \notin {"malformed", "padded"}

\* The limits and timeouts, read or by default.
Number(env) ==
    [k \in NumberKeys |-> IF Missing(env.number[k].form) THEN Default[k] ELSE env.number[k].n]

\* Production has no default origins.
DefaultOrigins(environment) ==
    IF environment # "production" THEN defaultDevelopmentOrigins ELSE {}

\* The configuration LoadFrom fills in before it validates it; env.origins.list
\* is what splitCSV returns.
Loaded(env) ==
    LET environment == valueOrDefault(env.environment, "development") IN
    [environment |-> environment,
     address |-> valueOrDefault(env.address, "port"),
     origins |-> IF Missing(env.origins.form) THEN DefaultOrigins(environment) ELSE env.origins.list,
     brokerURL |-> valueOrDefault(env.brokerURL, ""),
     nodeID |-> valueOrDefault(env.nodeID, "generated"),
     number |-> Number(env)]

\* No wildcard; an absolute http or https URL; nothing behind the host.
validateOrigin(o) ==
    /\ o.host \notin {"", "*"}
    /\ Lowered(o).scheme \in {"http", "https"}
    /\ o.path = ""

\* Mutant of Positive: only the integers are looked at.
PositiveIntegers(cfg) == \A k \in IntegerKeys : cfg.number[k] > 0

\* Every limit and every timeout is greater than zero.
Positive(cfg) == \A k \in NumberKeys : cfg.number[k] > 0

Validate(cfg) ==
    /\ cfg.environment \in {"development", "test", "production"}
    /\ cfg.address = "port"
    /\ Positive(cfg)
    /\ cfg.environment = "production" => cfg.origins # {}
    /\ \A o \in cfg.origins : validateOrigin(o)

\* LoadFrom returns no error.
LoadFrom(env) == Parses(env) /\ Validate(Loaded(env))
================================================================================

--------------------------------- MODULE Process -------------------------------
(******************************************************************************)
(* A server process from its environment variables to the heartbeat of one    *)
(* session: configuration, NewServer, the checks of an upgrade request, and   *)
(* the hand-off.  It composes Config and Heartbeat.                           *)
(*                                                                            *)
(* Once the session is handed off only the session is followed.               *)
(******************************************************************************)
EXTENDS Config, Heartbeat

CONSTANTS
    Envs,      \* the environments the process may be started in
    Headers    \* the Origin headers a request may have, NoOrigin included

\* What the operating system and the HTTP server hand over, as Config reads it.
IsOrigin(o) == o = Origin(o.scheme, o.host, o.path)
ASSUME EnvsAssumption ==
    \A e \in Envs :
        /\ \A k \in NumberKeys :
             /\ e.number[k].form \in {"unset", "blank", "number", "padded", "malformed"}
             /\ e.number[k].n \in Int
        /\ e.origins.form \in {"unset", "blank", "list"}
        /\ \A o \in e.origins.list : IsOrigin(o)
ASSUME HeadersAssumption == \A o \in Headers : IsOrigin(o)

VARIABLES
    process,   \* "start", "exited", "serving", "rejected", "upgraded", "session"
    env, cfg, header

processVars == <<process, env, cfg, header, heartbeat>>
NoOrigin == Origin("", "", "")
Nothing == [environment |-> "none"]

ProcessInit ==
    /\ process = "start" /\ env \in Envs /\ cfg = Nothing /\ header = NoOrigin
    /\ HeartbeatInit

\* main, run and NewServer: the configuration is loaded; then the listener or
\* the broker may fail.
Start ==
    /\ process = "start"
    /\ \/ /\ LoadFrom(env)
          /\ process' = "serving" /\ cfg' = Loaded(env)
       \/ process' = "exited" /\ UNCHANGED cfg
    /\ UNCHANGED <<env, header, heartbeat>>

\* Serve drains for eight tenths of the shutdown timeout, and gives the HTTP
\* server the rest to stop, or a second where there is no rest.
DrainTimeout(timeout) == (timeout * 8) \div 10
RemainingTimeout(timeout) ==
    IF timeout - DrainTimeout(timeout) <= 0 THEN 1 ELSE timeout - DrainTimeout(timeout)

\* Mutant of checkOrigin: only the host is compared.
checkHost(origins, o) == o = NoOrigin \/ \E a \in origins : a.host = o.host

\* No Origin header, or one whose scheme and host are a key of allowedOrigins.
checkOrigin(origins, o) ==
    \/ o = NoOrigin
    \/ /\ Lowered(o).scheme \in {"http", "https"} /\ o.host # "" /\ o.path \in {"", "/"}
       /\ Origin(Lowered(o).scheme, o.host, "") \in origins

\* NewServer picks the authenticator: every identity, or none in production.
Authenticates(environment, identity) == environment # "production" /\ identity

\* ServeHTTP, as far as it depends on the configuration.
Upgrade(o, identity) ==
    /\ process = "serving"
    /\ header' = o
    /\ process' = IF checkOrigin(cfg.origins, o) /\ Authenticates(cfg.environment, identity)
                  THEN "upgraded" ELSE "rejected"
    /\ UNCHANGED <<env, cfg, heartbeat>>

\* realtimeSessionHandler.Handle.
Handle ==
    /\ process = "upgraded"
    /\ process' = "session"
    /\ Open(cfg.number["WS_READ_TIMEOUT"])
    /\ env' = Nothing /\ cfg' = Nothing /\ header' = NoOrigin

Session == HeartbeatNext /\ UNCHANGED <<process, env, cfg, header>>

\* The process has exited, the request was rejected or the session is over.
Ended ==
    /\ process \in {"exited", "rejected"} \/ status \notin {"none", "open"}
    /\ UNCHANGED processVars

ProcessNext ==
    \/ Start
    \/ \E o \in Headers, identity \in BOOLEAN : Upgrade(o, identity)
    \/ Handle
    \/ Session
    \/ Ended

ProcessSpec == ProcessInit /\ [][ProcessNext]_processVars

--------------------------------------------------------------------------------
(* Properties. *)

Serving == process \in {"serving", "rejected", "upgraded"}

\* A process that serves has read every number it was given and holds only
\* positive limits and timeouts, so that admission, queues and the rate limiter
\* are on, drain and stop share the shutdown timeout, and pings come before the
\* deadline; in production its origins were spelled out.
ServesSoundConfig ==
    Serving =>
        /\ \A k \in NumberKeys :
             /\ cfg.number[k] > 0
             /\ env.number[k].form \in {"number", "padded"} => cfg.number[k] = env.number[k].n
             /\ env.number[k].form # "malformed"
        /\ LET timeout == cfg.number["SHUTDOWN_TIMEOUT"] IN
             DrainTimeout(timeout) + RemainingTimeout(timeout) = timeout
        /\ PingInterval(cfg.number["WS_READ_TIMEOUT"]) < cfg.number["WS_READ_TIMEOUT"]
        /\ cfg.environment = "production" =>
             env.origins.form = "list" /\ cfg.origins = env.origins.list

\* A browser gets a session only from an origin that was configured, or from the
\* development origins where none was, and never in production, where no
\* authenticator is configured; and the configured origins, written as browsers
\* write them, are let through.
OnlyConfiguredOrigins ==
    LET configured == IF Missing(env.origins.form) THEN defaultDevelopmentOrigins
                      ELSE env.origins.list
        same(o) == \E a \in configured : Lowered(a) = Lowered(Origin(o.scheme, o.host, "")) IN
    /\ process = "upgraded" =>
           (header = NoOrigin \/ same(header)) /\ cfg.environment # "production"
    /\ process \in {"rejected", "upgraded"} /\ header \in configured /\ header.scheme # "HTTP" =>
           checkOrigin(cfg.origins, header)
================================================================================

--------------------------------- MODULE Broker --------------------------------
(******************************************************************************)
(* The broker a server is built with: JetStream if the configuration names a  *)
(* broker URL, else the in-process bus.  The other one does not exist.        *)
(******************************************************************************)
EXTENDS MemoryBroker, NatsBroker

VARIABLE kind   \* what NewServerWithAuthenticator made

brokerVars == <<kind, memory, nats>>

BrokerInit ==
    /\ kind \in {"memory", "nats"}
    /\ MemoryInit /\ NatsInit

MemoryStep == kind = "memory" /\ MemoryNext /\ UNCHANGED <<kind, nats>>
NatsStep == kind = "nats" /\ NatsNext /\ UNCHANGED <<kind, memory>>

\* A node that is down is started again, lost connections are retried for ever,
\* and the stream and the consumer go on; faults end.
BrokerSpec ==
    /\ BrokerInit
    /\ [][MemoryStep \/ NatsStep]_brokerVars
    /\ \A n \in Node :
         WF_brokerVars(kind = "nats" /\ NodeStep(n) /\ UNCHANGED <<kind, memory>>)
================================================================================

\* The bus: a publisher, three subscriptions, Close.
\* JetStream: two nodes, two events, two faults.
CONSTANTS
    n1 = n1  n2 = n2
    s1 = s1  s2 = s2  s3 = s3
    Publisher = {p1}
    Subscription = {s1, s2, s3}
    Subjects <- SomeSubjects
    PatternOf <- Patterns
    Node = {n1, n2}
    NodeID <- IDs
    Event = {e1, e2}
    NoEvent = NoEvent
    MaxFaults = 2
SPECIFICATION BrokerSpec
CHECK_DEADLOCK FALSE
INVARIANTS PublishReaches QuietAfterStop NothingDropped
PROPERTIES EveryNodeHandles

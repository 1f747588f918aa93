\* A private message to a user without a session, on a single node.
CONSTANTS
    n1 = n1  n2 = n2
    c1 = c1  c2 = c2  c3 = c3
    u1 = u1  u2 = u2
    None = None
    Node = {n1}
    Conn = {c1}
    User = {u1, u2}
    NodeOf <- Nodes
    UserOf <- Successive
    PublishAllowed = {}
    Sender = {c1}
    MaxEvents = 1
    MaxRedeliveries = 1
SPECIFICATION Spec
INVARIANTS OfflineIsReported

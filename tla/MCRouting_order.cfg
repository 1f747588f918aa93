\* Two commands between two nodes, with a lost acknowledgement.
CONSTANTS
    n1 = n1  n2 = n2
    c1 = c1  c2 = c2  c3 = c3
    u1 = u1  u2 = u2
    None = None
    Node = {n1, n2}
    Conn = {c1, c3}
    User = {u1, u2}
    NodeOf <- Nodes
    UserOf <- Successive
    PublishAllowed = {}
    Sender = {c1}
    MaxEvents = 2
    MaxRedeliveries = 1
SPECIFICATION Spec
INVARIANTS NothingLost SenderOrder

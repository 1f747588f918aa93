\* One command among three sessions of two users on two nodes, every
\* change of membership, two lost acknowledgements.
CONSTANTS
    n1 = n1  n2 = n2
    c1 = c1  c2 = c2  c3 = c3
    u1 = u1  u2 = u2
    None = None
    Node = {n1, n2}
    Conn = {c1, c2, c3}
    User = {u1, u2}
    NodeOf <- Nodes
    UserOf <- Successive
    PublishAllowed = {u1}
    Sender = {c1}
    MaxEvents = 1
    MaxRedeliveries = 2
SPECIFICATION FairSpec
INVARIANTS NoDuplicates OnlyAddressed ErrorMeansNotAccepted
PROPERTIES EventsSettle

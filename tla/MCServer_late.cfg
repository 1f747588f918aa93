\* A request that passed the readiness check registers after CloseAll.
CONSTANTS
    c1 = c1  c2 = c2  u1 = u1
    None = None
    Conn = {c1}
    User = {u1}
    Room = {}
    UserOf <- OneUser
    MaxRooms = 1
    JoinAllowed = {}
    MaxConnections = {2}
SPECIFICATION ServerSpec
INVARIANTS NoSessionOutlivesShutdown

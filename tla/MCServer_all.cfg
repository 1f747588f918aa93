\* Two requests of one user for one place or for two.
CONSTANTS
    c1 = c1  c2 = c2  u1 = u1
    None = None
    Conn = {c1, c2}
    User = {u1}
    Room = {}
    UserOf <- OneUser
    MaxRooms = 1
    JoinAllowed = {}
    MaxConnections = {1, 2}
SPECIFICATION FairServerSpec
INVARIANTS AdmissionBound StopLeavesOnlyLateSessions
PROPERTIES ServeTerminates PlaceIsReleased

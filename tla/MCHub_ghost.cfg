\* A late join leaves a disconnected session in a room.
CONSTANTS
    c1 = c1  c2 = c2  c3 = c3  u1 = u1
    None = None
    Conn = {c1}
    User = {u1}
    Room = {r1}
    UserOf <- OneUser
    MaxRooms = 1
    JoinAllowed <- EveryJoin
SPECIFICATION Spec
INVARIANTS DisconnectedNotInRooms

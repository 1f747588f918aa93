\* Three successive sessions of one user, two rooms, room limit one.
CONSTANTS
    c1 = c1  c2 = c2  c3 = c3  u1 = u1
    None = None
    Conn = {c1, c2, c3}
    User = {u1}
    Room = {r1, r2}
    UserOf <- OneUser
    MaxRooms = 1
    JoinAllowed <- EveryJoin
SPECIFICATION FairSpec
INVARIANTS TypeOK RoomIndexesAgree RoomLimit LateMembershipBound RegistryIsLive OrphanHasCloser
PROPERTIES EntryOutlivesStaleCleanup UnwantedSessionEnds

\* Calls one after the other, one session evicted, rooms joined again.
SPECIFICATION Spec
\* All sessions may have closed.
CHECK_DEADLOCK FALSE
CONSTANTS
    s1 = s1  s2 = s2  s3 = s3  u1 = u1  u2 = u2  r1 = r1  r2 = r2  r3 = r3
    None = None  Kicker = Kicker
    Sessions = {s1, s2, s3}
    Users = {u1, u2}
    Rooms = {r1, r2, r3}
    UserOf <- MCUserOf
    Kickable = {s1}
    MaxUsersPerRoom = 1
    MaxRoomsPerUser = 2
    MaxRoomsTotal = 2
    WordMax = 7
    MaxCalls = 1
    MaxRefs = 2
    Rejoin = TRUE
INVARIANTS
    TypeOK
    RoutingAgrees
    RoomCountExact
    RefsCoverSessions
    
PROPERTIES
    RefsNeverUnderflow
    MembershipSpec

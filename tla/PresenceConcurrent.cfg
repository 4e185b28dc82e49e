\* Two sessions whose calls overlap, and the eviction of one of them.
SPECIFICATION Spec
\* All sessions may have closed.
CHECK_DEADLOCK FALSE
CONSTANTS
    s1 = s1  s2 = s2  s3 = s3  u1 = u1  u2 = u2  r1 = r1  r2 = r2  r3 = r3
    None = None  Kicker = Kicker
    Sessions = {s1, s2}
    Users = {u1}
    Rooms = {r1}
    UserOf <- MCUserOf
    Kickable = {s1}
    MaxUsersPerRoom = 0
    MaxRoomsPerUser = 0
    MaxRoomsTotal = 0
    WordMax = 3
    MaxCalls = 2
    MaxRefs = 2
    Rejoin = TRUE
INVARIANTS
    
    
    SomeCallCanStep

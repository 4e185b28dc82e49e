\* Four connections with a session key each; the oldest session is evicted.
SPECIFICATION Spec
\* All connections may have ended.
CHECK_DEADLOCK FALSE
CONSTANTS
    c1 = c1  c2 = c2  c3 = c3  c4 = c4
    k1 = k1  k2 = k2  k3 = k3  k4 = k4
    u1 = u1  u2 = u2  t1 = t1  t2 = t2  None = None
    Conns = {c1, c2, c3, c4}
    Keys = {k1, k2, k3, k4}
    Users = {u1}
    Tenants = {t1}
    KeyOf <- OwnKeyOf
    UserOf <- OneUserOf
    TenantOf <- OneTenantOf
    MaxTotal <- Cap2
    MaxPerUser <- PerUser2
    OnExceed <- Kick
    U64Max = 15
SYMMETRY Symmetry
INVARIANTS
    SessionsWithinCap
    CounterExact
    IndexedAreRegistered
    NothingLeftBehind
PROPERTIES
    EvictsOldest
    AdmissionSpec

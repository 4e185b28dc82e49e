\* A tenant that evicts and one that denies; connections share a session id.
SPECIFICATION FairSpec
\* All connections may have ended.
CHECK_DEADLOCK FALSE
CONSTANTS
    c1 = c1  c2 = c2  c3 = c3  c4 = c4
    k1 = k1  k2 = k2  k3 = k3  k4 = k4
    u1 = u1  u2 = u2  t1 = t1  t2 = t2  None = None
    Conns = {c1, c2, c3, c4}
    Keys = {k1, k2}
    Users = {u1, u2}
    Tenants = {t1, t2}
    KeyOf <- TwoKeyOf
    UserOf <- TwoUserOf
    TenantOf <- TwoTenantOf
    MaxTotal <- Cap2
    MaxPerUser <- PerUser1
    OnExceed <- KickOrDeny
    U64Max = 15
INVARIANTS
    CounterCovers
    GaugeCountsSessions
PROPERTIES
    CallsReturn

\* Two connections with the same client-provided session id.
SPECIFICATION Spec
\* All connections may have ended.
CHECK_DEADLOCK FALSE
CONSTANTS
    c1 = c1  c2 = c2  c3 = c3  c4 = c4
    k1 = k1  k2 = k2  k3 = k3  k4 = k4
    u1 = u1  u2 = u2  t1 = t1  t2 = t2  None = None
    Conns = {c1, c2}
    Keys = {k1, k2}
    Users = {u1}
    Tenants = {t1}
    KeyOf <- SharedKeyOf
    UserOf <- OneUserOf
    TenantOf <- OneTenantOf
    MaxTotal <- Cap2
    MaxPerUser <- PerUser2
    OnExceed <- Deny
    U64Max = 15
INVARIANTS
    CountReturnsToZero

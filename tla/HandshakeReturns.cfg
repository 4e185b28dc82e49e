SPECIFICATION Spec
CONSTANTS
    r1 = r1  r2 = r2  r3 = r3  i1 = i1  i2 = i2
    Requests = {r1, r2, r3}
    Ips = {i1, i2}
    IpOf <- MCIpOf
    Shards = {1, 2}
    ShardOf <- MCShardOf
    GlobalBurst = 2
    PerIpBurst = 1
    MaxIpEntries = 1
    None = None
PROPERTIES
    CheckReturns
CHECK_DEADLOCK FALSE

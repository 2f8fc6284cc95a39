SPECIFICATION FairSpec
CONSTANTS
    Users = {u1, u2}
    Keys = {k1, k2}
    Conns = {n1, n2}
    Slots = {s1, s2, s3}
    NoSlot = NoSlot
    NoConn = NoConn
    MaxKeys = 1
    MaxConnsPerKey = 1
    MaxConnLifetime = 0
    StaleKeyLifetime = 0
    MaxClock = 1
INVARIANTS
    OneOwner
    NoOrphans
PROPERTIES
    CloseEnds
CHECK_DEADLOCK FALSE

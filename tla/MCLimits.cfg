SPECIFICATION Spec
CONSTANTS
    c1 = c1
    c2 = c2
    c3 = c3
    k1 = k1
    k2 = k2
    Clients = {c1, c2}
    Keys = {k1, k2}
    IpOf <- MCIpOf
    SourceOf <- MCSourceOf
    GlobalL <- NoopThenTwo
    IpL <- SemaphoreThenRate
    SourceL <- OneSemaphore
    DestL <- OneSemaphore
    MaxBuckets = 2
    ReapInterval = 1
    MaxClock = 1
    MaxIntervals = 1
    MaxMsgs = 2
INVARIANTS
    SemaphoresExact
    RateRespected
CHECK_DEADLOCK FALSE

SPECIFICATION FairSpec
CONSTANTS
    d1 = d1
    d2 = d2
    r1 = r1
    r2 = r2
    Domains = {d1, d2}
    Rcpts = {r1, r2}
    DomainOf <- RcptDomain
    NonAscii = {r1}
    MaxMX <- TwoRecords
    Configured = {"mtasts", "dane", "dnssec", "local_policy"}
    MinTLS = 1
    MinMX = 1
    Relaxed = FALSE
    Flags <- AllFlags
    ReuseLimit = 2
    Scenarios <- WideOrLong
INVARIANTS
    SecureEnough
    PlacesBalanced
    EveryRcptAnswered
PROPERTIES
    AddRcptEnds
CHECK_DEADLOCK FALSE

SPECIFICATION FairSpec
CONSTANTS
    Msgs = {m1}
    Rcpts = {r1, r2}
    Workers = {w1, w2}
    MaxTries = 2
    MaxParallelism = 1
    Partial = FALSE
    FaultKinds = {"kill"}
    MaxFaults = 1
    MaxCloses = 1
INVARIANTS
    CloseIsClean
PROPERTIES
    EventuallySettled
CHECK_DEADLOCK FALSE

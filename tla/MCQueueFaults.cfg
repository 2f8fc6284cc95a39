SPECIFICATION Spec
CONSTANTS
    Msgs = {m1}
    Rcpts = {r1, r2}
    Workers = {w1, w2}
    MaxTries = 2
    MaxParallelism = 2
    Partial = TRUE
    FaultKinds = {"kill", "update", "remove", "store", "sync", "read", "commit", "panic"}
    MaxFaults = 2
    MaxCloses = 0
INVARIANTS
    RcptAccounted
    RetriesBounded
    ContentPresent
    OneAttemptAtATime
CHECK_DEADLOCK FALSE
SYMMETRY Symmetry

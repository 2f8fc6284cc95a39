SPECIFICATION Spec
CONSTANTS
    Msgs = {m1}
    Rcpts = {r1}
    Workers = {w1}
    MaxTries = 2
    MaxParallelism = 1
    Partial = TRUE
    FaultKinds = {}
    MaxFaults = 0
    MaxCloses = 1
INVARIANT PreservedOnDisk
CHECK_DEADLOCK FALSE

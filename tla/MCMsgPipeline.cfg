SPECIFICATION Spec
CONSTANTS
    Checks = {c1, c2, c3}
    c1 = c1
    c2 = c2
    c3 = c3
    Blocks = {b1, b2}
    b1 = b1
    b2 = b2
    Targets = {t1, t2}
    t1 = t1
    t2 = t2
    Rcpts = {r1, r2}
    r1 = r1
    r2 = r2
    a = a
    Addrs = {r1, r2, a}
    Setups <- Both
    Expand <- AliasOfTwo
    BlockExpand <- Same
    BlockOf <- AliasApart
    TargetsOf <- AliasToBoth
    MaxRcptCalls = 3
INVARIANTS
    CheckedBeforeTarget
    ReplayComplete
    CommitNeedsAllBodies
CHECK_DEADLOCK FALSE

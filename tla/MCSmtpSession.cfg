SPECIFICATION Spec
CONSTANTS
    Sessions = {s1, s2}
    Senders <- DomainForms
    Null = Null
    d1 = d1
    Upper = Upper
    CleanDomain <- LowerCase
    Rcpts = {r1}
    Endpoints <- EagerOrClosing
    MaxMsgs = 2
INVARIANTS
    TokensMatch
    EnvelopeAgrees
    ClosedOwnsNothing
SYMMETRY Symmetry
CHECK_DEADLOCK FALSE

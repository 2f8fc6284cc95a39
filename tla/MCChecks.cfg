SPECIFICATION FairSpec
CONSTANTS
    Actions <- SomeActions
    Lists <- ThreeLists
    QuarantineThreshold = 1
    RejectThreshold = 3
    DkimFailOpen = TRUE
    MilterFailOpen = TRUE
    Scenarios <- AllScenarios
    DnsAnswers <- SomeAnswers
    SigSets <- SomeSigs
    Draws = {0, 99}
    MaxRcpts = 2
INVARIANTS
    VerdictsEnforced
    DeferredDecided
    ListingsCounted
PROPERTIES
    StagesEnd
CHECK_DEADLOCK FALSE

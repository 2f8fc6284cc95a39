SPECIFICATION Spec
CONSTANTS
    MaxNesting = 255
    MaxExpansion = 8
    Environment <- CEnvironment
    BadRules = {"bad"}
    Numbers = {"0", "1"}
    Durations <- CDurations
    Sizes <- CSizes
    MaxWrites = 1
    Inputs <- CInputs
    Types <- CTypes
    Prefixed <- CPrefixed
    GlobalDirectives <- CGlobals
    Modes = {"run", "out"}
    MaxSignals = 2
    BusyAddrs = {}
    ReadFiles <- Read
    ParsePipeline <- ParseRoot
INVARIANTS
    ConfigMeaning
    ConfigHonoured
    TableWhole
    UsersClosedFirst
PROPERTIES
    ShutdownEnds
    TableCatchesUp
CHECK_DEADLOCK FALSE

SPECIFICATION WheelFairSpec
CONSTANTS
    Adders = {a1, a2}
    MaxTime = 2
    MaxAdds = 3
INVARIANTS
    NoMissedWakeup
PROPERTIES
    EventuallyDispatched
    CloseReturns
    ImplementsScheduler

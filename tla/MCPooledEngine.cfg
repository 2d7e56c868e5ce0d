SPECIFICATION EngineSpec
CONSTANTS
    Caller = {c1, c2, c3}
    Resource = {r1, r2, r3, r4}
    Host = {h1, h2}
    Background = background
    NoResource = none
    Min = 1
    Max = 2
    IdleEviction = TRUE
    AcquireTimeouts = TRUE
    CreateMayFail = TRUE
SYMMETRY Symmetry
INVARIANTS
    TypeOK
    CapacityBound
    Ownership
    QueueExact
    PendingExact
    DrainedHoldsNoIdle
    UntimedWithinFloor
    DrainingIsClosing
PROPERTIES
    DrivesPool
    LendsCorrectly

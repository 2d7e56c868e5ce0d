SPECIFICATION HealthyPoolSpec
CONSTANTS
    Caller = {c1, c2, c3}
    Resource = {r1, r2, r3}
    Host = {}
    Background = background
    NoResource = none
    Min = 0
    Max = 2
    IdleEviction = FALSE
    AcquireTimeouts = FALSE
    CreateMayFail = FALSE
INVARIANTS
    NoIdleWhileWaiting
PROPERTIES
    WaiterServed

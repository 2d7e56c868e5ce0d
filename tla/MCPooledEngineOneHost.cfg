SPECIFICATION FairEngineSpec
CONSTANTS
    Caller = {c1, c2}
    Resource = {r1, r2, r3}
    Host = {h1}
    Background = background
    NoResource = none
    Min = 2
    Max = 2
    IdleEviction = FALSE
    AcquireTimeouts = FALSE
    CreateMayFail = TRUE
INVARIANTS
    ClosedHoldsNoIdle
PROPERTIES
    DrainEmpties
    ConnectSettles

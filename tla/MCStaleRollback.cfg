SPECIFICATION MigSpec
CONSTANTS
    Process = {p1, p2}
    Host = {h1, h2}
    NoProcess = none
    Orphan = orphan
    Dialects <- AllDialects
    fsVersion = 3
    Plan <- ThePlan
    On <- Tables
    t = t
    a = a
    u = u
    b = b
    SettleSuffices = TRUE
    RollbackAlone = FALSE
    WholeVersions = TRUE
INVARIANTS
    HistoryHasNoHole

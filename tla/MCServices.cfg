SPECIFICATION Spec
CONSTANTS
    Socket = {s1, s2, s3}
    NoSocket = none
    MaxAttempts = 2
    AwaitsClose = TRUE
    Span = {a, b, c, d}
    Flight = {f1, f2}
    Sizes <- SizesToCheck
    BatchSize = 2
    MaxBuffer = 3
    MaxLogs = 5
    MaxTasks = 3
    MaxTaken = 4
    Name = {n1, n2}
    Job = {j1, j2}
    NoJob = nojob
CHECK_DEADLOCK FALSE
INVARIANTS
    OneSocket
    ExporterOutlivesExports
    LogsDelivered
    OneTicker
    JobsKept
PROPERTIES
    ReconnectSettles
    SpansLeave

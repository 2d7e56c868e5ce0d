SPECIFICATION FairSpec
CONSTANTS
    Task = {t1, t2}
    Slot = {s1}
    Conn = {c1, c2}
    Name = {n1}
    None = none
    Label <- SameId
    BeginsRace = TRUE
    AutoRollback = FALSE
    Timeouts = TRUE
    Overlaps = FALSE
    Disconnects = FALSE
    CommitSticks = TRUE
    MaxSavepoints = 0
PROPERTIES
    TransactionEnds

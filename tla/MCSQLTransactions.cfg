SPECIFICATION Spec
CONSTANTS
    Task = {t1, t2}
    Slot = {s1, s2}
    Conn = {c1, c2}
    Name = {t1, t2}
    None = none
    Label <- OwnIds
    BeginsRace = FALSE
    AutoRollback = TRUE
    Timeouts = TRUE
    Overlaps = FALSE
    Disconnects = FALSE
    CommitSticks = FALSE
    MaxSavepoints = 2
SYMMETRY Symmetry
INVARIANTS
    TxTypeOK
    NothingLeaks
    OneRequestAtATime
    SavepointsExist
    CleanHandover
    OutcomeHonest

SPECIFICATION Spec
CONSTANTS
    Task = {t1, t2}
    Slot = {s1, s2}
    Conn = {c1, c2}
    Name = {t1, t2}
    None = none
    Label <- OwnIds
    BeginsRace = FALSE
    AutoRollback = TRUE
    Timeouts = FALSE
    Overlaps = TRUE
    Disconnects = TRUE
    CommitSticks = FALSE
    MaxSavepoints = 1
SYMMETRY Symmetry
INVARIANTS
    NothingLeaks
    OutcomeHonest

SPECIFICATION Spec
CONSTANTS
    Task = {t1, t2}
    Slot = {s1}
    Conn = {c1, c2, c3}
    Name = {n1}
    None = none
    Label <- SameId
    BeginsRace = FALSE
    AutoRollback = TRUE
    Timeouts = TRUE
    Overlaps = FALSE
    Disconnects = FALSE
    CommitSticks = FALSE
    MaxSavepoints = 0
SYMMETRY Symmetry
INVARIANTS
    OutcomeHonest

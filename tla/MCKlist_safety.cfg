SPECIFICATION Spec
CONSTANTS
    Nodes = {n1, n2}
    Threads = {t1, t2, t3}
    HEAD = HEAD
    NULL = NULL
    RemoveWhilePinned = TRUE
    StartAnywhere = FALSE
SYMMETRY ClientSymmetry
INVARIANTS
    TypeOK
    RefsAccounted
    ListIntegrity
    NoLostWakeup
PROPERTY DeletedForGood
CHECK_DEADLOCK FALSE

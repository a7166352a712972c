SPECIFICATION WalkSpec
CONSTANTS
    Nodes = {n1, n2, n3}
    Threads = {t1, t2}
    Walker = t1
    HEAD = HEAD
    NULL = NULL
    RemoveWhilePinned = FALSE
    StartAnywhere = FALSE
SYMMETRY NodeSymmetry
PROPERTIES
    WalkComplete
    WalkOnce

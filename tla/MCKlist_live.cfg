SPECIFICATION FairSpec
CONSTANTS
    Nodes = {n1, n2}
    Threads = {t1, t2}
    HEAD = HEAD
    NULL = NULL
    RemoveWhilePinned = FALSE
    StartAnywhere = FALSE
PROPERTIES
    KeepsPromise
    RemoveReturns
    DeletedLeave

SPECIFICATION Spec
CONSTANTS
    Nodes = {n1}
    Threads = {t1, t2}
    HEAD = HEAD
    NULL = NULL
    RemoveWhilePinned = FALSE
    StartAnywhere = TRUE
INVARIANT HeldNodesLinked

SPECIFICATION FairListsSpec
CONSTANTS
    Nodes = {n1, n2, n3, n4}
    t1 = t1
    t2 = t2
    t3 = t3
    Threads <- AllThreads
    Uses <- AllowedUses
    NULL = NULL
    ListHeads = {g, h}
    DNodes = {x, y, z}
    Maps = {A, B}
    Buckets = 2
    HKeys = {1, 3}
    HNodes = {x, y, z}
    NOWHERE = NOWHERE
    NumberOfBurkets = 2
    Ids = {1, 2, 3}
    DataOf <- MCDataOf
    NOBODY = NOBODY
    WILD = WILD
INVARIANTS
    NothingLost
    NodesSafe
    LoopsVisitAll
    FamiliesTogether
PROPERTIES
    KeepsPromise
    DlistKeepsPromise
    HashMapKeepsPromise
    HashtableKeepsPromise
    LockFree

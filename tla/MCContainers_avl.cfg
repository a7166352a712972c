SPECIFICATION Spec
CONSTANTS
    UINT = 8
    MaxSize = 6
    ESizes = {1, 2, 3}
    Capacity = 3
    Values = {a, b}
    NONE = NONE
    Keys <- MCKeys
    Weight <- MCWeight
    NULL = NULL
    IntMax = 10
    UintMax = 1
    Loose = 3
    BKeys <- MCBKeys
    ValsOf <- MCValsOf
    Geometries = {4, 5}
    Addresses <- MCAddresses
    Asked = {6}
    Few = 3
    Mixed = {3, 6, 8}
    NIL = NIL
    PAGE_SIZE = 2
    LastPage = 5
    Rings <- MCRings
    MaxEntries = 4
    Intervals <- MCIntervals
    NoTree = NoTree
    SingleTurns = FALSE
INVARIANT RotationsKeepEntries

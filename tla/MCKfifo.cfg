SPECIFICATION KindsSpec
CONSTANTS
    Writers = {w1, w2}
    Readers = {r1, r2}
    LockIn = TRUE
    LockOut = TRUE
    UINT = 8
    Size = 4
    Values = {a, b}
    BYTE = 3
    RecSizes = {1, 2}
    Payload = {1, 2}
    NONE = NONE
SYMMETRY Symmetric
INVARIANTS
    TypeOK
    NeverOverfull
    ClaimsFit
    NoRace
    RecordsTile
PROPERTIES
    KeepsPromise
    RecordsKeepPromise

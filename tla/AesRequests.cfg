SPECIFICATION FairSpec
CONSTANTS
    Requests = {r1, r2, r3}
    Workers = {w1, w2}
    Addresses = {a1, a2}
    MaxChunks = 2
    Nobody = Nobody
CHECK_DEADLOCK FALSE
INVARIANTS
    TypeOK
    InOnePlace
    NoCrosstalk
PROPERTY Answered

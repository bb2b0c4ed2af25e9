SPECIFICATION FairSpec
CONSTANTS
    Requests = {r1, r2}
    Users = {u1, u2}
    AccessTTL = 2
    RefreshTTL = 3
INVARIANT TypeOK
PROPERTIES
    OffDwindles
    CutOff

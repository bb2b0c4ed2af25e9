SPECIFICATION FairSpec
CONSTANTS
    Requests = {r1, r2}
    Emails = {e1}
    Codes = {c1, c2}
    NoCode = NoCode
    CodeTTL = 3
    MaxTime = 0
    MaxConns = 2
    MaxUserId = 1
    MaxCrashes = 0
CHECK_DEADLOCK FALSE
PROPERTY NoDuplicateSend

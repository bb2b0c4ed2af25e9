SPECIFICATION FairSpec
CONSTANTS
    Requests = {r1, r2, r3}
    Emails = {e1, e2}
    Codes = {c1, c2}
    NoCode = NoCode
    CodeTTL = 1
    MaxTime = 1
    MaxConns = 2
    MaxUserId = 2
    MaxCrashes = 1
CHECK_DEADLOCK FALSE
INVARIANTS
    TypeOK
    AccountIntegrity
    NoIdentityClash
    OwnershipProved
    TokensMatchAccount
PROPERTIES
    Answered
    ImplementsAccounts

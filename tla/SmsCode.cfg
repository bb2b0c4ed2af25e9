SPECIFICATION Spec
CONSTANTS
    Requests = {r1, r2, r3, r4}
    Phones = {p1, p2}
    Codes = {c1, c2}
    NoCode = NoCode
    CodeTTL = 2
SYMMETRY Symmetric
CHECK_DEADLOCK FALSE
INVARIANTS
    TypeOK
    NewestWorks

SPECIFICATION Spec
CONSTANTS
    Requests = {r1, r2}
    Workers = {w1}
    Addresses = {a1}
    MaxChunks = 1
    Nobody = Nobody
CHECK_DEADLOCK FALSE
INVARIANT ResponseHeldSafely

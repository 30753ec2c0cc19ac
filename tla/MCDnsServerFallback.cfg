\* One query, of any kind; its name may be unknown, the other server may fail.
SPECIFICATION Spec
CONSTANTS
    p = p
    q = q
    Queries = {p}
    MaxBufs = 3
INVARIANT FallbackAsDocumented
CHECK_DEADLOCK FALSE

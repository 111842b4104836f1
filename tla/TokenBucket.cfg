CONSTANTS
    k1 = k1
    k2 = k2
    t1 = t1
    t2 = t2
    Subjects = {k1, k2}
    Threads = {t1}
    Capacity = 4
    Cost = 2
    Horizon = 7

SPECIFICATION Spec
CHECK_DEADLOCK FALSE

INVARIANTS
    TypeOK
    RateBound
    OwedIsPaid

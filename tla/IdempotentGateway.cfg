CONSTANTS
    r1 = r1
    r2 = r2
    r3 = r3
    r4 = r4
    r5 = r5
    k1 = k1
    k2 = k2
    Requests = {r1, r2, r3, r4, r5}
    NoRequest = NoRequest
    Streams = {r5}
    Keys = {k1, k2}
    KeyOf <- MCKeyOf
    Lease = 3
    Ttl = 2
    MaxRun = 2
    MostBills = 0

SPECIFICATION FairSpec
CHECK_DEADLOCK FALSE

INVARIANTS
    TypeOK
    ReplaysAreAnswers

PROPERTIES
    KeepsPromise
    EveryRetryGetsThrough

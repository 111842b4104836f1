CONSTANTS
    r1 = r1
    r2 = r2
    r3 = r3
    r4 = r4
    r5 = r5
    k1 = k1
    k2 = k2
    Requests = {r1, r2}
    NoRequest = NoRequest
    Streams = {}
    Keys = {k1}
    KeyOf <- MCKeyOf
    Lease = 3
    Ttl = 2
    MaxRun = 2
    MostBills = 2

SPECIFICATION Spec
CHECK_DEADLOCK FALSE

INVARIANTS
    BilledOnce

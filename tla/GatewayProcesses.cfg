CONSTANTS
    r1 = r1
    r2 = r2
    r3 = r3
    r4 = r4
    k1 = k1
    k2 = k2
    p1 = p1
    p2 = p2
    Requests = {r1, r2, r3, r4}
    NoRequest = NoRequest
    Streams = {}
    Keys = {k1, k2}
    KeyOf <- MCKeyOf
    Lease = 1
    Ttl = 1
    MaxRun = 1
    MostBills = 0
    Processes = {p1, p2}
    ProcessOf <- MCProcessOf
    CacheTtl = 2
    Cap = 2

SPECIFICATION ProcessesSpec
SYMMETRY Twins
CHECK_DEADLOCK FALSE

INVARIANTS
    LedgerBounded
    SingleFlight

PROPERTIES
    AnswersStayFresh
    NotPaidAgain
    LiveRowsAreOwned

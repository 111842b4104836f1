CONSTANTS
    r1 = r1
    r2 = r2
    r3 = r3
    a = a
    b = b
    c = c
    m1 = m1
    m2 = m2
    m3 = m3
    u1 = u1
    Requests = {r1, r2, r3}
    NoRequest = NoRequest
    Models = {m1, m2, m3}
    NoModel = NoModel
    Providers = {a, b, c}
    ProviderOf <- MCProviderOf
    Adapters = {a, b}
    Users = {u1}
    UserOf <- MCUserOf
    Decisions <- MCDecisions
    Estimate <- MCEstimate
    Costs = {1}
    Cap = 2
    Threshold = 2
    Window = 1

SPECIFICATION Spec
SYMMETRY MCSymmetry
CHECK_DEADLOCK FALSE

INVARIANTS
    TypeOK
    InflightMatchesCalls
    BooksAgree
    FailureIsFree
    OvershootBounded

PROPERTIES
    OnlyAttemptsTripCircuits
    OpenCircuitGetsNoCall

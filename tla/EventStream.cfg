CONSTANTS
    m1 = m1
    m2 = m2
    draft = draft
    Models = {m1, m2}
    NoModel = NoModel
    DraftModel = draft
    MaxPieces = 3
    MaxEmpty = 2

SPECIFICATION Spec
CHECK_DEADLOCK FALSE

INVARIANTS
    TypeOK
    Lifecycle
    TextIntact
    OneModelNamed

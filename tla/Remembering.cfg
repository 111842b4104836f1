CONSTANTS
    Catalog <- MCCatalog
    Hashes = 4
    Settings <- MCSettings
    Strategies <- MCStrategies
    Tasks = {1, 2}
    Clients = {"a", "b"}
    Owner <- MCOwner
    Profile <- MCProfile
    Circumstances <- MCCircumstances

SPECIFICATION Spec
CHECK_DEADLOCK FALSE

INVARIANTS
    TypeOK
    NothingHoldsTheDead
    EvenShares
    
    ProbesRationed

PROPERTIES
    Isolated
    NoisyNeighbour
    SessionStays
    PollingIsServed

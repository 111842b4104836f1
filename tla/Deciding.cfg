CONSTANTS
    Catalog <- MCCatalog
    Hashes = 4
    Settings <- MCSettings
    Strategies <- MCStrategies
    Questions <- MCQuestions
    Levels <- MCLevels
    Benefits <- MCBenefits

SPECIFICATION Spec
CHECK_DEADLOCK FALSE

INVARIANTS
    TypeOK
    OpenCircuitIsLastResort

PROPERTIES
    FailoverFollowsChain
    CircuitMovesOnlyItsOwn
    GainDrawsToItself
    GainKeepsTraffic

CONSTANTS
    ValidatorIDs <- MCValidatorIDs
    DomainNames <- MCDomainNames
    TrimSpace <- MCTrimSpace
    Normalise <- MCNormalise
    Observations <- MCObservations
    Sizes <- MCSizes
    MaxObservations = 7
SPECIFICATION Spec
INVARIANTS
    TypeOK
    BiasFollowsRecent
PROPERTIES
    BiasMovesSlowly
    AgreementNeverExcludes
CHECK_DEADLOCK FALSE

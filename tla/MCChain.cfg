CONSTANTS
    ClaimRecords <- MCClaimRecords
    ValidationRecords <- MCValidationRecords
    ReputationRecords <- MCReputationRecords
    MaxEvents = 5
SPECIFICATION ChainSpec
CHECK_DEADLOCK FALSE
INVARIANTS
    ChainTypeOK
    EventsReplay
PROPERTIES
    RegisteredIsPermanent

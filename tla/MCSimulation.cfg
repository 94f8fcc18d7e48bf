CONSTANTS
    Configs <- MCConfigs
    Targets <- MCTargets
    Draws <- MCDraws
    Normalise <- MCNormalise
    ValidatorID <- MCValidatorID
    Significand <- MCSignificand
    Ulps <- MCUlps
SPECIFICATION Spec
INVARIANTS
    TypeOK
    ReportAddsUp
    PoolNearTarget
    HonestNetworkIsRight
    RoundsSucceed
PROPERTIES
    HonestNeverFalls

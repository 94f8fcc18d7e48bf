CONSTANTS
    Configs <- FlaggedConfigs
    Targets <- MCTargets
    Draws <- FlaggedDraws
    Normalise <- MCNormalise
    ValidatorID <- MCValidatorID
    Significand <- MCSignificand
    Ulps <- MCUlps
SPECIFICATION Spec
INVARIANT FlaggedAreCounted

CONSTANTS
    Validators = {v1, v2, v3}
    Ballots <- MCBallots
    SetSizes <- MCSetSizes
    Scale = 10
    Significand = 128
    Ulps <- MCUlps
SYMMETRY Symmetry
SPECIFICATION Spec
INVARIANTS
    TypeOK
    VerdictIsMajority
    OrderDecidesOnlyTies
    ConfidenceIsAverage
PROPERTIES
    LateVoteKeepsVerdict

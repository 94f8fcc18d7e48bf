CONSTANTS
    Validators = {v1}
    Domains = {"sci", "bio"}
    Spellings <- MCSpellings
    Normalise <- MCNormalise
    Blank = ""
    Confidences = {7000, 9000, 10001}
    InactiveDays <- MCInactiveDays
    DecayPower <- MCDecayPower
    MaxValidations = 6
SPECIFICATION HSpec
CHECK_DEADLOCK FALSE
INVARIANTS
    TypeOK
    GlobalReputationIsAverage
    EligibleIffScored
    ReputationIsEarned
PROPERTIES
    EligibilityNeverLost

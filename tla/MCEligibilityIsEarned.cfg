CONSTANTS
    Validators = {v1}
    Domains = {"sci"}
    Spellings <- MCSpellings
    Normalise <- MCNormalise
    Blank = ""
    Confidences = {3000, 7000, 9000, 10001}
    InactiveDays <- MCInactiveDays
    DecayPower <- MCDecayPower
    MaxValidations = 2
SPECIFICATION HSpec
CHECK_DEADLOCK FALSE
INVARIANT EligibilityIsEarned

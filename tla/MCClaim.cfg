CONSTANTS
    Holders = {h1, h2}
    Inputs <- MCInputs
    TrimSpace <- MCTrimSpace
    ToLower <- MCToLower
    RuneCount <- MCRuneCount
    IsURL <- MCIsURL
    MaxClaims = 2
SPECIFICATION Spec
INVARIANTS
    TypeOK
    IdIffContent
    NoVerdictWithoutVotes

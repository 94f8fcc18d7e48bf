CONSTANTS
    Votes <- MCVotes
    VoteLists <- MCVoteLists
    MaxNodes = 3
SPECIFICATION Spec
CHECK_DEADLOCK FALSE
INVARIANTS
    TypeOK
    ProofFitsItsLeaf
    AcceptedIsLeaf
    AcceptedVoteWasCast

------------------------- MODULE ReputationHistory -------------------------
(***************************************************************************)
(* Reputation with the history of each validator beside its record: what   *)
(* it was granted and how often it was right.  The history variables only  *)
(* record the steps of Reputation.                                         *)
(***************************************************************************)
EXTENDS Reputation

VARIABLES
    granted,   \* granted[v]: the domains v was scored in at genesis
    correct    \* correct[v][d]: votes of v in d that counted as correct

history == <<granted, correct>>

HInit ==
    /\ Init
    /\ granted = [v \in Validators |-> {}]
    /\ correct = [v \in Validators |-> [d \in Domains |-> 0]]

HNewValidatorRecord(v) ==
    /\ NewValidatorRecord(v)
    /\ UNCHANGED history

HNewGenesisValidatorRecord(v, spellings) ==
    /\ NewGenesisValidatorRecord(v, spellings)
    /\ granted' = [granted EXCEPT ![v] = DOMAIN records'[v].DomainScores]
    /\ UNCHANGED correct

\* A late vote was discarded and an absent one never came.
CountsAsCorrect(o) == o.Participated /\ ~o.WasLate /\ o.WasCorrect

HApplyPostFinalizationUpdate(v, o) ==
    /\ ApplyPostFinalizationUpdate(v, o)
    /\ correct' = [correct EXCEPT ![v][Normalise[o.Domain]] =
                      IF CountsAsCorrect(o) THEN @ + 1 ELSE @]
    /\ UNCHANGED granted

HApplyDecay(v, i) ==
    /\ ApplyDecay(v, i)
    /\ UNCHANGED history

HNext ==
    \E v \in Validators :
        \/ HNewValidatorRecord(v)
        \/ \E spellings \in SUBSET Spellings : HNewGenesisValidatorRecord(v, spellings)
        \/ \E o \in VoteOutcomes : HApplyPostFinalizationUpdate(v, o)
        \/ \E i \in DecayInputs : HApplyDecay(v, i)

HSpec == HInit /\ [][HNext]_<<vars, history>>

-----------------------------------------------------------------------------
\* What a validator holds in a domain before its first correct vote there: the
\* genesis grant, or at most the floor.
Base(v, d) == IF d \in granted[v] THEN GenesisValidatorStartingReputation ELSE ReputationFloor

\* Reputation is bounded by merit: above its starting point a score never
\* exceeds what the correct votes in that very domain can have added, whatever
\* absences, late votes, wrong votes and decays are mixed in.
ReputationIsEarned ==
    \A v \in DOMAIN records : \A d \in DOMAIN records[v].DomainScores :
        records[v].DomainScores[d] <= Base(v, d) + DeltaHigh * correct[v][d]

\* A validator that becomes eligible in a domain either was granted a score
\* there at genesis or has been right there at least once.
EligibilityIsEarned ==
    \A v \in DOMAIN records : \A d \in Domains :
        IsEligibleForDomain(records[v], d) => d \in granted[v] \/ correct[v][d] > 0
=============================================================================

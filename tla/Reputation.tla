----------------------------- MODULE Reputation -----------------------------
(***************************************************************************)
(* core/reputation: the reputation records of validators, the update after *)
(* a finalized validation and the decay of inactive validators.            *)
(*                                                                         *)
(* A score is an integer number of 1/10000ths (One = 1.0).  The package's  *)
(* constants are exact in that unit; a product or a quotient is truncated, *)
(* where float64 rounds it.  Every operation of the package returns a new  *)
(* record and the caller replaces the one it holds: records[v] is the      *)
(* caller's current record of v.                                           *)
(***************************************************************************)
EXTENDS Integers, FiniteSets, FiniteSetsExt

CONSTANTS
    Validators,      \* non-blank validator ids
    Domains,         \* canonical (lower-case, trimmed) domain names
    Spellings,       \* domain strings callers pass, canonical or not
    Normalise,       \* strings.ToLower(strings.TrimSpace(s)), a function
    Blank,           \* the empty string
    Confidences,     \* vote confidences callers pass, in units of 1/One
    InactiveDays,    \* values of DaysInactive callers pass
    DecayPower,      \* DecayPower[n] is (1.0 - DecayRate)^n in units of 1/One (external)
    MaxValidations   \* bound on the updates of one record

One == 10000

ASSUME BlankAssumption == Blank \notin Domains \cup Validators

\* Lower-casing and trimming twice is the same as doing it once.
ASSUME NormaliseAssumption ==
    /\ Domains \subseteq Spellings
    /\ Normalise \in [Spellings -> Domains \cup {Blank}]
    /\ \A d \in Domains : Normalise[d] = d

\* A record is for finitely many domains, as a map is.
ASSUME FiniteAssumption == IsFiniteSet(Domains)

ASSUME InputAssumption == Confidences \subseteq Int /\ InactiveDays \subseteq Int

DecayInactivityDays == 30

EffectiveDays ==
    {days - DecayInactivityDays : days \in {n \in InactiveDays : n > DecayInactivityDays}}

\* math.Pow of a base in [0, 1]: all that is assumed of the library function.
ASSUME DecayPowerAssumption == DecayPower \in [EffectiveDays -> 0..One]

ASSUME BoundAssumption == MaxValidations \in Nat

EligibilityThreshold               == 1500
GenesisValidatorStartingReputation == 7500
ReputationFloor                    == EligibilityThreshold
ReputationCeiling                  == One
DeltaHigh                          == 500
DeltaLow                           == 100
DeltaAbsent                        == 200
DeltaLate                          == 100
HighConfidenceThreshold            == 7000

VoteOutcomes ==
    [ValidatorID : Validators \cup {Blank}, Domain : Spellings,
     WasCorrect : BOOLEAN, Confidence : Confidences,
     Participated : BOOLEAN, WasLate : BOOLEAN]

DecayInputs ==
    [ValidatorID : Validators \cup {Blank}, Domain : Spellings,
     DaysInactive : InactiveDays]

VARIABLE records    \* a function: the validators with a record -> the record

vars == records

-----------------------------------------------------------------------------
clamp(x, min, max) == IF x < min THEN min ELSE IF x > max THEN max ELSE x

\* The map f with key k (new or not) set to x.
Put(f, k, x) == [j \in DOMAIN f \cup {k} |-> IF j = k THEN x ELSE f[j]]

computeGlobalReputation(scores) ==
    IF DOMAIN scores = {} THEN 0
    ELSE SumFunction(scores) \div Cardinality(DOMAIN scores)

DomainScore(r, spelling) ==
    LET d == Normalise[spelling]
    IN  IF d \in DOMAIN r.DomainScores THEN r.DomainScores[d] ELSE 0

IsEligibleForDomain(r, spelling) ==
    /\ r.Status = "ACTIVE"
    /\ DomainScore(r, spelling) >= EligibilityThreshold

\* A record with the given scores, its global reputation computed from them.
RecordOf(genesis, scores, validations) ==
    [GenesisValidator |-> genesis,
     DomainScores     |-> scores,
     GlobalReputation |-> computeGlobalReputation(scores),
     TotalValidations |-> validations,
     Status           |-> "ACTIVE"]

\* Mutant of withUpdatedDomainScore: the global reputation of the scores before.
withStaleGlobalReputation(r, d, newScore) ==
    [r EXCEPT !.DomainScores     = Put(@, d, clamp(newScore, 0, ReputationCeiling)),
              !.GlobalReputation = computeGlobalReputation(r.DomainScores)]

withUpdatedDomainScore(r, d, newScore) ==
    LET scores == Put(r.DomainScores, d, clamp(newScore, 0, ReputationCeiling))
    IN  [r EXCEPT !.DomainScores     = scores,
                  !.GlobalReputation = computeGlobalReputation(scores)]

-----------------------------------------------------------------------------
validateOutcome(o) ==
    /\ o.ValidatorID # Blank
    /\ Normalise[o.Domain] # Blank
    /\ o.Confidence \in 0..One

\* Mutant of computeDelta: a late vote counts as one in time.
computeDeltaIgnoringLate(o) ==
    CASE ~o.Participated -> -DeltaAbsent
      [] o.Participated ->
            LET size == IF o.Confidence > HighConfidenceThreshold
                        THEN DeltaHigh ELSE DeltaLow
            IN  IF o.WasCorrect THEN size ELSE -size

computeDelta(o) ==
    CASE ~o.Participated -> -DeltaAbsent
      [] o.Participated /\ o.WasLate -> -DeltaLate
      [] o.Participated /\ ~o.WasLate ->
            LET size == IF o.Confidence > HighConfidenceThreshold
                        THEN DeltaHigh ELSE DeltaLow
            IN  IF o.WasCorrect THEN size ELSE -size

\* Mutant of UpdatedScore: clamped to 0.0 and not to the floor.
UpdatedScoreNoFloor(old, o) == clamp(old + computeDelta(o), 0, ReputationCeiling)

\* The score after outcome o, from the score before.
UpdatedScore(old, o) ==
    clamp(old + computeDelta(o), ReputationFloor, ReputationCeiling)

validateDecayInput(i) ==
    /\ i.ValidatorID # Blank
    /\ Normalise[i.Domain] # Blank
    /\ i.DaysInactive >= 0

\* Mutant of DecayedScore: the floor is not applied to decay.
DecayedScoreNoFloor(old, days) ==
    (old * DecayPower[days - DecayInactivityDays]) \div One

\* The score after days > DecayInactivityDays of inactivity, from the score before.
DecayedScore(old, days) ==
    clamp((old * DecayPower[days - DecayInactivityDays]) \div One,
          ReputationFloor, ReputationCeiling)

-----------------------------------------------------------------------------
Init == records = [v \in {} |-> {}]

\* A validator registers once: the caller owns one record per validator.
NewValidatorRecord(v) ==
    /\ v \notin DOMAIN records
    /\ records' = Put(records, v, RecordOf(FALSE, [d \in {} |-> 0], 0))

\* A genesis record scores every domain of a non-empty list that is not blank.
NewGenesisValidatorRecord(v, spellings) ==
    /\ v \notin DOMAIN records
    /\ spellings # {}
    /\ LET scored == {Normalise[s] : s \in spellings} \ {Blank}
       IN  records' = Put(records, v,
                          RecordOf(TRUE, [d \in scored |-> GenesisValidatorStartingReputation], 0))

\* Mutant of UpdatedRecord: the score is stored under the domain as the caller
\* spelled it.
UpdatedUnderSpelling(r, o) ==
    [withUpdatedDomainScore(r, o.Domain, UpdatedScore(DomainScore(r, o.Domain), o))
        EXCEPT !.TotalValidations = r.TotalValidations + 1]

\* The record after a valid outcome o, from the record r before.
UpdatedRecord(r, o) ==
    LET d == Normalise[o.Domain]
        u == withUpdatedDomainScore(r, d, UpdatedScore(DomainScore(r, d), o))
    IN  [u EXCEPT !.TotalValidations = r.TotalValidations + 1]

\* The outcome's own ValidatorID is only tested for blankness: the record that
\* is updated is the one the caller passes.
ApplyPostFinalizationUpdate(v, o) ==
    /\ v \in DOMAIN records
    /\ records[v].TotalValidations < MaxValidations
    /\ validateOutcome(o)
    /\ records' = Put(records, v, UpdatedRecord(records[v], o))

\* Up to DecayInactivityDays days the record is returned as it is.
ApplyDecay(v, i) ==
    /\ v \in DOMAIN records
    /\ validateDecayInput(i)
    /\ i.DaysInactive > DecayInactivityDays
    /\ LET r == records[v]
           d == Normalise[i.Domain]
       IN  records' = Put(records, v,
                          withUpdatedDomainScore(r, d, DecayedScore(DomainScore(r, d), i.DaysInactive)))

Next ==
    \E v \in Validators :
        \/ NewValidatorRecord(v)
        \/ \E spellings \in SUBSET Spellings : NewGenesisValidatorRecord(v, spellings)
        \/ \E o \in VoteOutcomes : ApplyPostFinalizationUpdate(v, o)
        \/ \E i \in DecayInputs : ApplyDecay(v, i)

Spec == Init /\ [][Next]_vars

-----------------------------------------------------------------------------
IsValidatorRecord(r) ==
    /\ r = [GenesisValidator |-> r.GenesisValidator, DomainScores |-> r.DomainScores,
            GlobalReputation |-> r.GlobalReputation, TotalValidations |-> r.TotalValidations,
            Status |-> r.Status]
    /\ r.GenesisValidator \in BOOLEAN
    /\ DOMAIN r.DomainScores \subseteq Domains
    /\ r.DomainScores \in [DOMAIN r.DomainScores -> 0..One]
    /\ r.GlobalReputation = computeGlobalReputation(r.DomainScores)
    /\ r.TotalValidations \in 0..MaxValidations
    /\ r.Status = "ACTIVE"

\* Every record the operations produce is well formed, its scores in [0.0, 1.0]
\* (the ErrInvalidReputation range) and keyed by canonical names only, and its
\* stored GlobalReputation is the one these scores give, never a stale one.
TypeOK ==
    /\ DOMAIN records \subseteq Validators
    /\ records = [v \in DOMAIN records |-> records[v]]
    /\ \A v \in DOMAIN records : IsValidatorRecord(records[v])

\* The stored GlobalReputation is an average of the current scores: it lies
\* between the lowest and the highest score of the domains the record has,
\* and is 0 when there are none.
GlobalReputationIsAverage ==
    \A v \in DOMAIN records :
        LET r == records[v]
            scores == {r.DomainScores[d] : d \in DOMAIN r.DomainScores}
        IN  IF scores = {} THEN r.GlobalReputation = 0
            ELSE r.GlobalReputation \in Min(scores)..Max(scores)

\* A validator is eligible in a domain exactly when it has some history there,
\* good or bad: no sequence of penalties and decays ends below the threshold,
\* and no spelling of the domain reads another score.
EligibleIffScored ==
    \A v \in DOMAIN records : \A s \in Spellings :
        IsEligibleForDomain(records[v], s) <=> Normalise[s] \in DOMAIN records[v].DomainScores

\* No operation takes eligibility away once a validator has it.
EligibilityNeverLost ==
    [][\A v \in DOMAIN records : \A s \in Spellings :
           IsEligibleForDomain(records[v], s) =>
               v \in DOMAIN records' /\ IsEligibleForDomain(records'[v], s)]_vars
=============================================================================

-------------------------- MODULE ReputationProofs --------------------------
(***************************************************************************)
(* Proofs about Reputation and its history, for any validators, domains,   *)
(* spellings, inputs and any decay factors in [0, 1].                      *)
(***************************************************************************)
EXTENDS ReputationHistory, Sums, TLAPS

\* An entry of a score map is never below the floor.
ScoresAboveFloor ==
    \A v \in DOMAIN records : \A d \in DOMAIN records[v].DomainScores :
        records[v].DomainScores[d] >= ReputationFloor

\* The inductive invariant: EligibleIffScored alone says nothing of the types
\* its comparison needs.
IInv == TypeOK /\ ScoresAboveFloor

-----------------------------------------------------------------------------
\* Clamping any number between the floor and the ceiling.
LEMMA ClampRange ==
    ASSUME NEW x \in Int
    PROVE  clamp(x, ReputationFloor, ReputationCeiling) \in ReputationFloor..ReputationCeiling
  BY DEF clamp, ReputationFloor, ReputationCeiling, EligibilityThreshold, One

\* A value between the floor and the ceiling is a score.
LEMMA FloorToCeiling ==
    ASSUME NEW x \in ReputationFloor..ReputationCeiling
    PROVE  x \in 0..One /\ x >= ReputationFloor
<1>1. x \in Int /\ ReputationFloor <= x /\ x <= ReputationCeiling
  BY DEF ReputationFloor, ReputationCeiling, EligibilityThreshold, One
<1>2. QED
  BY <1>1 DEF ReputationFloor, ReputationCeiling, EligibilityThreshold, One

\* The score a finalized outcome leaves is between the floor and the ceiling.
LEMMA UpdatedScoreRange ==
    ASSUME NEW old \in Int, NEW o \in VoteOutcomes
    PROVE  UpdatedScore(old, o) \in ReputationFloor..ReputationCeiling
<1>1. computeDelta(o) \in Int
  BY DEF computeDelta, VoteOutcomes, DeltaHigh, DeltaLow, DeltaAbsent, DeltaLate,
         HighConfidenceThreshold
<1>2. old + computeDelta(o) \in Int
  BY <1>1
<1>3. QED
  BY <1>2, ClampRange DEF UpdatedScore

\* The score decay leaves is between the floor and the ceiling.
LEMMA DecayedScoreRange ==
    ASSUME NEW old \in Int, NEW days \in InactiveDays, days > DecayInactivityDays
    PROVE  DecayedScore(old, days) \in ReputationFloor..ReputationCeiling
<1> DEFINE p == DecayPower[days - DecayInactivityDays]
<1>1. days - DecayInactivityDays \in EffectiveDays
  BY DEF EffectiveDays
<1>2. p \in 0..One
  BY <1>1, DecayPowerAssumption
<1> HIDE DEF p
<1>3. p \in Int
  BY <1>2 DEF One
<1>4. old * p \in Int
  BY <1>3
<1>5. (old * p) \div One \in Int
  BY <1>4 DEF One
<1>6. QED
  BY <1>5, ClampRange DEF DecayedScore, p

\* A domain without an entry scores 0, every other one its entry.
LEMMA DomainScoreType ==
    ASSUME NEW r, IsValidatorRecord(r), NEW d
    PROVE  DomainScore(r, d) \in Int
<1>1. 0 \in Int /\ 0..One \subseteq Int
  BY DEF One
<1>2. \A k \in DOMAIN r.DomainScores : r.DomainScores[k] \in 0..One
  BY DEF IsValidatorRecord
<1>3. QED
  BY <1>1, <1>2 DEF DomainScore

\* withUpdatedDomainScore keeps a record well formed and touches one domain.
LEMMA UpdateRecordLemma ==
    ASSUME NEW r, IsValidatorRecord(r),
           \A d \in DOMAIN r.DomainScores : r.DomainScores[d] >= ReputationFloor,
           NEW k \in Domains, NEW score \in ReputationFloor..ReputationCeiling,
           NEW u, u = withUpdatedDomainScore(r, k, score)
    PROVE  /\ IsValidatorRecord(u)
           /\ \A d \in DOMAIN u.DomainScores : u.DomainScores[d] >= ReputationFloor
           /\ u.TotalValidations = r.TotalValidations
           /\ DOMAIN r.DomainScores \subseteq DOMAIN u.DomainScores
           /\ u.DomainScores = Put(r.DomainScores, k, score)
<1> DEFINE scores == Put(r.DomainScores, k, score)
           global == computeGlobalReputation(scores)
<1>1. score \in 0..One /\ score >= ReputationFloor
  BY FloorToCeiling
<1>2. clamp(score, 0, ReputationCeiling) = score
  BY <1>1 DEF clamp, ReputationCeiling, One
<1>3. u = [r EXCEPT !.DomainScores = scores, !.GlobalReputation = global]
  BY <1>2 DEF withUpdatedDomainScore
<1>4. /\ DOMAIN scores = DOMAIN r.DomainScores \cup {k}
      /\ scores[k] = score
      /\ \A j \in DOMAIN r.DomainScores : j # k => scores[j] = r.DomainScores[j]
      /\ scores = [j \in DOMAIN scores |-> scores[j]]
  BY DEF Put
<1> HIDE DEF scores
<1>5. DOMAIN scores \subseteq Domains
  BY <1>4 DEF IsValidatorRecord
<1>6. \A d \in DOMAIN scores : scores[d] >= ReputationFloor
  BY <1>1, <1>4
<1>7. scores \in [DOMAIN scores -> 0..One]
  <2>1. \A d \in DOMAIN scores : scores[d] \in 0..One
    BY <1>1, <1>4 DEF IsValidatorRecord
  <2>2. QED
    BY <1>4, <2>1
<1>8. u = [GenesisValidator |-> r.GenesisValidator, DomainScores |-> scores,
           GlobalReputation |-> global, TotalValidations |-> r.TotalValidations,
           Status |-> r.Status]
  <2> HIDE DEF global
  <2>1. r = [GenesisValidator |-> r.GenesisValidator, DomainScores |-> r.DomainScores,
             GlobalReputation |-> r.GlobalReputation, TotalValidations |-> r.TotalValidations,
             Status |-> r.Status]
    BY DEF IsValidatorRecord
  <2>2. QED
    BY <1>3, <2>1
<1>9. /\ u.GenesisValidator = r.GenesisValidator
      /\ u.DomainScores = scores
      /\ u.GlobalReputation = global
      /\ u.TotalValidations = r.TotalValidations
      /\ u.Status = r.Status
  BY <1>8
<1>10. IsValidatorRecord(u)
  BY <1>5, <1>7, <1>8, <1>9 DEF IsValidatorRecord
<1>11. QED
  BY <1>4, <1>6, <1>9, <1>10 DEF scores

-----------------------------------------------------------------------------
\* What every operation does to the map of records: one validator gets a well
\* formed record, which has at least the domains of the record it replaces.
StoresRecord(v, r) ==
    /\ records' = Put(records, v, r)
    /\ IsValidatorRecord(r)
    /\ \A d \in DOMAIN r.DomainScores : r.DomainScores[d] >= ReputationFloor
    /\ v \in DOMAIN records =>
           DOMAIN records[v].DomainScores \subseteq DOMAIN r.DomainScores

\* A fresh record is well formed: the common part of both constructors.
LEMMA RecordOfLemma ==
    ASSUME NEW genesis \in BOOLEAN, NEW S \in SUBSET Domains,
           NEW score \in ReputationFloor..ReputationCeiling,
           NEW r, r = RecordOf(genesis, [d \in S |-> score], 0)
    PROVE  /\ IsValidatorRecord(r)
           /\ \A d \in DOMAIN r.DomainScores : r.DomainScores[d] >= ReputationFloor
<1> DEFINE scores == [d \in S |-> score]
           global == computeGlobalReputation(scores)
<1>1. score \in 0..One /\ score >= ReputationFloor
  BY FloorToCeiling
<1>2. /\ DOMAIN scores \subseteq Domains
      /\ scores \in [DOMAIN scores -> 0..One]
      /\ \A d \in DOMAIN scores : scores[d] >= ReputationFloor
  BY <1>1
<1>3. r = [GenesisValidator |-> genesis, DomainScores |-> scores,
           GlobalReputation |-> global, TotalValidations |-> 0, Status |-> "ACTIVE"]
  BY DEF RecordOf
<1> HIDE DEF scores
<1>4. /\ r.GenesisValidator = genesis
      /\ r.DomainScores = scores
      /\ r.GlobalReputation = global
      /\ r.TotalValidations = 0
      /\ r.Status = "ACTIVE"
  BY <1>3
<1>5. 0 \in 0..MaxValidations
  BY BoundAssumption
<1>6. QED
  BY <1>2, <1>3, <1>4, <1>5 DEF IsValidatorRecord

\* Every step stores one well-formed record.
LEMMA NextStoresRecord ==
    ASSUME IInv, Next
    PROVE  \E v \in Validators : \E r : StoresRecord(v, r)
<1>1. PICK v \in Validators :
          \/ NewValidatorRecord(v)
          \/ \E spellings \in SUBSET Spellings : NewGenesisValidatorRecord(v, spellings)
          \/ \E o \in VoteOutcomes : ApplyPostFinalizationUpdate(v, o)
          \/ \E i \in DecayInputs : ApplyDecay(v, i)
  BY DEF Next
<1>2. CASE NewValidatorRecord(v)
  <2> DEFINE r == RecordOf(FALSE, [d \in {} |-> 0], 0)
  <2>1. [d \in {} |-> 0] = [d \in {} |-> ReputationFloor]
    OBVIOUS
  <2>2. ReputationFloor \in ReputationFloor..ReputationCeiling
    BY DEF ReputationFloor, ReputationCeiling, EligibilityThreshold, One
  <2>3. /\ IsValidatorRecord(r)
        /\ \A d \in DOMAIN r.DomainScores : r.DomainScores[d] >= ReputationFloor
    BY <2>1, <2>2, RecordOfLemma
  <2> HIDE DEF r
  <2>4. v \notin DOMAIN records /\ records' = Put(records, v, r)
    BY <1>2 DEF NewValidatorRecord, r
  <2>5. QED
    BY <2>3, <2>4 DEF StoresRecord
<1>3. ASSUME NEW spellings \in SUBSET Spellings, NewGenesisValidatorRecord(v, spellings)
      PROVE  \E r : StoresRecord(v, r)
  <2> DEFINE S == {Normalise[s] : s \in spellings} \ {Blank}
             r == RecordOf(TRUE, [d \in S |-> GenesisValidatorStartingReputation], 0)
  <2>1. S \in SUBSET Domains
    BY NormaliseAssumption
  <2>2. GenesisValidatorStartingReputation \in ReputationFloor..ReputationCeiling
    BY DEF GenesisValidatorStartingReputation, ReputationFloor, ReputationCeiling,
           EligibilityThreshold, One
  <2>3. v \notin DOMAIN records /\ records' = Put(records, v, r)
    BY <1>3 DEF NewGenesisValidatorRecord
  <2> HIDE DEF S
  <2>4. /\ IsValidatorRecord(r)
        /\ \A d \in DOMAIN r.DomainScores : r.DomainScores[d] >= ReputationFloor
    BY <2>1, <2>2, RecordOfLemma
  <2> HIDE DEF r
  <2>5. QED
    BY <2>3, <2>4 DEF StoresRecord
<1>4. ASSUME NEW o \in VoteOutcomes, ApplyPostFinalizationUpdate(v, o)
      PROVE  \E r : StoresRecord(v, r)
  <2> DEFINE r == records[v]
             k == Normalise[o.Domain]
             score == UpdatedScore(DomainScore(r, k), o)
             u == withUpdatedDomainScore(r, k, score)
             w == [u EXCEPT !.TotalValidations = r.TotalValidations + 1]
  <2>1. /\ v \in DOMAIN records
        /\ IsValidatorRecord(r)
        /\ \A d \in DOMAIN r.DomainScores : r.DomainScores[d] >= ReputationFloor
    BY <1>4 DEF ApplyPostFinalizationUpdate, IInv, TypeOK, ScoresAboveFloor
  <2>2. k \in Domains
    BY <1>4, NormaliseAssumption DEF ApplyPostFinalizationUpdate, validateOutcome, VoteOutcomes
  <2>3. records' = Put(records, v, w) /\ r.TotalValidations < MaxValidations
    BY <1>4 DEF ApplyPostFinalizationUpdate, UpdatedRecord
  <2> HIDE DEF r, k
  <2>4. DomainScore(r, k) \in Int
    BY <2>1, DomainScoreType
  <2>5. score \in ReputationFloor..ReputationCeiling
    BY <2>4, UpdatedScoreRange
  <2> HIDE DEF score
  <2>6. /\ IsValidatorRecord(u)
        /\ \A d \in DOMAIN u.DomainScores : u.DomainScores[d] >= ReputationFloor
        /\ u.TotalValidations = r.TotalValidations
        /\ DOMAIN r.DomainScores \subseteq DOMAIN u.DomainScores
    BY <2>1, <2>2, <2>5, UpdateRecordLemma
  <2> HIDE DEF u
  <2>7. w = [GenesisValidator |-> u.GenesisValidator, DomainScores |-> u.DomainScores,
             GlobalReputation |-> u.GlobalReputation,
             TotalValidations |-> r.TotalValidations + 1, Status |-> u.Status]
    <3>1. u = [GenesisValidator |-> u.GenesisValidator, DomainScores |-> u.DomainScores,
               GlobalReputation |-> u.GlobalReputation,
               TotalValidations |-> u.TotalValidations, Status |-> u.Status]
      BY <2>6 DEF IsValidatorRecord
    <3>2. QED
      BY <3>1
  <2>8. r.TotalValidations + 1 \in 0..MaxValidations
    BY <2>1, <2>3, BoundAssumption DEF IsValidatorRecord
  <2> DEFINE t == r.TotalValidations + 1
  <2> HIDE DEF t, w
  <2>9. /\ w.GenesisValidator = u.GenesisValidator
         /\ w.DomainScores = u.DomainScores
         /\ w.GlobalReputation = u.GlobalReputation
         /\ w.TotalValidations = t
         /\ w.Status = u.Status
    BY <2>7 DEF t
  <2>10. IsValidatorRecord(w)
    BY <2>6, <2>7, <2>8, <2>9 DEF IsValidatorRecord, t
  <2>11. QED
    BY <2>3, <2>6, <2>9, <2>10 DEF StoresRecord, r
<1>5. ASSUME NEW i \in DecayInputs, ApplyDecay(v, i)
      PROVE  \E r : StoresRecord(v, r)
  <2> DEFINE r == records[v]
             k == Normalise[i.Domain]
             score == DecayedScore(DomainScore(r, k), i.DaysInactive)
             u == withUpdatedDomainScore(r, k, score)
  <2>1. /\ v \in DOMAIN records
        /\ IsValidatorRecord(r)
        /\ \A d \in DOMAIN r.DomainScores : r.DomainScores[d] >= ReputationFloor
    BY <1>5 DEF ApplyDecay, IInv, TypeOK, ScoresAboveFloor
  <2>2. k \in Domains
    BY <1>5, NormaliseAssumption DEF ApplyDecay, validateDecayInput, DecayInputs
  <2>3. records' = Put(records, v, u)
    BY <1>5 DEF ApplyDecay
  <2>4. i.DaysInactive \in InactiveDays /\ i.DaysInactive > DecayInactivityDays
    BY <1>5 DEF ApplyDecay, DecayInputs
  <2> HIDE DEF r, k
  <2>5. DomainScore(r, k) \in Int
    BY <2>1, DomainScoreType
  <2>6. score \in ReputationFloor..ReputationCeiling
    BY <2>4, <2>5, DecayedScoreRange
  <2> HIDE DEF score
  <2>7. /\ IsValidatorRecord(u)
        /\ \A d \in DOMAIN u.DomainScores : u.DomainScores[d] >= ReputationFloor
        /\ DOMAIN r.DomainScores \subseteq DOMAIN u.DomainScores
    BY <2>1, <2>2, <2>6, UpdateRecordLemma
  <2> HIDE DEF u
  <2>8. QED
    BY <2>3, <2>7 DEF StoresRecord, r
<1>6. QED
  BY <1>1, <1>2, <1>3, <1>4, <1>5

\* Storing a well-formed record keeps the invariant, and no validator loses a
\* record or a domain.
LEMMA StoresRecordKeeps ==
    ASSUME IInv, NEW v \in Validators, NEW r, StoresRecord(v, r)
    PROVE  /\ IInv'
           /\ DOMAIN records \subseteq DOMAIN records'
           /\ \A w \in DOMAIN records :
                  DOMAIN records[w].DomainScores \subseteq DOMAIN records'[w].DomainScores
<1>1. /\ DOMAIN records' = DOMAIN records \cup {v}
      /\ records'[v] = r
      /\ \A w \in DOMAIN records : w # v => records'[w] = records[w]
      /\ records' = [w \in DOMAIN records' |-> records'[w]]
  BY DEF StoresRecord, Put
<1>2. \A w \in DOMAIN records' : IsValidatorRecord(records'[w])
  BY <1>1 DEF StoresRecord, IInv, TypeOK
<1>3. TypeOK'
  <2>1. DOMAIN records' \subseteq Validators
    BY <1>1 DEF IInv, TypeOK
  <2>2. QED
    BY <2>1, <1>1, <1>2 DEF TypeOK
<1>4. ScoresAboveFloor'
  BY <1>1 DEF StoresRecord, IInv, ScoresAboveFloor, ReputationFloor, EligibilityThreshold
<1>5. \A w \in DOMAIN records :
          DOMAIN records[w].DomainScores \subseteq DOMAIN records'[w].DomainScores
  BY <1>1 DEF StoresRecord
<1>6. QED
  BY <1>1, <1>3, <1>4, <1>5 DEF IInv

\* The invariant is inductive.
LEMMA Invariance == Spec => []IInv
<1>1. Init => IInv
  BY DEF Init, IInv, TypeOK, ScoresAboveFloor
<1>2. IInv /\ [Next]_vars => IInv'
  <2> SUFFICES ASSUME IInv, [Next]_vars PROVE IInv'
    OBVIOUS
  <2>1. CASE Next
    BY <2>1, NextStoresRecord, StoresRecordKeeps
  <2>2. CASE UNCHANGED vars
    BY <2>2 DEF vars, IInv, TypeOK, ScoresAboveFloor
  <2>3. QED
    BY <2>1, <2>2
<1>3. QED
  BY <1>1, <1>2, PTL DEF Spec

-----------------------------------------------------------------------------
\* Every record the package produces is well formed: scores in [0, 1], only
\* canonical domain names, the stored global reputation up to date.
THEOREM TypeCorrect == Spec => []TypeOK
  BY Invariance, PTL DEF IInv

\* The mean of the scores of a record is between its lowest and its highest.
LEMMA GlobalReputationInRange ==
    ASSUME NEW scores, DOMAIN scores \subseteq Domains, DOMAIN scores # {},
           scores \in [DOMAIN scores -> 0..One]
    PROVE  LET values == {scores[d] : d \in DOMAIN scores}
           IN  computeGlobalReputation(scores) \in Min(values)..Max(values)
<1> DEFINE values == {scores[d] : d \in DOMAIN scores}
           S == DOMAIN scores
<1>1. \A d \in S : scores[d] \in 0..One /\ scores[d] \in Int
  OBVIOUS
<1>2. IsFiniteSet(S) /\ Summable(scores, S)
  BY <1>1, FiniteAssumption, FS_Subset DEF Summable
<1>3. values \in SUBSET (0..One) /\ values # {} /\ values \in SUBSET Int
  BY <1>1
<1>4. IsFiniteSet(values)
  <2>1. IsFiniteSet(0..One)
    <3>1. 0 \in Int /\ One \in Int
      BY DEF One
    <3> QED
      BY <3>1, FS_Interval
  <2> QED
    BY <1>3, <2>1, FS_Subset
<1>5. \A d \in S : scores[d] \in values
  OBVIOUS
<1> HIDE DEF values
<1>6. /\ Min(values) \in Int /\ Max(values) \in Int
      /\ \A d \in S : Min(values) <= scores[d] /\ scores[d] <= Max(values)
  BY <1>3, <1>4, <1>5, Extremes
<1>7. SumFunctionOnSet(scores, S) \div Cardinality(S) \in Min(values)..Max(values)
  BY <1>2, <1>6, MeanBounds
<1> QED
  BY <1>7 DEF computeGlobalReputation, SumFunction, values

\* The stored global reputation is an average of the present scores in every
\* record, after any sequence of updates and decays.
THEOREM GlobalReputationCorrect == Spec => []GlobalReputationIsAverage
<1>1. IInv => GlobalReputationIsAverage
  <2> SUFFICES ASSUME IInv, NEW v \in DOMAIN records
               PROVE  LET r == records[v]
                          scores == {r.DomainScores[d] : d \in DOMAIN r.DomainScores}
                      IN  IF scores = {} THEN r.GlobalReputation = 0
                          ELSE r.GlobalReputation \in Min(scores)..Max(scores)
    BY DEF GlobalReputationIsAverage
  <2> DEFINE s == records[v].DomainScores
             values == {s[d] : d \in DOMAIN s}
  <2>1. /\ DOMAIN s \subseteq Domains /\ s \in [DOMAIN s -> 0..One]
        /\ records[v].GlobalReputation = computeGlobalReputation(s)
    BY DEF IInv, TypeOK, IsValidatorRecord
  <2>2. values = {} <=> DOMAIN s = {}
    OBVIOUS
  <2>3. CASE DOMAIN s = {}
    BY <2>1, <2>2, <2>3 DEF computeGlobalReputation
  <2>4. CASE DOMAIN s # {}
    <3> HIDE DEF s
    <3>1. computeGlobalReputation(s) \in Min(values)..Max(values)
      BY <2>1, <2>4, GlobalReputationInRange
    <3> QED
      BY <2>1, <2>2, <2>4, <3>1 DEF s
  <2> QED
    BY <2>3, <2>4
<1> QED
  BY <1>1, Invariance, PTL

\* With well-formed records above the floor, eligibility is having an entry.
LEMMA EligibilityIsEntry ==
    ASSUME IInv, NEW v \in DOMAIN records, NEW s
    PROVE  IsEligibleForDomain(records[v], s) <=> Normalise[s] \in DOMAIN records[v].DomainScores
<1>1. /\ records[v].Status = "ACTIVE"
      /\ \A d \in DOMAIN records[v].DomainScores : records[v].DomainScores[d] >= ReputationFloor
  BY DEF IInv, TypeOK, IsValidatorRecord, ScoresAboveFloor
<1>2. CASE Normalise[s] \in DOMAIN records[v].DomainScores
  BY <1>1, <1>2 DEF IsEligibleForDomain, DomainScore, ReputationFloor
<1>3. CASE Normalise[s] \notin DOMAIN records[v].DomainScores
  <2>1. DomainScore(records[v], s) = 0
    BY <1>3 DEF DomainScore
  <2>2. QED
    BY <1>3, <2>1 DEF IsEligibleForDomain, EligibilityThreshold
<1>4. QED
  BY <1>2, <1>3

\* A validator is eligible in exactly the domains its record has an entry for.
THEOREM EligibilityCharacterised == Spec => []EligibleIffScored
<1>1. IInv => EligibleIffScored
  BY EligibilityIsEntry DEF EligibleIffScored
<1>2. QED
  BY <1>1, Invariance, PTL

\* No sequence of wrong votes, absences, late votes and decays ever makes an
\* eligible validator ineligible.
THEOREM EligibilityKept == Spec => EligibilityNeverLost
<1> DEFINE Kept == \A v \in DOMAIN records : \A s \in Spellings :
                       IsEligibleForDomain(records[v], s) =>
                           v \in DOMAIN records' /\ IsEligibleForDomain(records'[v], s)
<1>1. IInv => EligibleIffScored
  BY EligibilityIsEntry DEF EligibleIffScored
<1>2. IInv' => EligibleIffScored'
  BY <1>1, PTL
<1>3. IInv /\ IInv' /\ [Next]_vars => [Kept]_vars
  <2> SUFFICES ASSUME IInv, IInv', Next PROVE Kept
    BY DEF vars
  <2>1. /\ DOMAIN records \subseteq DOMAIN records'
        /\ \A w \in DOMAIN records :
               DOMAIN records[w].DomainScores \subseteq DOMAIN records'[w].DomainScores
    BY NextStoresRecord, StoresRecordKeeps
  <2>2. QED
    BY <1>1, <1>2, <2>1 DEF EligibleIffScored
<1>4. QED
  BY <1>3, Invariance, PTL DEF Spec, EligibilityNeverLost

-----------------------------------------------------------------------------
\* The types of the history.
HistoryTypes ==
    /\ granted \in [Validators -> SUBSET Domains]
    /\ correct \in [Validators -> [Domains -> Nat]]

\* The inductive invariant of HSpec: the merit bound needs the types of both
\* sides, and that entries are never negative (for decay to be a decrease).
HInv == IInv /\ HistoryTypes /\ ReputationIsEarned

\* No outcome adds more than DeltaHigh, and only a correct vote adds anything.
LEMMA DeltaIsEarned ==
    ASSUME NEW o \in VoteOutcomes
    PROVE  /\ computeDelta(o) \in Int
           /\ computeDelta(o) <= IF CountsAsCorrect(o) THEN DeltaHigh ELSE 0
BY DEF computeDelta, VoteOutcomes, CountsAsCorrect, DeltaHigh, DeltaLow, DeltaAbsent, DeltaLate,
       HighConfidenceThreshold

\* Decay only lowers a score, except to lift it to the floor.
LEMMA DecayLowers ==
    ASSUME NEW old \in Nat, NEW days \in InactiveDays, days > DecayInactivityDays
    PROVE  DecayedScore(old, days) <= old \/ DecayedScore(old, days) = ReputationFloor
<1> DEFINE p == DecayPower[days - DecayInactivityDays]
           q == (old * p) \div One
<1>1. days - DecayInactivityDays \in EffectiveDays
  BY DEF EffectiveDays
<1>2. p \in 0..10000
  <2>1. p \in 0..One
    BY <1>1, DecayPowerAssumption, Zenon
  <2> HIDE DEF p
  <2> QED
    BY <2>1 DEF One
<1> HIDE DEF p
<1>3. old * p \in Int /\ old * p <= old * 10000
  BY <1>2
<1>4. \A x \in Int : x <= old * 10000 => x \div 10000 \in Int /\ x \div 10000 <= old
  OBVIOUS
<1>5. q \in Int /\ q <= old
  BY <1>3, <1>4 DEF One
<1>6. DecayedScore(old, days) = clamp(q, ReputationFloor, ReputationCeiling)
  BY DEF DecayedScore, p
<1> HIDE DEF q
<1> QED
  BY <1>5, <1>6 DEF clamp, ReputationFloor, ReputationCeiling, EligibilityThreshold, One

\* Storing a record keeps the merit bound when every entry of it keeps it.
LEMMA StoringKeepsHInv ==
    ASSUME HInv, IInv', HistoryTypes', NEW v \in Validators, NEW r,
           records' = Put(records, v, r),
           \A d \in DOMAIN r.DomainScores :
               r.DomainScores[d] <= Base(v, d)' + DeltaHigh * correct'[v][d],
           \A w \in Validators : w # v => granted'[w] = granted[w] /\ correct'[w] = correct[w]
    PROVE  HInv'
<1>1. /\ DOMAIN records' = DOMAIN records \cup {v}
      /\ records'[v] = r
      /\ \A w \in DOMAIN records : w # v => records'[w] = records[w]
  BY DEF Put
<1>2. ASSUME NEW w \in DOMAIN records', NEW d \in DOMAIN records'[w].DomainScores
      PROVE  records'[w].DomainScores[d] <= Base(w, d)' + DeltaHigh * correct'[w][d]
  <2>1. CASE w = v
    BY <1>1, <2>1
  <2>2. CASE w # v
    <3>1. w \in DOMAIN records /\ w \in Validators /\ records'[w] = records[w]
      BY <1>1, <2>2 DEF HInv, IInv, TypeOK
    <3>2. records[w].DomainScores[d] <= Base(w, d) + DeltaHigh * correct[w][d]
      BY <3>1 DEF HInv, ReputationIsEarned
    <3> QED
      BY <2>2, <3>1, <3>2 DEF Base
  <2> QED
    BY <2>1, <2>2
<1> QED
  BY <1>2 DEF HInv, ReputationIsEarned

\* The bound on what a validator may hold is at least the floor.
LEMMA BoundType ==
    ASSUME HistoryTypes, NEW v \in Validators, NEW d \in Domains
    PROVE  /\ correct[v][d] \in Nat
           /\ Base(v, d) \in Nat /\ Base(v, d) >= ReputationFloor
BY DEF HistoryTypes, Base, GenesisValidatorStartingReputation, ReputationFloor, EligibilityThreshold

\* The score of a domain, entered or not, is within the bound.
LEMMA ScoreWithinBound ==
    ASSUME HInv, NEW v \in DOMAIN records, NEW k \in Domains
    PROVE  /\ DomainScore(records[v], k) \in Nat
           /\ DomainScore(records[v], k) <= Base(v, k) + DeltaHigh * correct[v][k]
<1> DEFINE r == records[v]
<1>1. v \in Validators /\ IsValidatorRecord(r) /\ Normalise[k] = k
  BY NormaliseAssumption DEF HInv, IInv, TypeOK
<1>2. correct[v][k] \in Nat /\ Base(v, k) \in Nat
  BY <1>1, BoundType DEF HInv
<1>3. CASE k \in DOMAIN r.DomainScores
  <2>1. DomainScore(r, k) = r.DomainScores[k]
    BY <1>1, <1>3 DEF DomainScore
  <2>2. r.DomainScores[k] \in Nat
    <3>1. r.DomainScores \in [DOMAIN r.DomainScores -> 0..One]
      BY <1>1 DEF IsValidatorRecord
    <3>2. \A x \in 0..One : x \in Nat
      BY DEF One
    <3> HIDE DEF r
    <3> QED
      BY <1>3, <3>1, <3>2
  <2> QED
    BY <1>3, <2>1, <2>2 DEF HInv, ReputationIsEarned
<1>4. CASE k \notin DOMAIN r.DomainScores
  <2>1. DomainScore(r, k) = 0
    BY <1>1, <1>4 DEF DomainScore
  <2>2. \A b, c \in Nat : 0 <= b + 500 * c
    OBVIOUS
  <2> QED
    BY <1>2, <2>1, <2>2 DEF DeltaHigh
<1> QED
  BY <1>3, <1>4

\* An outcome adds to a score at most what it adds to the bound.
LEMMA OutcomeKeepsHInv ==
    ASSUME HInv, IInv', NEW v \in Validators, NEW o \in VoteOutcomes,
           HApplyPostFinalizationUpdate(v, o)
    PROVE  HInv'
<1> DEFINE r == records[v]
           k == Normalise[o.Domain]
           old == DomainScore(r, k)
           score == UpdatedScore(old, o)
           u == withUpdatedDomainScore(r, k, score)
           w == [u EXCEPT !.TotalValidations = r.TotalValidations + 1]
<1>1. /\ v \in DOMAIN records
      /\ IsValidatorRecord(r)
      /\ \A d \in DOMAIN r.DomainScores : r.DomainScores[d] >= ReputationFloor
  BY DEF HApplyPostFinalizationUpdate, ApplyPostFinalizationUpdate, HInv, IInv, TypeOK, ScoresAboveFloor
<1>2. k \in Domains
  BY NormaliseAssumption
     DEF HApplyPostFinalizationUpdate, ApplyPostFinalizationUpdate, validateOutcome, VoteOutcomes
<1>3. records' = Put(records, v, w)
  BY DEF HApplyPostFinalizationUpdate, ApplyPostFinalizationUpdate, UpdatedRecord
<1>4. granted' = granted
      /\ correct' = [correct EXCEPT ![v][k] = IF CountsAsCorrect(o) THEN @ + 1 ELSE @]
  BY DEF HApplyPostFinalizationUpdate
<1>5. old \in Nat /\ old <= Base(v, k) + DeltaHigh * correct[v][k]
  BY <1>1, <1>2, ScoreWithinBound
<1> HIDE DEF r, k, old
<1>6. score \in ReputationFloor..ReputationCeiling
  BY <1>5, UpdatedScoreRange
<1>7. /\ correct[v][k] \in Nat /\ Base(v, k) \in Nat /\ Base(v, k) >= ReputationFloor
  BY <1>2, BoundType DEF HInv
<1>8. /\ correct'[v][k] = IF CountsAsCorrect(o) THEN correct[v][k] + 1 ELSE correct[v][k]
      /\ \A d \in Domains : d # k => correct'[v][d] = correct[v][d]
      /\ \A x \in Validators : x # v => correct'[x] = correct[x]
      /\ correct' \in [Validators -> [Domains -> Nat]]
  BY <1>2, <1>4, <1>7 DEF HInv, HistoryTypes
<1>9. score <= Base(v, k) + DeltaHigh * correct'[v][k]
  <2>1. old + computeDelta(o) <= Base(v, k) + DeltaHigh * correct'[v][k]
    BY <1>5, <1>7, <1>8, DeltaIsEarned DEF DeltaHigh
  <2>2. ReputationFloor <= Base(v, k) + DeltaHigh * correct'[v][k]
    BY <1>7, <1>8 DEF DeltaHigh, ReputationFloor, EligibilityThreshold
  <2>3. computeDelta(o) \in Int
    BY DeltaIsEarned
  <2>4. Base(v, k) + DeltaHigh * correct'[v][k] \in Nat
    BY <1>7, <1>8 DEF DeltaHigh
  <2> QED
    BY <1>5, <2>1, <2>2, <2>3, <2>4
       DEF UpdatedScore, clamp, ReputationFloor, ReputationCeiling, EligibilityThreshold, One
<1> HIDE DEF score
<1>10. u.DomainScores = Put(r.DomainScores, k, score) /\ IsValidatorRecord(u)
  BY <1>1, <1>2, <1>6, UpdateRecordLemma
<1>11. w.DomainScores = u.DomainScores
  <2> HIDE DEF u
  <2>1. u = [GenesisValidator |-> u.GenesisValidator, DomainScores |-> u.DomainScores,
             GlobalReputation |-> u.GlobalReputation,
             TotalValidations |-> u.TotalValidations, Status |-> u.Status]
    BY <1>10 DEF IsValidatorRecord
  <2> QED
    BY <2>1
<1>12. HistoryTypes' /\ \A d : Base(v, d)' = Base(v, d)
  BY <1>4, <1>8 DEF HInv, HistoryTypes, Base
<1> HIDE DEF w, u
<1>13. ASSUME NEW d \in DOMAIN w.DomainScores
       PROVE  w.DomainScores[d] <= Base(v, d)' + DeltaHigh * correct'[v][d]
  <2>1. CASE d = k
    BY <1>9, <1>10, <1>11, <1>12, <2>1 DEF Put
  <2>2. CASE d # k
    <3>1. d \in DOMAIN r.DomainScores /\ w.DomainScores[d] = r.DomainScores[d] /\ d \in Domains
      BY <1>1, <1>10, <1>11, <2>2 DEF Put, IsValidatorRecord
    <3>2. r.DomainScores[d] <= Base(v, d) + DeltaHigh * correct[v][d]
      BY <1>1, <3>1 DEF HInv, ReputationIsEarned, r
    <3> QED
      BY <1>8, <1>12, <2>2, <3>1, <3>2
  <2> QED
    BY <2>1, <2>2
<1> QED
  BY <1>3, <1>4, <1>8, <1>12, <1>13, StoringKeepsHInv

\* Decay adds nothing.
LEMMA DecayKeepsHInv ==
    ASSUME HInv, IInv', NEW v \in Validators, NEW i \in DecayInputs, HApplyDecay(v, i)
    PROVE  HInv'
<1> DEFINE r == records[v]
           k == Normalise[i.Domain]
           old == DomainScore(r, k)
           score == DecayedScore(old, i.DaysInactive)
           u == withUpdatedDomainScore(r, k, score)
<1>1. /\ v \in DOMAIN records
      /\ IsValidatorRecord(r)
      /\ \A d \in DOMAIN r.DomainScores : r.DomainScores[d] >= ReputationFloor
  BY DEF HApplyDecay, ApplyDecay, HInv, IInv, TypeOK, ScoresAboveFloor
<1>2. k \in Domains
  BY NormaliseAssumption DEF HApplyDecay, ApplyDecay, validateDecayInput, DecayInputs
<1>3. records' = Put(records, v, u) /\ granted' = granted /\ correct' = correct
  BY DEF HApplyDecay, ApplyDecay, history
<1>4. old \in Nat /\ old <= Base(v, k) + DeltaHigh * correct[v][k]
  BY <1>1, <1>2, ScoreWithinBound
<1>5. i.DaysInactive \in InactiveDays /\ i.DaysInactive > DecayInactivityDays
  BY DEF HApplyDecay, ApplyDecay, DecayInputs
<1> HIDE DEF r, k, old
<1>6. score \in ReputationFloor..ReputationCeiling
  BY <1>4, <1>5, DecayedScoreRange
<1>7. correct[v][k] \in Nat /\ Base(v, k) \in Nat /\ Base(v, k) >= ReputationFloor
  BY <1>2, BoundType DEF HInv
<1>8. score <= old \/ score = ReputationFloor
  BY <1>4, <1>5, DecayLowers
<1> HIDE DEF score
<1>9. score <= Base(v, k) + DeltaHigh * correct[v][k]
  BY <1>4, <1>6, <1>7, <1>8 DEF DeltaHigh, ReputationFloor, ReputationCeiling, EligibilityThreshold, One
<1>10. u.DomainScores = Put(r.DomainScores, k, score)
  BY <1>1, <1>2, <1>6, UpdateRecordLemma
<1>11. HistoryTypes' /\ \A d : Base(v, d)' = Base(v, d)
  BY <1>3 DEF HInv, HistoryTypes, Base
<1> HIDE DEF u
<1>12. ASSUME NEW d \in DOMAIN u.DomainScores
       PROVE  u.DomainScores[d] <= Base(v, d)' + DeltaHigh * correct'[v][d]
  <2>1. CASE d = k
    BY <1>3, <1>9, <1>10, <1>11, <2>1 DEF Put
  <2>2. CASE d # k
    <3>1. d \in DOMAIN r.DomainScores /\ u.DomainScores[d] = r.DomainScores[d]
      BY <1>10, <2>2 DEF Put
    <3> QED
      BY <1>1, <1>3, <1>11, <3>1 DEF HInv, ReputationIsEarned, r
  <2> QED
    BY <2>1, <2>2
<1> QED
  BY <1>3, <1>11, <1>12, StoringKeepsHInv

\* A new record holds nothing, or the grant in each of its domains.
LEMMA NewRecordKeepsHInv ==
    ASSUME HInv, IInv', NEW v \in Validators,
           \/ HNewValidatorRecord(v)
           \/ \E spellings \in SUBSET Spellings : HNewGenesisValidatorRecord(v, spellings)
    PROVE  HInv'
<1>1. CASE HNewValidatorRecord(v)
  <2> DEFINE r == RecordOf(FALSE, [d \in {} |-> 0], 0)
  <2>1. records' = Put(records, v, r) /\ granted' = granted /\ correct' = correct
    BY <1>1 DEF HNewValidatorRecord, NewValidatorRecord, history
  <2>2. DOMAIN r.DomainScores = {}
    BY DEF RecordOf
  <2>3. HistoryTypes'
    BY <2>1 DEF HInv, HistoryTypes
  <2> HIDE DEF r
  <2> QED
    BY <2>1, <2>2, <2>3, StoringKeepsHInv
<1>2. ASSUME NEW spellings \in SUBSET Spellings, HNewGenesisValidatorRecord(v, spellings)
      PROVE  HInv'
  <2> DEFINE S == {Normalise[s] : s \in spellings} \ {Blank}
             scores == [d \in S |-> GenesisValidatorStartingReputation]
             r == RecordOf(TRUE, scores, 0)
  <2>1. /\ records' = Put(records, v, r) /\ correct' = correct
        /\ granted' = [granted EXCEPT ![v] = DOMAIN records'[v].DomainScores]
    BY <1>2 DEF HNewGenesisValidatorRecord, NewGenesisValidatorRecord
  <2>2. S \in SUBSET Domains
    BY NormaliseAssumption
  <2>3. r.DomainScores = scores /\ DOMAIN scores = S
    BY DEF RecordOf
  <2> HIDE DEF S, r
  <2>4. records'[v] = r
    BY <2>1 DEF Put
  <2>5. granted'[v] = S /\ HistoryTypes' /\ \A w \in Validators : w # v => granted'[w] = granted[w]
    BY <2>1, <2>2, <2>3, <2>4 DEF HInv, HistoryTypes
  <2>6. ASSUME NEW d \in DOMAIN r.DomainScores
        PROVE  r.DomainScores[d] <= Base(v, d)' + DeltaHigh * correct'[v][d]
    <3>1. d \in S /\ r.DomainScores[d] = GenesisValidatorStartingReputation
      BY <2>3
    <3>2. Base(v, d)' = GenesisValidatorStartingReputation
      BY <2>5, <3>1 DEF Base
    <3>3. correct'[v][d] \in Nat
      BY <2>1, <2>2, <3>1 DEF HInv, HistoryTypes
    <3> QED
      BY <3>1, <3>2, <3>3 DEF DeltaHigh, GenesisValidatorStartingReputation
  <2> QED
    BY <2>1, <2>5, <2>6, StoringKeepsHInv
<1> QED
  BY <1>1, <1>2

\* Reputation is bounded by merit, for any history of any length: genesis grant
\* or floor, plus DeltaHigh for each correct vote in that very domain.
THEOREM MeritBound == HSpec => []ReputationIsEarned
<1>1. HInit => HInv
  <2> SUFFICES ASSUME HInit PROVE HInv
    OBVIOUS
  <2>1. records = [v \in {} |-> {}] /\ HistoryTypes
    BY DEF HInit, Init, HistoryTypes
  <2>2. IInv
    BY <2>1 DEF IInv, TypeOK, ScoresAboveFloor
  <2> QED
    BY <2>1, <2>2 DEF HInv, ReputationIsEarned
<1>2. HInv /\ [HNext]_<<vars, history>> => HInv'
  <2> SUFFICES ASSUME HInv, [HNext]_<<vars, history>> PROVE HInv'
    OBVIOUS
  <2>1. CASE HNext
    <3>1. Next
      BY <2>1 DEF HNext, Next, HNewValidatorRecord, HNewGenesisValidatorRecord,
                  HApplyPostFinalizationUpdate, HApplyDecay
    <3>2. IInv'
      BY <3>1, NextStoresRecord, StoresRecordKeeps DEF HInv
    <3> QED
      BY <2>1, <3>2, NewRecordKeepsHInv, OutcomeKeepsHInv, DecayKeepsHInv DEF HNext
  <2>2. CASE UNCHANGED <<vars, history>>
    BY <2>2 DEF vars, history, HInv, IInv, TypeOK, ScoresAboveFloor, HistoryTypes,
                ReputationIsEarned, Base
  <2> QED
    BY <2>1, <2>2
<1>3. HInv => ReputationIsEarned
  BY DEF HInv
<1> QED
  BY <1>1, <1>2, <1>3, PTL DEF HSpec
=============================================================================

-------------------------- MODULE SimulationProofs --------------------------
(***************************************************************************)
(* Proofs about Simulation, for any configuration, any pool and any random *)
(* numbers.                                                                *)
(***************************************************************************)
EXTENDS Simulation, Sums, SequenceTheorems, TLAPS

-----------------------------------------------------------------------------
\* The operators of core/reputation, as the proofs cite them.
Score(r, s)         == R!DomainScore(r, s)
ScoreAfter(old, o)  == R!UpdatedScore(old, o)
RecordAfter(r, o)   == R!UpdatedRecord(r, o)
Global(scores)      == R!computeGlobalReputation(scores)
Scored(r, d, score) == R!withUpdatedDomainScore(r, d, score)
WithScore(f, d, x)  == R!Put(f, d, x)

\* The scores a record may have, and the ones that an outcome leaves.
Scores == 0..R!One
Raised == R!ReputationFloor..R!ReputationCeiling

LEMMA ScoreFacts ==
    /\ Raised \subseteq Scores /\ Scores \subseteq Nat /\ 0 \in Scores
    /\ \A x \in Raised : R!clamp(x, 0, R!ReputationCeiling) = x
<1>1. Raised \subseteq Scores
  <2> SUFFICES ASSUME NEW x \in Raised PROVE x \in Scores
    OBVIOUS
  <2> QED
    BY SMT DEF Scores, Raised, R!One, R!ReputationFloor, R!ReputationCeiling, R!EligibilityThreshold
<1>2. Scores \subseteq Nat /\ 0 \in Scores
  BY SMT DEF Scores, R!One
<1>3. \A x \in Raised : R!clamp(x, 0, R!ReputationCeiling) = x
  BY SMT DEF Raised, R!clamp, R!One, R!ReputationFloor, R!ReputationCeiling, R!EligibilityThreshold
<1> QED
  BY <1>1, <1>2, <1>3

\* A reputation record, its scores in [0.0, 1.0].
IsRecord(r) ==
    /\ r = [GenesisValidator |-> r.GenesisValidator, DomainScores |-> r.DomainScores,
            GlobalReputation |-> r.GlobalReputation, TotalValidations |-> r.TotalValidations,
            Status |-> r.Status]
    /\ r.DomainScores \in [DOMAIN r.DomainScores -> Scores]

LEMMA ScoreRange ==
    ASSUME NEW r, IsRecord(r), NEW s
    PROVE  Score(r, s) \in Scores
<1>1. \A k \in DOMAIN r.DomainScores : r.DomainScores[k] \in Scores
  BY DEF IsRecord
<1> QED
  BY <1>1, ScoreFacts DEF Score, R!DomainScore

\* A domain that is not blank for core/reputation.
Named(d) == d \in DOMAIN Normalise /\ Normalise[d] # ""

\* The record after an outcome has the updated score in the outcome's domain,
\* however the domain is spelled.
LEMMA UpdateOfRecord ==
    ASSUME NEW r, IsRecord(r), NEW o, Named(o.Domain),
           NEW score \in Raised, score = ScoreAfter(Score(r, o.Domain), o)
    PROVE  /\ IsRecord(RecordAfter(r, o))
           /\ Score(RecordAfter(r, o), o.Domain) = score
<1> DEFINE d == Normalise[o.Domain]
           scores == WithScore(r.DomainScores, d, score)
           u == Scored(r, d, score)
           n == r.TotalValidations + 1
           g == Global(scores)
           a == RecordAfter(r, o)
<1>1. d \in DOMAIN Normalise /\ Normalise[d] = d
  BY NormaliseAssumption DEF Named
<1>2. Score(r, d) = Score(r, o.Domain)
  BY <1>1, Zenon DEF Score, R!DomainScore
<1>3. a = [u EXCEPT !.TotalValidations = n]
  <2>1. a = [Scored(r, d, ScoreAfter(Score(r, d), o)) EXCEPT !.TotalValidations = n]
    BY Zenon DEF RecordAfter, Scored, ScoreAfter, Score, R!UpdatedRecord
  <2> QED
    BY <1>2, <2>1
<1>4. u = [r EXCEPT !.DomainScores = scores, !.GlobalReputation = g]
  BY ScoreFacts, Zenon DEF Scored, Global, WithScore, R!withUpdatedDomainScore
<1>5. scores \in [DOMAIN scores -> Scores] /\ d \in DOMAIN scores /\ scores[d] = score
  <2>1. \A k \in DOMAIN r.DomainScores : r.DomainScores[k] \in Scores
    BY DEF IsRecord
  <2>2. score \in Scores
    BY ScoreFacts
  <2>3. scores = [j \in DOMAIN r.DomainScores \cup {d} |-> IF j = d THEN score ELSE r.DomainScores[j]]
    BY Zenon DEF WithScore, R!Put
  <2> HIDE DEF d, scores
  <2> QED
    BY ONLY <2>1, <2>2, <2>3
<1> HIDE DEF scores, u, d, g, n, a
<1>6. a = [GenesisValidator |-> r.GenesisValidator, DomainScores |-> scores,
           GlobalReputation |-> g, TotalValidations |-> n, Status |-> r.Status]
  <2>1. r = [GenesisValidator |-> r.GenesisValidator, DomainScores |-> r.DomainScores,
             GlobalReputation |-> r.GlobalReputation, TotalValidations |-> r.TotalValidations,
             Status |-> r.Status]
    BY DEF IsRecord
  <2> QED
    BY ONLY <1>3, <1>4, <2>1
<1>7. a.DomainScores = scores
  BY <1>6
<1>8. IsRecord(a)
  BY ONLY <1>5, <1>6, <1>7 DEF IsRecord
<1>9. Score(a, o.Domain) = score
  BY <1>5, <1>7, Zenon DEF Score, R!DomainScore, d
<1> QED
  BY <1>8, <1>9 DEF a

Clamped(x) == R!clamp(x, R!ReputationFloor, R!ReputationCeiling)

LEMMA ClampedScore ==
    ASSUME NEW old \in Scores, NEW delta \in Int
    PROVE  /\ Clamped(old + delta) \in Raised
           /\ delta >= 0 => Clamped(old + delta) >= old
<1>1. old \in Int /\ 0 <= old /\ old <= 10000
  BY SMT DEF Scores, R!One
<1>2. PICK y : y = Clamped(old + delta)
  OBVIOUS
<1>3. y = IF old + delta < 1500 THEN 1500 ELSE IF old + delta > 10000 THEN 10000 ELSE old + delta
  BY <1>2, SMT DEF Clamped, R!clamp, R!ReputationFloor, R!ReputationCeiling, R!EligibilityThreshold, R!One
<1>4. y \in 1500..10000 /\ (delta >= 0 => y >= old)
  BY ONLY <1>1, <1>3, delta \in Int, SMT
<1>5. y \in Raised
  BY <1>4, SMT DEF R!ReputationFloor, R!ReputationCeiling, R!EligibilityThreshold, R!One, Raised
<1> QED
  BY <1>2, <1>4, <1>5, SMT

\* The size of the step that a vote with this confidence makes.
StepOf(confidence) == IF confidence > R!HighConfidenceThreshold THEN R!DeltaHigh ELSE R!DeltaLow

\* The score after the outcome of a vote cast in time.
LEMMA VoteScore ==
    ASSUME NEW old, NEW id, NEW domain, NEW ok \in BOOLEAN, NEW confidence
    PROVE  ScoreAfter(old, VoteOutcome(id, domain, ok, confidence)) =
               Clamped(old + IF ok THEN StepOf(100 * confidence) ELSE -StepOf(100 * confidence))
<1> DEFINE o == VoteOutcome(id, domain, ok, confidence)
           c == 100 * confidence
<1>1. /\ o.Participated = TRUE /\ o.WasLate = FALSE /\ o.WasCorrect = ok /\ o.Confidence = c
  BY DEF VoteOutcome
<1> HIDE DEF o, c
<1>2. R!computeDelta(o) = IF ok THEN StepOf(c) ELSE -StepOf(c)
  <2>1. R!computeDelta(o) = IF o.WasCorrect THEN StepOf(o.Confidence) ELSE -StepOf(o.Confidence)
    BY <1>1, SMT DEF R!computeDelta, StepOf
  <2> QED
    BY <1>1, <2>1, Zenon
<1>3. ScoreAfter(old, o) = Clamped(old + R!computeDelta(o))
  BY Zenon DEF ScoreAfter, Clamped, R!UpdatedScore
<1> QED
  BY <1>2, <1>3, Zenon DEF o, c

LEMMA StepSize ==
    ASSUME NEW c
    PROVE  StepOf(c) \in Nat /\ -StepOf(c) \in Int
<1>1. R!DeltaHigh = 500 /\ R!DeltaLow = 100
  BY SMT DEF R!DeltaHigh, R!DeltaLow
<1> QED
  BY <1>1, SMT DEF StepOf

\* It is between the floor and the ceiling, and not below the one before when
\* the vote was correct.
LEMMA ScoreAfterVote ==
    ASSUME NEW old \in Scores, NEW id, NEW domain, NEW ok \in BOOLEAN, NEW confidence
    PROVE  /\ ScoreAfter(old, VoteOutcome(id, domain, ok, confidence)) \in Raised
           /\ ok => ScoreAfter(old, VoteOutcome(id, domain, ok, confidence)) >= old
<1> DEFINE s == ScoreAfter(old, VoteOutcome(id, domain, ok, confidence))
<1>1. PICK d : d = StepOf(100 * confidence) /\ d \in Nat /\ -d \in Int
  BY StepSize
<1>2. s = Clamped(old + IF ok THEN d ELSE -d)
  <2>1. s = Clamped(old + IF ok THEN StepOf(100 * confidence) ELSE -StepOf(100 * confidence))
    BY VoteScore
  <2> QED
    BY <1>1, <2>1
<1> HIDE DEF s
<1>3. CASE ok
  <2>1. s = Clamped(old + d)
    BY <1>2, <1>3, Zenon
  <2>2. d \in Int /\ d >= 0
    BY <1>1
  <2> QED
    BY <2>1, <2>2, ClampedScore DEF s
<1>4. CASE ~ok
  <2>1. s = Clamped(old + -d)
    BY <1>2, <1>4, Zenon
  <2> QED
    BY <1>1, <1>4, <2>1, ClampedScore DEF s
<1> QED
  BY <1>3, <1>4

-----------------------------------------------------------------------------
\* One iteration of the loop in injectDomainReputation.
ValidOutcome(o) == R!validateOutcome(o)

Once(r, o, target) ==
    IF Score(r, o.Domain) < target - 500 /\ ValidOutcome(o) THEN RecordAfter(r, o) ELSE r

\* f[i] is the record after i iterations of n.
IsRaising(f, r0, o, target, n) ==
    f = [i \in 0..n |-> IF i = 0 THEN r0 ELSE Once(f[i - 1], o, target)]

LEMMA RaisingExists ==
    ASSUME NEW r0, NEW o, NEW target
    PROVE  \A n \in Nat : \E f : IsRaising(f, r0, o, target, n)
<1> DEFINE T == {n \in Nat : \E f : IsRaising(f, r0, o, target, n)}
<1>1. 0 \in T
  <2>1. IsRaising([i \in 0..0 |-> r0], r0, o, target, 0)
    BY DEF IsRaising
  <2> QED
    BY <2>1
<1>2. ASSUME NEW n \in Nat, n \in T PROVE n + 1 \in T
  <2>1. PICK f : IsRaising(f, r0, o, target, n)
    BY <1>2
  <2> DEFINE g == [i \in 0..(n + 1) |-> IF i = n + 1 THEN Once(f[n], o, target) ELSE f[i]]
  <2>2. ASSUME NEW i \in 0..(n + 1)
        PROVE  g[i] = IF i = 0 THEN r0 ELSE Once(g[i - 1], o, target)
    <3>1. CASE i = n + 1
      <4>1. i # 0 /\ i - 1 = n /\ n \in 0..(n + 1) /\ n # n + 1
        BY <3>1
      <4> QED
        BY <3>1, <4>1
    <3>2. CASE i # n + 1
      <4>1. i \in 0..n /\ (i # 0 => i - 1 \in 0..(n + 1) /\ i - 1 # n + 1)
        BY <3>2
      <4>2. f[i] = IF i = 0 THEN r0 ELSE Once(f[i - 1], o, target)
        BY <2>1, <4>1 DEF IsRaising
      <4> QED
        BY <3>2, <4>1, <4>2
    <3> QED
      BY <3>1, <3>2
  <2>3. IsRaising(g, r0, o, target, n + 1)
    BY <2>2 DEF IsRaising
  <2> QED
    BY <2>3
<1>3. Nat \subseteq T
  <2> HIDE DEF T
  <2> QED
    BY <1>1, <1>2, SetInduction
<1> QED
  BY <1>3

LEMMA RaisedIsLast ==
    ASSUME NEW r0, NEW id, NEW domain, NEW target, NEW n \in Nat
    PROVE  \E f : /\ raised(r0, id, domain, target, n) = f[n]
                  /\ IsRaising(f, r0, VoteOutcome(id, domain, TRUE, 90), target, n)
<1> DEFINE o == VoteOutcome(id, domain, TRUE, 90)
           Loop(f) == f = [i \in 0..n |-> IF i = 0 THEN r0 ELSE
                              IF R!DomainScore(f[i - 1], domain) < target - 500 /\ R!validateOutcome(o)
                              THEN R!UpdatedRecord(f[i - 1], o) ELSE f[i - 1]]
<1>1. raised(r0, id, domain, target, n) = (CHOOSE f : Loop(f))[n]
  BY DEF raised
<1>2. o.Domain = domain
  BY DEF VoteOutcome
<1> HIDE DEF o
<1>3. \A f : IsRaising(f, r0, o, target, n) <=> Loop(f)
  <2> SUFFICES ASSUME NEW f PROVE IsRaising(f, r0, o, target, n) <=> Loop(f)
    OBVIOUS
  <2>1. \A r : Once(r, o, target) =
                   IF R!DomainScore(r, domain) < target - 500 /\ R!validateOutcome(o)
                   THEN R!UpdatedRecord(r, o) ELSE r
    BY <1>2, Zenon DEF Once, Score, RecordAfter, ValidOutcome
  <2>2. \A i \in 0..n : (IF i = 0 THEN r0 ELSE Once(f[i - 1], o, target)) =
                         (IF i = 0 THEN r0 ELSE
                              IF R!DomainScore(f[i - 1], domain) < target - 500 /\ R!validateOutcome(o)
                              THEN R!UpdatedRecord(f[i - 1], o) ELSE f[i - 1])
    BY <2>1, Zenon
  <2> QED
    BY <2>2, Zenon DEF IsRaising
<1>4. \E f : Loop(f)
  <2>1. \E f : IsRaising(f, r0, o, target, n)
    BY RaisingExists
  <2> HIDE DEF Loop
  <2> QED
    BY <1>3, <2>1
<1>5. PICK f : f = (CHOOSE g : Loop(g)) /\ Loop(f)
  BY <1>4
<1> HIDE DEF Loop
<1>6. raised(r0, id, domain, target, n) = f[n] /\ IsRaising(f, r0, o, target, n)
  BY <1>1, <1>3, <1>5
<1> QED
  BY <1>6 DEF o

\* The record of a new validator.
Fresh == R!RecordOf(FALSE, [d \in {} |-> 0], 0)

LEMMA FreshRecord == IsRecord(Fresh) /\ \A s : Score(Fresh, s) = 0
<1> DEFINE none == [d \in {} |-> 0]
<1>1. Fresh = [GenesisValidator |-> FALSE, DomainScores |-> none,
               GlobalReputation |-> Global(none), TotalValidations |-> 0, Status |-> "ACTIVE"]
  BY Zenon DEF Fresh, Global, R!RecordOf
<1>2. DOMAIN none = {} /\ none \in [DOMAIN none -> Scores]
  OBVIOUS
<1> HIDE DEF none
<1>3. Fresh.DomainScores = none
  BY <1>1
<1>4. IsRecord(Fresh)
  BY <1>1, <1>2, <1>3 DEF IsRecord
<1>5. \A s : Score(Fresh, s) = 0
  BY <1>2, <1>3 DEF Score, R!DomainScore
<1> QED
  BY <1>4, <1>5

\* Where the score s is after i > 0 iterations towards the target.
Approaching(s, target, i) ==
    s \in Raised /\ s <= target /\ (s >= target - 500 \/ s >= 1000 + 500 * i)

LEMMA ApproachStarts ==
    ASSUME NEW target \in Raised
    PROVE  0 < target - 500 /\ Approaching(Clamped(0 + 500), target, 1)
<1>1. target \in 1500..10000
  BY SMT DEF R!ReputationFloor, R!ReputationCeiling, R!EligibilityThreshold, R!One, Raised
<1>2. Clamped(0 + 500) = 1500
  BY SMT DEF Clamped, R!clamp, R!ReputationFloor, R!ReputationCeiling, R!EligibilityThreshold, R!One
<1>3. 1500 \in Raised
  BY SMT DEF R!ReputationFloor, R!ReputationCeiling, R!EligibilityThreshold, R!One, Raised
<1> QED
  BY <1>1, <1>2, <1>3, SMT DEF Approaching

\* The score after one more iteration.
Closer(s, target) == IF s < target - 500 THEN Clamped(s + 500) ELSE s

LEMMA ApproachGoesOn ==
    ASSUME NEW target \in Raised, NEW i \in Nat, NEW s, Approaching(s, target, i)
    PROVE  Approaching(Closer(s, target), target, i + 1)
<1>1. target \in 1500..10000 /\ s \in 1500..10000 /\ Raised = 1500..10000
  BY SMT DEF R!ReputationFloor, R!ReputationCeiling, R!EligibilityThreshold, R!One, Raised, Approaching
<1>2. CASE s < target - 500
  <2> DEFINE x == s + 500
  <2>1. /\ x \in 1500..10000 /\ x <= target
        /\ s >= 1000 + 500 * i => x >= 1000 + 500 * (i + 1)
    <3>1. target \in Int /\ s \in Int /\ 1500 <= s /\ target <= 10000
      BY <1>1
    <3> QED
      BY ONLY <1>2, <3>1, i \in Nat, SMT
  <2>2. Closer(s, target) = Clamped(x)
    BY <1>2, Zenon DEF Closer
  <2>3. s >= 1000 + 500 * i
    <3>1. ~(s >= target - 500)
      BY <1>1, <1>2, SMT
    <3> QED
      BY <3>1, Zenon DEF Approaching
  <2> HIDE DEF x
  <2>4. Clamped(x) = x
    BY <2>1, SMT
       DEF Clamped, R!clamp, R!ReputationFloor, R!ReputationCeiling, R!EligibilityThreshold, R!One
  <2>5. Approaching(x, target, i + 1)
    BY <1>1, <2>1, <2>3, SMT DEF Approaching
  <2> QED
    BY <2>2, <2>4, <2>5
<1>3. CASE ~(s < target - 500)
  <2>1. Closer(s, target) = s
    BY <1>3, Zenon DEF Closer
  <2>2. Approaching(s, target, i + 1)
    BY <1>1, <1>3, SMT DEF Approaching
  <2> QED
    BY <2>1, <2>2
<1> QED
  BY <1>2, <1>3

LEMMA ApproachEnds ==
    ASSUME NEW target \in Raised, NEW s, Approaching(s, target, 40)
    PROVE  s - target \in -500..500
<1>1. target \in 1500..10000 /\ s \in 1500..10000
  BY SMT DEF R!ReputationFloor, R!ReputationCeiling, R!EligibilityThreshold, R!One, Raised, Approaching
<1> QED
  BY <1>1, SMT DEF Approaching

\* The outcome that injectDomainReputation applies, and whether it is accepted.
Praise(id, domain) == VoteOutcome(id, domain, TRUE, 90)

Accepts(id, domain) == id # "" /\ Normalise[domain] # ""

LEMMA PraiseScore ==
    ASSUME NEW id, NEW domain, NEW old
    PROVE  ScoreAfter(old, Praise(id, domain)) = Clamped(old + 500)
<1>1. PICK k : k = 90
  OBVIOUS
<1>2. StepOf(100 * k) = 500
  BY <1>1, SMT DEF StepOf, R!HighConfidenceThreshold, R!DeltaHigh
<1>3. ScoreAfter(old, VoteOutcome(id, domain, TRUE, k)) = Clamped(old + StepOf(100 * k))
  <2>1. PICK ok \in BOOLEAN : ok = TRUE
    OBVIOUS
  <2>2. ScoreAfter(old, VoteOutcome(id, domain, ok, k)) =
            Clamped(old + IF ok THEN StepOf(100 * k) ELSE -StepOf(100 * k))
    BY VoteScore
  <2> QED
    BY <2>1, <2>2, Zenon
<1>4. Praise(id, domain) = VoteOutcome(id, domain, TRUE, k)
  BY <1>1 DEF Praise
<1> QED
  BY <1>2, <1>3, <1>4

LEMMA PraiseIsValid ==
    ASSUME NEW id, NEW domain
    PROVE  /\ Praise(id, domain).Domain = domain
           /\ ValidOutcome(Praise(id, domain)) <=> Accepts(id, domain)
<1> DEFINE o == Praise(id, domain)
<1>1. o.ValidatorID = id /\ o.Domain = domain /\ o.Confidence = 100 * 90
  BY DEF VoteOutcome, Praise
<1> HIDE DEF o
<1>2. 100 * 90 \in 0..R!One
  BY SMT DEF R!One
<1>3. o.Confidence \in 0..R!One
  BY <1>1, <1>2
<1> QED
  BY <1>1, <1>3, Zenon DEF ValidOutcome, R!validateOutcome, o, Accepts

\* One iteration, for these outcomes.
LEMMA OnceMore ==
    ASSUME NEW id, NEW domain \in DOMAIN Normalise, NEW target, NEW r, IsRecord(r)
    PROVE  /\ IsRecord(Once(r, Praise(id, domain), target))
           /\ Accepts(id, domain) =>
                  Score(Once(r, Praise(id, domain), target), domain) = Closer(Score(r, domain), target)
<1>1. PICK o : o = Praise(id, domain)
  OBVIOUS
<1> DEFINE s == ScoreAfter(Score(r, domain), o)
<1>2. o.Domain = domain /\ (ValidOutcome(o) <=> Accepts(id, domain))
  BY <1>1, PraiseIsValid
<1>3. Score(r, domain) \in Scores
  BY ScoreRange
<1>4. s \in Raised
  BY <1>1, <1>3, ScoreAfterVote DEF Praise
<1>5. s = Clamped(Score(r, domain) + 500)
  BY <1>1, PraiseScore
<1> HIDE DEF s
<1>6. CASE Score(r, domain) < target - 500 /\ ValidOutcome(o)
  <2>1. Once(r, o, target) = RecordAfter(r, o)
    BY <1>2, <1>6, Zenon DEF Once
  <2>2. Named(o.Domain)
    BY <1>2, <1>6, Zenon DEF Named, Accepts
  <2>3. IsRecord(RecordAfter(r, o)) /\ Score(RecordAfter(r, o), o.Domain) = s
    <3>1. s = ScoreAfter(Score(r, o.Domain), o)
      BY <1>2 DEF s
    <3> QED
      BY <1>4, <2>2, <3>1, UpdateOfRecord
  <2>4. Closer(Score(r, domain), target) = s
    BY <1>5, <1>6, Zenon DEF Closer
  <2> QED
    BY <1>1, <1>2, <2>1, <2>3, <2>4, Zenon
<1>7. CASE ~(Score(r, domain) < target - 500 /\ ValidOutcome(o))
  <2>1. Once(r, o, target) = r
    BY <1>2, <1>7, Zenon DEF Once
  <2>2. ValidOutcome(o) => Closer(Score(r, domain), target) = Score(r, domain)
    BY <1>7, Zenon DEF Closer
  <2> QED
    BY <1>1, <1>2, <2>1, <2>2, Zenon
<1> QED
  BY <1>6, <1>7

\* Where the record r of a validator is after i > 0 iterations.
Underway(r, id, domain, target, i) ==
    IsRecord(r) /\ (Accepts(id, domain) => Approaching(Score(r, domain), target, i))

LEMMA RaisingApproaches ==
    ASSUME NEW id, NEW domain \in DOMAIN Normalise, NEW target \in Raised,
           NEW n \in Nat \ {0}, NEW f, IsRaising(f, Fresh, Praise(id, domain), target, n)
    PROVE  Underway(f[n], id, domain, target, n)
<1> DEFINE o == Praise(id, domain)
           U(r, i) == Underway(r, id, domain, target, i)
           T == {i \in Nat : i + 1 <= n => U(f[i + 1], i + 1)}
<1>1. f[0] = Fresh /\ \A i \in 1..n : f[i] = Once(f[i - 1], o, target)
  BY DEF IsRaising
<1>2. ASSUME NEW i \in Nat, i + 1 <= n PROVE f[i + 1] = Once(f[i], o, target)
  <2>1. i + 1 \in 1..n /\ (i + 1) - 1 = i
    BY <1>2
  <2> HIDE DEF o
  <2> QED
    BY <1>1, <2>1
<1>3. U(Once(Fresh, o, target), 1)
  <2>1. Closer(0, target) = Clamped(0 + 500) /\ Approaching(Clamped(0 + 500), target, 1)
    BY ApproachStarts, Zenon DEF Closer
  <2>2. /\ IsRecord(Once(Fresh, o, target))
        /\ Accepts(id, domain) => Score(Once(Fresh, o, target), domain) = Closer(Score(Fresh, domain), target)
    BY FreshRecord, OnceMore
  <2>3. Score(Fresh, domain) = 0
    BY FreshRecord
  <2> QED
    BY <2>1, <2>2, <2>3, Zenon DEF Underway
<1>4. ASSUME NEW i \in Nat, NEW r, U(r, i) PROVE U(Once(r, o, target), i + 1)
  <2>1. IsRecord(r) /\ (Accepts(id, domain) => Approaching(Score(r, domain), target, i))
    BY <1>4 DEF Underway
  <2>2. /\ IsRecord(Once(r, o, target))
        /\ Accepts(id, domain) => Score(Once(r, o, target), domain) = Closer(Score(r, domain), target)
    BY <2>1, OnceMore
  <2>3. Accepts(id, domain) => Approaching(Closer(Score(r, domain), target), target, i + 1)
    BY <2>1, ApproachGoesOn
  <2> QED
    BY <2>2, <2>3, Zenon DEF Underway
<1> HIDE DEF o, U
<1>5. 0 \in T
  <2>1. f[0 + 1] = Once(Fresh, o, target) /\ 0 + 1 = 1
    BY <1>1, <1>2
  <2> QED
    BY <1>3, <2>1
<1>6. ASSUME NEW i \in Nat, i \in T PROVE i + 1 \in T
  <2> SUFFICES ASSUME (i + 1) + 1 <= n PROVE U(f[(i + 1) + 1], (i + 1) + 1)
    OBVIOUS
  <2>1. i + 1 \in Nat /\ i + 1 <= n
    OBVIOUS
  <2>2. U(f[i + 1], i + 1)
    BY <1>6, <2>1
  <2>3. f[(i + 1) + 1] = Once(f[i + 1], o, target)
    BY <1>2, <2>1
  <2> QED
    BY <1>4, <2>1, <2>2, <2>3
<1>7. n - 1 \in Nat /\ (n - 1) + 1 = n
  OBVIOUS
<1>8. n - 1 \in T
  <2>1. Nat \subseteq T
    <3> HIDE DEF T
    <3> QED
      BY <1>5, <1>6, SetInduction
  <2> QED
    BY <1>7, <2>1
<1> QED
  BY <1>7, <1>8 DEF U

\* A validator of the pool gets a record, and unless its domain is blank one
\* with a score near the target.
LEMMA InjectedReputation ==
    ASSUME NEW id, NEW domain \in DOMAIN Normalise, NEW target \in Raised
    PROVE  /\ IsRecord(injectDomainReputation(Fresh, id, domain, target))
           /\ Accepts(id, domain) =>
                  /\ Score(injectDomainReputation(Fresh, id, domain, target), domain) \in Raised
                  /\ Score(injectDomainReputation(Fresh, id, domain, target), domain) - target \in -500..500
<1>1. PICK r : r = injectDomainReputation(Fresh, id, domain, target)
  OBVIOUS
<1>2. PICK n : n = 40
  OBVIOUS
<1>3. r = raised(Fresh, id, domain, target, n)
  <2>1. 0 \notin (target - 1000)..(target + 1000)
    BY SMT DEF R!ReputationFloor, R!ReputationCeiling, R!EligibilityThreshold, R!One, Raised
  <2>2. R!DomainScore(Fresh, domain) = 0
    BY FreshRecord DEF Score
  <2> QED
    BY <1>1, <1>2, <2>1, <2>2, SMT DEF injectDomainReputation
<1>4. n \in Nat \ {0}
  BY <1>2, SMT
<1>5. PICK f : r = f[n] /\ IsRaising(f, Fresh, Praise(id, domain), target, n)
  BY <1>3, <1>4, RaisedIsLast DEF Praise
<1>6. Underway(r, id, domain, target, n)
  BY <1>4, <1>5, RaisingApproaches
<1>7. Accepts(id, domain) => Score(r, domain) \in Raised /\ Score(r, domain) - target \in -500..500
  <2>1. Accepts(id, domain) => Approaching(Score(r, domain), target, 40)
    BY <1>2, <1>6, SMT DEF Underway
  <2>2. Accepts(id, domain) => Score(r, domain) \in Raised
    BY <2>1, Zenon DEF Approaching
  <2> QED
    BY <2>1, <2>2, ApproachEnds
<1> QED
  BY <1>1, <1>6, <1>7 DEF Underway

-----------------------------------------------------------------------------
\* What is proved of core/consensus.
CP == INSTANCE ConsensusProofs WITH
        Validators <- {}, Ballots <- {}, SetSizes <- {}, Scale <- 100,
        votes <- <<>>, validatorSetSize <- 0, result <- <<>>

\* The assumptions of core/consensus.
Floats ==
    /\ CP!IsFiniteSet(Ulps) /\ Ulps \subseteq Nat \ {0} /\ 1 \in Ulps
    /\ \A p, q \in Ulps : p < q => q % (2 * p) = 0

LEMMA FloatFacts ==
    /\ Floats
    /\ Significand \in Nat \ {0} /\ Significand % 2 = 0
    /\ CP!IsFiniteSet({}) /\ Significand >= 2 * CP!Cardinality({})
<1>1. \A S : CP!IsFiniteSet(S) <=> IsFiniteSet(S)
  BY Zenon DEF CP!IsFiniteSet, IsFiniteSet
<1>2. IsFiniteSet({}) /\ Cardinality({}) = 0
  BY FS_EmptySet
<1>3. CP!Cardinality({}) = Cardinality({})
  BY <1>1, Zenon DEF CP!Cardinality, Cardinality
<1> QED
  BY <1>1, <1>2, <1>3, FloatsAssumption DEF Floats

\* Consensus(vs, size) and its parts, as the proofs cite them.
Consensus(vs, size) == C!ComputeConsensus(vs, size)
Breakdown(vs)       == CP!aggregateWeights(vs)
Winner(b)           == CP!findWinner(b)

LEMMA SameOperators ==
    ASSUME NEW vs, NEW b, NEW v
    PROVE  /\ C!validateVote(v) <=> CP!validateVote(v)
           /\ C!aggregateWeights(vs) = Breakdown(vs)
           /\ C!findWinner(b) = Winner(b)
           /\ C!adjustedWeight(v) = CP!adjustedWeight(v)
<1>1. C!validateVote(v) <=> CP!validateVote(v)
  BY Zenon DEF C!validateVote, CP!validateVote, C!VerdictStates, CP!VerdictStates
<1>2. C!aggregateWeights(vs) = Breakdown(vs)
  BY Zenon DEF C!aggregateWeights, CP!aggregateWeights, C!adjustedWeight, CP!adjustedWeight,
               C!Round, CP!Round, C!Ulp, CP!Ulp, C!Max, CP!Max,
               C!NoMass, CP!NoMass, C!VerdictStates, CP!VerdictStates, Breakdown
<1>3. C!findWinner(b) = Winner(b)
  BY Zenon DEF C!findWinner, CP!findWinner, Winner
<1>4. C!adjustedWeight(v) = CP!adjustedWeight(v)
  BY Zenon DEF C!adjustedWeight, CP!adjustedWeight
<1> QED
  BY <1>1, <1>2, <1>3, <1>4, Zenon

\* Votes that core/consensus accepts.
Ballots(vs) == Len(vs) \in Nat \ {0} /\ \A i \in 1..Len(vs) : C!validateVote(vs[i])

LEMMA BallotsAreValid == ASSUME NEW vs, Ballots(vs) PROVE CP!Valid(vs)
BY SameOperators, Zenon DEF Ballots, CP!Valid

\* The result for valid votes: no error, and the heaviest verdict if there is a
\* quorum and it has a majority of the mass.
LEMMA ConsensusOfBallots ==
    ASSUME NEW vs, Ballots(vs), NEW size
    PROVE  LET b == Breakdown(vs)
               w == Winner(b)
               n == Len(vs)
           IN  /\ Consensus(vs, size).err = "nil"
               /\ Consensus(vs, size).Verdict =
                      IF \/ C!belowQuorum(n, IF size <= 0 THEN n ELSE size)
                         \/ b["TotalMass"] = 0
                         \/ C!noMajority(b[w], b["TotalMass"])
                      THEN "INDETERMINATE" ELSE w
<1> DEFINE b == Breakdown(vs)
           w == Winner(b)
           n == Len(vs)
           s == IF size <= 0 THEN n ELSE size
           r == Consensus(vs, size)
<1>1. n \in Nat /\ n > 0 /\ n # 0 /\ ~(\E i \in 1..n : ~C!validateVote(vs[i]))
  BY DEF Ballots
<1>2. C!aggregateWeights(vs) = b /\ C!findWinner(b) = w
  BY SameOperators
<1> HIDE DEF b, w, s, n
<1>3. r = IF C!belowQuorum(n, s) \/ b["TotalMass"] = 0 \/ C!noMajority(b[w], b["TotalMass"])
          THEN C!Result("INDETERMINATE", 0, b)
          ELSE C!Result(w, C!computeConfidence(vs, w), b)
  BY ONLY <1>1, <1>2 DEF Consensus, C!ComputeConsensus, n, s
<1> HIDE DEF r
<1>4. CASE C!belowQuorum(n, s) \/ b["TotalMass"] = 0 \/ C!noMajority(b[w], b["TotalMass"])
  <2>1. r = C!Result("INDETERMINATE", 0, b)
    BY <1>3, <1>4, Zenon
  <2>2. r.err = "nil" /\ r.Verdict = "INDETERMINATE"
    BY <2>1 DEF C!Result
  <2> QED
    BY <1>4, <2>2, Zenon DEF b, w, r, n, s
<1>5. CASE ~(C!belowQuorum(n, s) \/ b["TotalMass"] = 0 \/ C!noMajority(b[w], b["TotalMass"]))
  <2>1. r = C!Result(w, C!computeConfidence(vs, w), b)
    BY <1>3, <1>5, Zenon
  <2>2. r.err = "nil" /\ r.Verdict = w
    BY <2>1 DEF C!Result
  <2> QED
    BY <1>5, <2>2, Zenon DEF b, w, r, n, s
<1> QED
  BY <1>4, <1>5

\* The round's verdict is one of the four, and when all votes are for one
\* verdict, with weight and as many as were asked for, it is that one.
LEMMA RoundVerdict ==
    ASSUME NEW vs, Ballots(vs), NEW size
    PROVE  /\ Consensus(vs, size).err = "nil"
           /\ Consensus(vs, size).Verdict \in Verdicts
           /\ \A v \in Verdicts :
                  /\ Len(vs) = size
                  /\ \A i \in 1..Len(vs) : vs[i].Verdict = v /\ C!adjustedWeight(vs[i]) > 0
                  => Consensus(vs, size).Verdict = v
<1> DEFINE b == Breakdown(vs)
           w == Winner(b)
           n == Len(vs)
           s == IF size <= 0 THEN n ELSE size
           r == Consensus(vs, size)
<1>1. CP!Valid(vs) /\ CP!VerdictStates = Verdicts /\ n \in Nat /\ n > 0
  BY BallotsAreValid DEF CP!VerdictStates, Verdicts, Ballots
<1>2. w \in Verdicts
  <2>1. \A x \in CP!VerdictStates : b[x] \in Nat
    BY <1>1, FloatFacts, CP!AggregateIsNear DEF CP!Masses, Breakdown, Floats
  <2> HIDE DEF b
  <2>2. CP!findWinner(b) \in CP!VerdictStates
    BY <2>1, FloatFacts, CP!WinnerIsHeaviest DEF Floats
  <2> QED
    BY <1>1, <2>2, Zenon DEF Winner
<1>3. /\ r.err = "nil"
      /\ r.Verdict = IF \/ C!belowQuorum(n, s) \/ b["TotalMass"] = 0
                        \/ C!noMajority(b[w], b["TotalMass"])
                     THEN "INDETERMINATE" ELSE w
  BY ConsensusOfBallots, Zenon
<1>4. ASSUME NEW v \in Verdicts, n = size,
             \A i \in 1..n : vs[i].Verdict = v /\ C!adjustedWeight(vs[i]) > 0
      PROVE  r.Verdict = v
  <2>1. \A i \in 1..Len(vs) : vs[i].Verdict = v /\ CP!adjustedWeight(vs[i]) > 0
    BY <1>4, SameOperators, Zenon
  <2>2. b["TotalMass"] \in Nat \ {0} /\ b[v] = b["TotalMass"] /\ w = v
    BY <1>1, <2>1, FloatFacts, CP!UnanimousWins DEF Breakdown, Winner, Floats
  <2>3. s = n
    BY <1>4
  <2> HIDE DEF b, w, s, n, r
  <2>4. ~C!belowQuorum(n, s)
    BY <1>1, <2>3 DEF C!belowQuorum
  <2>5. b["TotalMass"] # 0 /\ ~C!noMajority(b[w], b["TotalMass"])
    BY <2>2 DEF C!noMajority
  <2> QED
    BY <1>3, <2>2, <2>4, <2>5, Zenon
<1>5. "INDETERMINATE" \in Verdicts
  BY DEF Verdicts
<1> HIDE DEF w, b, s
<1> QED
  BY <1>2, <1>3, <1>4, <1>5, Zenon

-----------------------------------------------------------------------------
\* The inductive invariant.

\* A validator of the pool.
IsMember(m, c) ==
    /\ Normalise[c.Domain] # "" => Score(m.record, c.Domain) \in Raised
    /\ m = [record |-> m.record, isColluder |-> m.isColluder, biasDirection |-> m.biasDirection]
    /\ IsRecord(m.record)
    /\ m.isColluder \in BOOLEAN
    /\ m.isColluder => c.CollusionRate > 0
    /\ m.biasDirection \in 0..100

IsPool(p, c) ==
    /\ p = [i \in 0..(c.ValidatorPoolSize - 1) |-> p[i]]
    /\ \A i \in 0..(c.ValidatorPoolSize - 1) : IsMember(p[i], c)

\* A report of n rounds.
ReportFields ==
    {"TotalRounds", "CorrectRounds", "IndeterminateRounds", "VerdictAccuracy", "IndeterminateRate",
     "MeanParticipationRate", "BiasDetectionRate", "BiasedValidatorsDetected",
     "VerdictDistribution", "ReputationConvergence"}

IsReport(rep) == DOMAIN rep = ReportFields /\ rep.VerdictDistribution \in [Verdicts -> Nat]

Counts(rep, n) ==
    LET d == rep.VerdictDistribution
    IN  /\ rep.TotalRounds = n
        /\ d["SUPPORTED"] + d["UNSUPPORTED"] + d["MISLEADING"] + d["INDETERMINATE"] = n
        /\ rep.IndeterminateRounds = d["INDETERMINATE"]
        /\ rep.CorrectRounds \in Nat
        /\ rep.CorrectRounds <= n - rep.IndeterminateRounds

\* Until it is finalised, two of its rates are sums over the rounds.
Totals(rep, n) == rep.MeanParticipationRate = 100 * n /\ rep.BiasDetectionRate \in 0..n

Rates(rep) ==
    {rep.VerdictAccuracy, rep.IndeterminateRate, rep.MeanParticipationRate,
     rep.BiasDetectionRate, rep.ReputationConvergence} \subseteq 0..100

\* Observations of votes that agree with all others of their round.
Agreements ==
    {o \in [ClaimID : {"sim-claim"} \X Nat, ValidatorVerdict : Verdicts,
            PopulationAverageScore : 0..100] :
        B!verdictScore[o.ValidatorVerdict] = o.PopulationAverageScore}

Agreeing(ws) ==
    \A k \in DOMAIN ws : "entries" \in DOMAIN ws[k] /\ ws[k].entries \in Seq(Agreements)

NoWindows == [k \in {} |-> {}]

SInv ==
    /\ cfg \in Configs
    /\ phase \in {"new", "running", "done", "refused", "failed"}
    /\ round \in Nat
    /\ IsReport(report) /\ Counts(report, round)
    /\ phase \in {"new", "refused"} => round = 0 /\ pool = <<>> /\ flagged = {} /\ windows = NoWindows
    /\ phase \notin {"new", "refused"} => Validate(cfg) /\ round <= cfg.Rounds /\ IsPool(pool, cfg)
    /\ phase # "done" => Totals(report, round)
    /\ phase = "done" => Rates(report)
    /\ phase = "failed" => Normalise[cfg.Domain] = "" /\ round = 0
    /\ round > 0 => Normalise[cfg.Domain] # ""
    /\ truths \in [Verdicts -> Nat]
    /\ (\A i \in DOMAIN pool : Honest(i)) =>
           /\ report.CorrectRounds = round - truths["INDETERMINATE"]
           /\ report.IndeterminateRounds = truths["INDETERMINATE"]
           /\ flagged = {}
           /\ Agreeing(windows)
    /\ PoolNearTarget

-----------------------------------------------------------------------------
\* What is proved of core/bias.
BP == INSTANCE BiasProofs WITH
        ValidatorIDs <- {}, DomainNames <- {}, TrimSpace <- Trimmed, Normalise <- NormaliseName,
        Observations <- Agreements, Sizes <- {}, MaxObservations <- 0,
        windowSize <- 50, log <- <<>>

LEMMA VerdictScores == B!verdictScore = BP!verdictScore /\ DOMAIN B!verdictScore = Verdicts
<1>1. B!verdictScore = BP!verdictScore
  BY Zenon DEF B!verdictScore, BP!verdictScore, B!One, BP!One
<1>2. DOMAIN B!verdictScore = Verdicts
  BY Zenon DEF B!verdictScore, Verdicts
<1> QED
  BY <1>1, <1>2

LEMMA VerdictScoreRange ==
    ASSUME NEW v \in Verdicts
    PROVE  B!verdictScore[v] \in 0..100
BY DEF B!verdictScore, Verdicts, B!One

-----------------------------------------------------------------------------
\* The parts of a round.
Truth(x) == generateGroundTruth(x.truth)

Votes(x) ==
    [n \in 1..Len(x.selected) |-> buildVote(x.selected[n], Truth(x), x.confidence[n], x.choice[n])]

Decided(x) == Consensus(Votes(x), cfg.ValidatorSetSize)

OutcomeOf(x, n) ==
    VoteOutcome(Votes(x)[n].ValidatorID, cfg.Domain,
                wasCorrect(Votes(x)[n], Truth(x), Decided(x).Verdict), Votes(x)[n].Confidence)

Obs(x, n) ==
    [ClaimID |-> generateClaimID(round), ValidatorVerdict |-> Votes(x)[n].Verdict,
     PopulationAverageScore |-> computePopulationAverageFromVotes(Votes(x))]

KeyOf(x, n) == B!key(<<Votes(x)[n].ValidatorID>>, NormaliseName(<<cfg.Domain>>))

Observed(x, n) ==
    B!recordIn(windows, <<Votes(x)[n].ValidatorID>>, NormaliseName(<<cfg.Domain>>), Obs(x, n))

Over(x) ==
    {x.selected[n] : n \in {m \in 1..Len(x.selected) : overThreshold(Observed(x, m), x.selected[m])}}

Recorded(x, n) ==
    /\ Trimmed(<<Votes(x)[n].ValidatorID>>) # B!Blank
    /\ NormaliseName(<<cfg.Domain>>) # B!Blank
    /\ B!validateObservation(Obs(x, n))

Fails(x) ==
    \/ Decided(x).err # "nil"
    \/ \E n \in 1..Len(x.selected) : ~ValidOutcome(OutcomeOf(x, n)) \/ ~Recorded(x, n)

PoolAfter(x) ==
    [i \in DOMAIN pool |->
        IF i \in Range(x.selected)
        THEN LET n == CHOOSE m \in 1..Len(x.selected) : x.selected[m] = i
             IN  [pool[i] EXCEPT !.record = RecordAfter(@, OutcomeOf(x, n))]
        ELSE pool[i]]

WindowsAfter(x) ==
    [k \in DOMAIN windows \cup {KeyOf(x, n) : n \in 1..Len(x.selected)} |->
        IF \E n \in 1..Len(x.selected) : KeyOf(x, n) = k
        THEN Observed(x, CHOOSE n \in 1..Len(x.selected) : KeyOf(x, n) = k)[k]
        ELSE windows[k]]

Judged(x) ==
    [consensusVerdict    |-> Decided(x).Verdict,
     correct             |-> Decided(x).Verdict = Truth(x),
     participationRate   |-> (100 * Len(Votes(x))) \div cfg.ValidatorSetSize,
     biasDetectionEvents |-> Cardinality(Over(x))]

LEMMA RoundParts ==
    ASSUME NEW x, simulateRound(x)
    PROVE  /\ phase = "running" /\ round < cfg.Rounds /\ selectValidators(x.selected)
           /\ cfg' = cfg /\ targets' = targets
           /\ \/ /\ Fails(x) /\ phase' = "failed"
                 /\ round' = round /\ pool' = pool /\ windows' = windows /\ report' = report
                 /\ truths' = truths /\ flagged' = flagged
              \/ /\ ~Fails(x) /\ phase' = phase
                 /\ round' = round + 1 /\ pool' = PoolAfter(x) /\ windows' = WindowsAfter(x)
                 /\ report' = accumulate(report, Judged(x))
                 /\ truths' = [truths EXCEPT ![Truth(x)] = @ + 1]
                 /\ flagged' = flagged \cup Over(x)
BY Zenon DEF simulateRound, decision, Truth, Votes, Decided, Consensus, OutcomeOf, Recorded, Obs, KeyOf, Observed, Over,
             Fails, ValidOutcome, PoolAfter, RecordAfter, WindowsAfter, Judged

\* A round that Run may enter: Validate accepted the config, and the selection
\* is of as many validators of the pool as it asks for.
Entered(x) ==
    /\ cfg \in Configs /\ Validate(cfg) /\ IsPool(pool, cfg)
    /\ x \in Draws(cfg) /\ selectValidators(x.selected)

LEMMA SizesOfConfig ==
    ASSUME cfg \in Configs, Validate(cfg)
    PROVE  /\ cfg.ValidatorSetSize \in Nat \ {0} /\ cfg.ValidatorPoolSize \in Nat \ {0}
           /\ cfg.Rounds \in Nat \ {0}
           /\ cfg.CollusionRate \in 0..100 /\ cfg.BiasRate \in 0..100 /\ cfg.BiasStrength \in 0..100
           /\ cfg.CollusionRate > 0 => cfg.CollusionVerdict \in Verdicts
           /\ cfg.Domain # "" /\ cfg.Domain \in DOMAIN Normalise
<1>1. /\ cfg.ValidatorSetSize \in Int /\ cfg.ValidatorPoolSize \in Int /\ cfg.Rounds \in Int
      /\ cfg.Domain # "" => cfg.Domain \in DOMAIN Normalise
  BY ConfigsAssumption
<1>2. \A p, s, n \in Int :
          p >= MinValidatorPoolSize /\ s \in MinValidatorSetSize..p /\ n >= MinRounds =>
              s \in Nat \ {0} /\ p \in Nat \ {0} /\ n \in Nat \ {0}
  BY SMT DEF MinValidatorPoolSize, MinValidatorSetSize, MinRounds
<1>3. /\ cfg.CollusionRate \in 0..100 /\ cfg.BiasRate \in 0..100 /\ cfg.BiasStrength \in 0..100
      /\ cfg.CollusionRate > 0 => cfg.CollusionVerdict \in Verdicts
      /\ cfg.Domain # ""
  BY Zenon DEF Validate
<1>4. /\ cfg.ValidatorSetSize \in Nat \ {0} /\ cfg.ValidatorPoolSize \in Nat \ {0}
      /\ cfg.Rounds \in Nat \ {0}
  BY <1>1, <1>2, Zenon DEF Validate
<1> QED
  BY <1>1, <1>3, <1>4, Zenon

\* The vote of a validator of the pool is valid, and an honest one is the truth.
LEMMA VoteOfMember ==
    ASSUME cfg \in Configs, Validate(cfg), IsPool(pool, cfg),
           NEW i \in 0..(cfg.ValidatorPoolSize - 1),
           NEW truth \in Verdicts, NEW r \in 0..99, NEW flip \in 0..99
    PROVE  /\ C!validateVote(buildVote(i, truth, r, flip))
           /\ buildVote(i, truth, r, flip).ValidatorID = ValidatorID(i)
           /\ buildVote(i, truth, r, flip).Confidence \in 0..100
           /\ Honest(i) => buildVote(i, truth, r, flip).Verdict = truth
           /\ Honest(i) /\ Normalise[cfg.Domain] # "" =>
                  C!adjustedWeight(buildVote(i, truth, r, flip)) > 0
<1> DEFINE v == buildVote(i, truth, r, flip)
           m == pool[i]
<1>1. IsMember(m, cfg) /\ ValidatorID(i) # ""
  BY IdsAssumption DEF IsPool
<1>2. /\ v.ValidatorID = ValidatorID(i)
      /\ v.DomainReputation = Score(m.record, cfg.Domain) \div 100
      /\ v.BiasCoefficient = m.biasDirection
  BY Zenon DEF buildVote, Score
<1>3. \/ v.Confidence = 80 + (r * 20) \div 100
      \/ v.Confidence = 40 + (r * 40) \div 100
      \/ v.Confidence = 40 + (r * 50) \div 100
  BY DEF buildVote
<1>4. \/ v.Verdict = cfg.CollusionVerdict /\ m.isColluder
      \/ v.Verdict = oppositeVerdict(truth) /\ m.biasDirection > 0
      \/ v.Verdict = truth
  BY DEF buildVote
<1> HIDE DEF v, m
<1>5. v.Confidence \in 0..100
  <2>1. /\ 80 + (r * 20) \div 100 \in 0..100
        /\ 40 + (r * 40) \div 100 \in 0..100
        /\ 40 + (r * 50) \div 100 \in 0..100
    OBVIOUS
  <2> QED
    BY ONLY <1>3, <2>1
<1>6. v.Verdict \in Verdicts
  <2>1. m.isColluder => cfg.CollusionVerdict \in Verdicts
    BY <1>1, SizesOfConfig DEF IsMember
  <2>2. oppositeVerdict(truth) \in Verdicts
    BY DEF oppositeVerdict, Verdicts
  <2> QED
    BY <1>4, <2>1, <2>2
<1>7. v.BiasCoefficient \in 0..100
  BY <1>1, <1>2 DEF IsMember
<1>8. v.DomainReputation \in 0..100
  <2>1. Score(m.record, cfg.Domain) \in Scores
    BY <1>1, ScoreRange DEF IsMember
  <2>2. ASSUME NEW s \in Scores PROVE s \div 100 \in 0..100
    <3>1. s \in Int /\ 0 <= s /\ s <= 10000
      BY SMT DEF Scores, R!One
    <3> QED
      BY ONLY <3>1, SMT
  <2> QED
    BY <1>2, <2>1, <2>2
<1>9. C!validateVote(v)
  BY <1>1, <1>2, <1>5, <1>6, <1>7, <1>8 DEF C!validateVote, C!VerdictStates, Verdicts
<1>10. Honest(i) => v.Verdict = truth
  <2>1. Honest(i) => ~m.isColluder /\ ~(m.biasDirection > 0)
    BY DEF Honest, m
  <2> QED
    BY <2>1 DEF buildVote, v, m
<1>11. ASSUME Honest(i), Normalise[cfg.Domain] # "" PROVE C!adjustedWeight(v) > 0
  <2>1. v.Confidence >= 40 /\ v.Confidence \in Nat
    <3>1. /\ 80 + (r * 20) \div 100 >= 40 /\ 40 + (r * 40) \div 100 >= 40
          /\ 40 + (r * 50) \div 100 >= 40
      OBVIOUS
    <3>2. v.Confidence >= 40
      BY ONLY <1>3, <3>1
    <3> QED
      BY <1>5, <3>2
  <2>2. v.DomainReputation >= 15 /\ v.DomainReputation \in Nat
    <3>1. Score(m.record, cfg.Domain) \in Raised
      BY <1>1, <1>11 DEF IsMember
    <3>2. ASSUME NEW s \in Raised PROVE s \div 100 >= 15 /\ s \div 100 \in Nat
      <4>1. s \in Int /\ 1500 <= s
        BY ONLY s \in Raised, SMT
           DEF Raised, R!ReputationFloor, R!ReputationCeiling, R!EligibilityThreshold, R!One
      <4> QED
        BY ONLY <4>1, SMT
    <3> QED
      BY <1>2, <3>1, <3>2, Zenon
  <2>3. v.BiasCoefficient = 0
    BY <1>2, <1>11 DEF Honest, m
  <2>4. PICK a, b \in Nat : a = v.Confidence /\ b = v.DomainReputation
    BY <2>1, <2>2
  <2>5. C!adjustedWeight(v) = (a * b) * (100 - 0)
    BY <2>3, <2>4, Zenon DEF C!adjustedWeight
  <2>6. a * b >= 40 * 15
    <3>1. a * b >= 40 * b /\ 40 * b >= 40 * 15
      BY <2>1, <2>2, <2>4
    <3> QED
      BY <2>4, <3>1
  <2> QED
    BY <2>5, <2>6
<1> QED
  BY <1>2, <1>5, <1>9, <1>10, <1>11 DEF v

LEMMA RoundVotes ==
    ASSUME NEW x, Entered(x)
    PROVE  /\ cfg.ValidatorSetSize \in Nat \ {0}
           /\ Len(x.selected) = cfg.ValidatorSetSize /\ Len(Votes(x)) = cfg.ValidatorSetSize
           /\ Truth(x) \in Verdicts
           /\ \A n \in 1..cfg.ValidatorSetSize :
                  /\ x.selected[n] \in 0..(cfg.ValidatorPoolSize - 1)
                  /\ C!validateVote(Votes(x)[n])
                  /\ Votes(x)[n].ValidatorID = ValidatorID(x.selected[n])
                  /\ Votes(x)[n].Confidence \in 0..100
                  /\ Honest(x.selected[n]) => Votes(x)[n].Verdict = Truth(x)
                  /\ Honest(x.selected[n]) /\ Normalise[cfg.Domain] # "" =>
                         C!adjustedWeight(Votes(x)[n]) > 0
<1> DEFINE size == cfg.ValidatorSetSize
<1>1. size \in Nat \ {0} /\ Len(x.selected) = size
  BY SizesOfConfig DEF Entered, selectValidators
<1>2. Truth(x) \in Verdicts
  BY DEF Truth, generateGroundTruth, Verdicts
<1>3. Len(Votes(x)) = size
  BY <1>1 DEF Votes
<1>4. ASSUME NEW n \in 1..size
      PROVE  /\ x.selected[n] \in 0..(cfg.ValidatorPoolSize - 1)
             /\ x.confidence[n] \in 0..99 /\ x.choice[n] \in 0..99
             /\ Votes(x)[n] = buildVote(x.selected[n], Truth(x), x.confidence[n], x.choice[n])
  <2>1. /\ x.selected \in Seq(Nat)
        /\ \A m \in 1..Len(x.selected) : x.confidence[m] \in 0..99 /\ x.choice[m] \in 0..99
    BY DrawsAssumption DEF Entered
  <2>2. Range(x.selected) \subseteq DOMAIN pool /\ DOMAIN pool = 0..(cfg.ValidatorPoolSize - 1)
    BY Zenon DEF Entered, selectValidators, IsPool
  <2>3. n \in DOMAIN x.selected
    BY <1>1, <2>1
  <2>4. x.selected[n] \in Range(x.selected)
    BY <2>3, Zenon DEF Range
  <2>5. Votes(x)[n] = buildVote(x.selected[n], Truth(x), x.confidence[n], x.choice[n])
    BY <1>1, Zenon DEF Votes
  <2> QED
    BY <1>1, <2>1, <2>2, <2>4, <2>5
<1>5. ASSUME NEW n \in 1..size
      PROVE  /\ C!validateVote(Votes(x)[n])
             /\ Votes(x)[n].ValidatorID = ValidatorID(x.selected[n])
             /\ Votes(x)[n].Confidence \in 0..100
             /\ Honest(x.selected[n]) => Votes(x)[n].Verdict = Truth(x)
             /\ Honest(x.selected[n]) /\ Normalise[cfg.Domain] # "" =>
                    C!adjustedWeight(Votes(x)[n]) > 0
  <2>1. PICK i, r, flip : i = x.selected[n] /\ r = x.confidence[n] /\ flip = x.choice[n]
    OBVIOUS
  <2>2. /\ i \in 0..(cfg.ValidatorPoolSize - 1) /\ r \in 0..99 /\ flip \in 0..99
        /\ Votes(x)[n] = buildVote(i, Truth(x), r, flip)
    BY <1>4, <2>1
  <2>3. cfg \in Configs /\ Validate(cfg) /\ IsPool(pool, cfg)
    BY DEF Entered
  <2>4. /\ C!validateVote(buildVote(i, Truth(x), r, flip))
        /\ buildVote(i, Truth(x), r, flip).ValidatorID = ValidatorID(i)
        /\ buildVote(i, Truth(x), r, flip).Confidence \in 0..100
        /\ Honest(i) => buildVote(i, Truth(x), r, flip).Verdict = Truth(x)
        /\ Honest(i) /\ Normalise[cfg.Domain] # "" =>
               C!adjustedWeight(buildVote(i, Truth(x), r, flip)) > 0
    BY <1>2, <2>2, <2>3, VoteOfMember
  <2> QED
    BY <2>1, <2>2, <2>4
<1> QED
  BY <1>1, <1>2, <1>3, <1>4, <1>5, Zenon

LEMMA RoundBallots ==
    ASSUME NEW x, Entered(x)
    PROVE  /\ Ballots(Votes(x))
           /\ Decided(x).err = "nil"
           /\ Decided(x).Verdict \in Verdicts
           /\ (\A i \in DOMAIN pool : Honest(i)) /\ Normalise[cfg.Domain] # "" =>
                  Decided(x).Verdict = Truth(x)
<1>1. Ballots(Votes(x))
  BY RoundVotes, Zenon DEF Ballots
<1>2. ASSUME \A i \in DOMAIN pool : Honest(i), Normalise[cfg.Domain] # ""
      PROVE  \A n \in 1..Len(Votes(x)) :
                 Votes(x)[n].Verdict = Truth(x) /\ C!adjustedWeight(Votes(x)[n]) > 0
  <2>1. DOMAIN pool = 0..(cfg.ValidatorPoolSize - 1)
    BY Zenon DEF Entered, IsPool
  <2> QED
    BY <1>2, <2>1, RoundVotes, Zenon
<1>3. PICK vs, size, v : vs = Votes(x) /\ size = cfg.ValidatorSetSize /\ v = Truth(x)
  OBVIOUS
<1>4. Len(vs) = size /\ v \in Verdicts /\ Ballots(vs)
  BY <1>1, <1>3, RoundVotes, Zenon
<1>5. /\ Consensus(vs, size).err = "nil" /\ Consensus(vs, size).Verdict \in Verdicts
      /\ (\A i \in 1..Len(vs) : vs[i].Verdict = v /\ C!adjustedWeight(vs[i]) > 0) =>
             Consensus(vs, size).Verdict = v
  BY <1>4, RoundVerdict, Zenon
<1> QED
  BY <1>1, <1>2, <1>3, <1>5, Zenon DEF Decided

\* The outcomes of a round are accepted by core/reputation unless the domain is
\* blank.
LEMMA RoundOutcomes ==
    ASSUME NEW x, Entered(x), NEW n \in 1..cfg.ValidatorSetSize
    PROVE  ValidOutcome(OutcomeOf(x, n)) <=> Normalise[cfg.Domain] # ""
<1> DEFINE o == OutcomeOf(x, n)
           v == Votes(x)[n]
<1>1. o.ValidatorID = v.ValidatorID /\ o.Domain = cfg.Domain /\ o.Confidence = 100 * v.Confidence
  BY DEF OutcomeOf, VoteOutcome
<1>2. v.ValidatorID # "" /\ v.Confidence \in 0..100
  <2>1. C!validateVote(v) /\ v.Confidence \in 0..100
    BY RoundVotes
  <2> QED
    BY <2>1, Zenon DEF C!validateVote
<1> HIDE DEF o, v
<1>3. o.Confidence \in 0..R!One
  <2>1. \A k \in 0..100 : 100 * k \in 0..R!One
    BY SMT DEF R!One
  <2> QED
    BY <1>1, <1>2, <2>1, Zenon
<1> QED
  BY <1>1, <1>2, <1>3, Zenon DEF ValidOutcome, R!validateOutcome, o

\* The average of the votes of a round is a score.
LEMMA RoundAverage ==
    ASSUME NEW vs, Ballots(vs)
    PROVE  computePopulationAverageFromVotes(vs) \in 0..100
<1> DEFINE m == Len(vs)
           I == 1..m
           f == [n \in I |-> B!verdictScore[vs[n].Verdict]]
<1>1. m \in Nat \ {0} /\ vs # <<>>
  BY DEF Ballots
<1>2. ASSUME NEW n \in I PROVE f[n] \in 0..100
  <2>1. C!validateVote(vs[n])
    BY DEF Ballots
  <2>2. vs[n].Verdict \in Verdicts
    BY <2>1, Zenon DEF C!validateVote, C!VerdictStates, Verdicts
  <2> QED
    BY <2>2, VerdictScoreRange, Zenon
<1>3. computePopulationAverageFromVotes(vs) = SumFunctionOnSet(f, I) \div m
  BY <1>1, Zenon DEF computePopulationAverageFromVotes, SumFunction
<1> HIDE DEF f
<1>4. IsFiniteSet(I) /\ Cardinality(I) = m /\ 1 \in I
  BY <1>1, IntervalGrows
<1> HIDE DEF I, m
<1>5. \A n \in I : f[n] \in Int /\ 0 <= f[n] /\ f[n] <= 100
  BY <1>2
<1>6. Summable(f, I) /\ I # {}
  BY <1>4, <1>5 DEF Summable
<1>7. SumFunctionOnSet(f, I) \div Cardinality(I) \in 0..100
  <2>1. PICK lo, hi \in Int : lo = 0 /\ hi = 100
    OBVIOUS
  <2>2. \A n \in I : lo <= f[n] /\ f[n] <= hi
    BY <1>5, <2>1, Zenon
  <2>3. SumFunctionOnSet(f, I) \div Cardinality(I) \in lo..hi
    BY <1>6, <2>2, MeanBounds, Zenon
  <2> QED
    BY <2>1, <2>3, Zenon
<1> QED
  BY <1>3, <1>4, <1>7

\* Its observations are accepted by core/bias, too.
LEMMA RoundObservations ==
    ASSUME NEW x, Entered(x), NEW n \in 1..cfg.ValidatorSetSize, Normalise[cfg.Domain] # ""
    PROVE  Recorded(x, n)
<1> DEFINE v == Votes(x)[n]
           o == Obs(x, n)
<1>1. C!validateVote(v)
  BY RoundVotes
<1>2. v.ValidatorID # "" /\ v.Verdict \in Verdicts
  BY <1>1, Zenon DEF C!validateVote, C!VerdictStates, Verdicts
<1>3. /\ o.ClaimID = <<"sim-claim", round>> /\ o.ValidatorVerdict = v.Verdict
      /\ o.PopulationAverageScore = computePopulationAverageFromVotes(Votes(x))
  BY DEF Obs, generateClaimID
<1>4. o.PopulationAverageScore \in 0..100
  BY <1>3, RoundBallots, RoundAverage, Zenon
<1> HIDE DEF v, o
<1>5. /\ <<"sim-claim", round>> # <<"">> /\ <<v.ValidatorID>> # <<"">>
      /\ <<Normalise[cfg.Domain]>> # <<"">>
  <2>1. \A a, b : <<a>> = <<b>> => a = b
    OBVIOUS
  <2>2. \A a, b, c : <<a, b>> = <<c>> => a = c
    <3>1. \A a, b, c : <<a, b>>[1] = a /\ <<c>>[1] = c
      OBVIOUS
    <3> QED
      BY <3>1, Zenon
  <2>3. "sim-claim" # ""
    OBVIOUS
  <2> QED
    BY <1>2, <2>1, <2>2, <2>3, Zenon
<1>6. B!validateObservation(o)
  <2>1. B!One = 100 /\ o.ClaimID # B!Blank /\ o.ValidatorVerdict \in DOMAIN B!verdictScore
    BY <1>2, <1>3, <1>5, VerdictScores, Zenon DEF B!One, B!Blank
  <2> QED
    BY <1>4, <2>1, Zenon DEF B!validateObservation, Trimmed
<1> QED
  BY <1>5, <1>6, Zenon DEF Recorded, v, o, Trimmed, NormaliseName, B!Blank

LEMMA RoundFails ==
    ASSUME NEW x, Entered(x)
    PROVE  Fails(x) <=> Normalise[cfg.Domain] = ""
<1>1. 1 \in 1..cfg.ValidatorSetSize /\ Len(x.selected) = cfg.ValidatorSetSize
  <2>1. cfg.ValidatorSetSize \in Nat \ {0} /\ Len(x.selected) = cfg.ValidatorSetSize
    BY RoundVotes, Zenon
  <2> QED
    BY <2>1
<1>2. Decided(x).err = "nil"
  BY RoundBallots
<1> QED
  BY <1>1, <1>2, RoundOutcomes, RoundObservations, Zenon DEF Fails

\* What a round does to a validator of the pool.
LEMMA MemberAfter ==
    ASSUME NEW x, Entered(x), ~Fails(x), NEW i \in 0..(cfg.ValidatorPoolSize - 1)
    PROVE  /\ IsMember(PoolAfter(x)[i], cfg)
           /\ PoolAfter(x)[i].isColluder = pool[i].isColluder
           /\ PoolAfter(x)[i].biasDirection = pool[i].biasDirection
           /\ Honest(i) => Score(PoolAfter(x)[i].record, cfg.Domain) >= Score(pool[i].record, cfg.Domain)
<1> DEFINE a == PoolAfter(x)[i]
           m == pool[i]
           S(r) == Score(r, cfg.Domain)
<1>1. IsMember(m, cfg) /\ i \in DOMAIN pool
  BY Zenon DEF Entered, IsPool
<1>2. IsRecord(m.record) /\ S(m.record) \in Scores
  BY <1>1, ScoreRange DEF IsMember
<1>3. CASE i \notin Range(x.selected)
  <2>1. a = m
    BY <1>1, <1>3, Zenon DEF PoolAfter
  <2>2. S(m.record) >= S(m.record)
    <3>1. \A s \in Scores : s >= s
      BY ScoreFacts
    <3> QED
      BY <1>2, <3>1
  <2> QED
    BY <1>1, <2>1, <2>2
<1>4. CASE i \in Range(x.selected)
  <2>1. Len(x.selected) = cfg.ValidatorSetSize /\ DOMAIN x.selected = 1..cfg.ValidatorSetSize
    <3>1. x.selected \in Seq(Nat)
      BY DrawsAssumption DEF Entered
    <3>2. Len(x.selected) = cfg.ValidatorSetSize
      BY RoundVotes, Zenon
    <3> QED
      BY <3>1, <3>2
  <2> DEFINE n == CHOOSE k \in 1..Len(x.selected) : x.selected[k] = i
             o == OutcomeOf(x, n)
             ok == wasCorrect(Votes(x)[n], Truth(x), Decided(x).Verdict)
             after == ScoreAfter(S(m.record), o)
  <2>2. n \in 1..cfg.ValidatorSetSize /\ x.selected[n] = i
    <3>1. \E k \in 1..Len(x.selected) : x.selected[k] = i
      BY <1>4, <2>1, Zenon DEF Range
    <3> QED
      BY <2>1, <3>1
  <2>3. a = [m EXCEPT !.record = RecordAfter(m.record, o)]
    BY <1>1, <1>4, Zenon DEF PoolAfter
  <2> HIDE DEF n
  <2>4. o = VoteOutcome(Votes(x)[n].ValidatorID, cfg.Domain, ok, Votes(x)[n].Confidence) /\ ok \in BOOLEAN
    BY DEF OutcomeOf, wasCorrect
  <2>5. o.Domain = cfg.Domain
    BY DEF OutcomeOf, VoteOutcome
  <2>6. Named(cfg.Domain)
    BY RoundFails, SizesOfConfig DEF Entered, Named
  <2> HIDE DEF o
  <2>7. after \in Raised /\ (ok => after >= S(m.record))
    <3> HIDE DEF ok, S
    <3> QED
      BY <1>2, <2>4, ScoreAfterVote
  <2>8. IsRecord(RecordAfter(m.record, o)) /\ S(RecordAfter(m.record, o)) = after
    <3>1. IsRecord(m.record) /\ Named(o.Domain) /\ after = ScoreAfter(Score(m.record, o.Domain), o)
      BY <1>2, <2>5, <2>6, Zenon
    <3> HIDE DEF after
    <3> QED
      BY <2>5, <2>7, <3>1, UpdateOfRecord
  <2>9. Honest(i) => ok
    BY <2>2, RoundVotes, Zenon DEF wasCorrect
  <2> HIDE DEF a, m, ok, after, S
  <2>10. a = [record |-> RecordAfter(m.record, o), isColluder |-> m.isColluder,
              biasDirection |-> m.biasDirection]
    BY <1>1, <2>3 DEF IsMember
  <2>11. /\ a.record = RecordAfter(m.record, o) /\ a.isColluder = m.isColluder
         /\ a.biasDirection = m.biasDirection
    BY <2>10
  <2>12. IsMember(a, cfg)
    <3>1. /\ m.isColluder \in BOOLEAN /\ (m.isColluder => cfg.CollusionRate > 0)
          /\ m.biasDirection \in 0..100
      BY <1>1, Zenon DEF IsMember
    <3>2. Score(a.record, cfg.Domain) \in Raised
      BY <2>7, <2>8, <2>11, Zenon DEF S
    <3>3. a = [record |-> a.record, isColluder |-> a.isColluder, biasDirection |-> a.biasDirection]
      BY <2>10, <2>11, Zenon
    <3> QED
      BY <2>8, <2>11, <3>1, <3>2, <3>3, Zenon DEF IsMember
  <2>13. Honest(i) => S(a.record) >= S(m.record)
    BY <2>7, <2>8, <2>9, <2>11, Zenon
  <2> QED
    BY <2>11, <2>12, <2>13 DEF a, m, S
<1> QED
  BY <1>3, <1>4

-----------------------------------------------------------------------------
\* One more round in the report.
LEMMA AccumulatedFields ==
    ASSUME NEW rep, DOMAIN rep = ReportFields, NEW res
    PROVE  LET a == accumulate(rep, res)
               undecided == res.consensusVerdict = "INDETERMINATE"
           IN  /\ DOMAIN a = ReportFields
               /\ a.TotalRounds = rep.TotalRounds + 1
               /\ a.VerdictDistribution = [rep.VerdictDistribution EXCEPT ![res.consensusVerdict] = @ + 1]
               /\ a.IndeterminateRounds = IF undecided THEN rep.IndeterminateRounds + 1
                                          ELSE rep.IndeterminateRounds
               /\ a.CorrectRounds = IF ~undecided /\ res.correct THEN rep.CorrectRounds + 1
                                    ELSE rep.CorrectRounds
               /\ a.MeanParticipationRate = rep.MeanParticipationRate + res.participationRate
               /\ a.BiasDetectionRate = IF res.biasDetectionEvents > 0 THEN rep.BiasDetectionRate + 1
                                        ELSE rep.BiasDetectionRate
<1> DEFINE t == rep.TotalRounds + 1
           c == IF ~(res.consensusVerdict = "INDETERMINATE") /\ res.correct
                THEN rep.CorrectRounds + 1 ELSE rep.CorrectRounds
           i == IF res.consensusVerdict = "INDETERMINATE"
                THEN rep.IndeterminateRounds + 1 ELSE rep.IndeterminateRounds
           p == rep.MeanParticipationRate + res.participationRate
           b == IF res.biasDetectionEvents > 0 THEN rep.BiasDetectionRate + 1 ELSE rep.BiasDetectionRate
           d == [rep.VerdictDistribution EXCEPT ![res.consensusVerdict] = @ + 1]
           a == accumulate(rep, res)
<1>1. a = [rep EXCEPT !.TotalRounds = t, !.VerdictDistribution = d, !.IndeterminateRounds = i,
                      !.CorrectRounds = c, !.MeanParticipationRate = p, !.BiasDetectionRate = b]
  BY DEF accumulate, ReportFields
<1> HIDE DEF t, c, i, p, b, d, a
<1>2. DOMAIN a = ReportFields
  BY <1>1
<1>3. a.TotalRounds = t /\ a.VerdictDistribution = d /\ a.IndeterminateRounds = i
      /\ a.CorrectRounds = c /\ a.MeanParticipationRate = p /\ a.BiasDetectionRate = b
  BY <1>1 DEF ReportFields
<1> QED
  BY <1>2, <1>3 DEF t, c, i, p, b, d, a

LEMMA Accumulated ==
    ASSUME NEW rep, IsReport(rep), NEW n \in Nat, Counts(rep, n), Totals(rep, n), NEW res,
           res.consensusVerdict \in Verdicts, res.correct \in BOOLEAN, res.participationRate = 100
    PROVE  /\ IsReport(accumulate(rep, res))
           /\ Counts(accumulate(rep, res), n + 1)
           /\ Totals(accumulate(rep, res), n + 1)
           /\ accumulate(rep, res).CorrectRounds =
                  IF res.consensusVerdict # "INDETERMINATE" /\ res.correct
                  THEN rep.CorrectRounds + 1 ELSE rep.CorrectRounds
           /\ accumulate(rep, res).IndeterminateRounds =
                  IF res.consensusVerdict = "INDETERMINATE"
                  THEN rep.IndeterminateRounds + 1 ELSE rep.IndeterminateRounds
<1> DEFINE a == accumulate(rep, res)
           v == res.consensusVerdict
           d == rep.VerdictDistribution
           e == a.VerdictDistribution
<1>1. /\ DOMAIN a = ReportFields
      /\ a.TotalRounds = rep.TotalRounds + 1
      /\ e = [d EXCEPT ![v] = @ + 1]
      /\ a.IndeterminateRounds = IF v = "INDETERMINATE" THEN rep.IndeterminateRounds + 1
                                 ELSE rep.IndeterminateRounds
      /\ a.CorrectRounds = IF v # "INDETERMINATE" /\ res.correct THEN rep.CorrectRounds + 1
                           ELSE rep.CorrectRounds
      /\ a.MeanParticipationRate = rep.MeanParticipationRate + 100
      /\ a.BiasDetectionRate = IF res.biasDetectionEvents > 0 THEN rep.BiasDetectionRate + 1
                               ELSE rep.BiasDetectionRate
  <2>1. DOMAIN rep = ReportFields
    BY DEF IsReport
  <2> QED
    BY <2>1, AccumulatedFields
<1> HIDE DEF a
<1>2. d \in [Verdicts -> Nat] /\ v \in Verdicts
  BY DEF IsReport
<1> HIDE DEF v, d, e
<1>3. /\ e \in [Verdicts -> Nat]
      /\ \A w \in Verdicts : e[w] = IF w = v THEN d[w] + 1 ELSE d[w]
  BY <1>1, <1>2
<1>4. /\ d["SUPPORTED"] \in Nat /\ d["UNSUPPORTED"] \in Nat
      /\ d["MISLEADING"] \in Nat /\ d["INDETERMINATE"] \in Nat
  BY <1>2 DEF Verdicts
<1>5. /\ rep.TotalRounds = n
      /\ d["SUPPORTED"] + d["UNSUPPORTED"] + d["MISLEADING"] + d["INDETERMINATE"] = n
      /\ rep.IndeterminateRounds = d["INDETERMINATE"]
      /\ rep.CorrectRounds \in Nat
      /\ rep.CorrectRounds <= n - rep.IndeterminateRounds
  BY DEF Counts, d
<1>6. IsReport(a)
  BY <1>1, <1>3 DEF IsReport, e
<1>7. e["SUPPORTED"] + e["UNSUPPORTED"] + e["MISLEADING"] + e["INDETERMINATE"] = n + 1
  <2>1. v \in {"SUPPORTED", "UNSUPPORTED", "MISLEADING", "INDETERMINATE"}
    BY <1>2 DEF Verdicts
  <2>2. /\ e["SUPPORTED"] = IF v = "SUPPORTED" THEN d["SUPPORTED"] + 1 ELSE d["SUPPORTED"]
        /\ e["UNSUPPORTED"] = IF v = "UNSUPPORTED" THEN d["UNSUPPORTED"] + 1 ELSE d["UNSUPPORTED"]
        /\ e["MISLEADING"] = IF v = "MISLEADING" THEN d["MISLEADING"] + 1 ELSE d["MISLEADING"]
        /\ e["INDETERMINATE"] = IF v = "INDETERMINATE" THEN d["INDETERMINATE"] + 1
                                ELSE d["INDETERMINATE"]
    BY <1>3 DEF Verdicts
  <2> QED
    BY ONLY <1>4, <1>5, <2>1, <2>2
<1>8. e["INDETERMINATE"] = IF v = "INDETERMINATE" THEN d["INDETERMINATE"] + 1 ELSE d["INDETERMINATE"]
  BY <1>3 DEF Verdicts
<1>9. /\ a.TotalRounds = n + 1
      /\ a.IndeterminateRounds = e["INDETERMINATE"]
      /\ a.CorrectRounds \in Nat
      /\ a.CorrectRounds <= (n + 1) - a.IndeterminateRounds
  <2>1. CASE v = "INDETERMINATE"
    BY <1>1, <1>4, <1>5, <1>8, <2>1
  <2>2. CASE v # "INDETERMINATE"
    BY <1>1, <1>4, <1>5, <1>8, <2>2
  <2> QED
    BY <2>1, <2>2
<1>10. Counts(a, n + 1)
  BY <1>7, <1>9 DEF Counts, e
<1>11. Totals(a, n + 1)
  <2>1. rep.MeanParticipationRate = 100 * n /\ rep.BiasDetectionRate \in 0..n
    BY DEF Totals
  <2>2. a.MeanParticipationRate = 100 * (n + 1)
    BY <1>1, <2>1
  <2>3. a.BiasDetectionRate \in 0..(n + 1)
    BY <1>1, <2>1
  <2> QED
    BY <2>2, <2>3 DEF Totals
<1> QED
  BY <1>1, <1>6, <1>10, <1>11, Zenon DEF a, v

\* The rates that finalise computes are percentages.
LEMMA Finalised ==
    ASSUME NEW rep, IsReport(rep), NEW n \in Nat \ {0}, Counts(rep, n), Totals(rep, n),
           cfg \in Configs, Validate(cfg), IsPool(pool, cfg)
    PROVE  /\ IsReport(finalise(rep)) /\ Counts(finalise(rep), n)
           /\ finalise(rep).CorrectRounds = rep.CorrectRounds
           /\ finalise(rep).IndeterminateRounds = rep.IndeterminateRounds
           /\ Rates(finalise(rep))
<1> DEFINE f == finalise(rep)
           decided == n - rep.IndeterminateRounds
           S == [i \in DOMAIN pool |-> R!DomainScore(pool[i].record, cfg.Domain)]
           size == Cardinality(DOMAIN pool)
           mean == SumFunction(S) \div size
           mp == rep.MeanParticipationRate \div n
           bd == (100 * rep.BiasDetectionRate) \div n
           va == IF decided > 0 THEN (100 * rep.CorrectRounds) \div decided ELSE 0
           ir == (100 * rep.IndeterminateRounds) \div n
           rc == mean \div 100
           bv == countBiasedValidators
<1>1. rep.TotalRounds = n /\ n # 0 /\ DOMAIN rep = ReportFields
  BY DEF Counts, IsReport
<1>2. f = [rep EXCEPT !.MeanParticipationRate = mp, !.BiasDetectionRate = bd,
                      !.VerdictAccuracy = va, !.IndeterminateRate = ir,
                      !.ReputationConvergence = rc, !.BiasedValidatorsDetected = bv]
  BY <1>1 DEF finalise, ReportFields
<1> HIDE DEF f, mp, bd, va, ir, rc, bv
<1>3. /\ DOMAIN f = ReportFields
      /\ f.MeanParticipationRate = mp /\ f.BiasDetectionRate = bd /\ f.VerdictAccuracy = va
      /\ f.IndeterminateRate = ir /\ f.ReputationConvergence = rc
      /\ f.TotalRounds = rep.TotalRounds /\ f.VerdictDistribution = rep.VerdictDistribution
      /\ f.IndeterminateRounds = rep.IndeterminateRounds /\ f.CorrectRounds = rep.CorrectRounds
  BY <1>1, <1>2 DEF ReportFields
<1>4. IsReport(f)
  BY <1>3 DEF IsReport
<1>5. Counts(f, n)
  BY <1>3, Zenon DEF Counts
<1>6. rep.IndeterminateRounds \in Nat /\ rep.CorrectRounds \in Nat /\ rep.CorrectRounds <= decided
  <2>1. rep.VerdictDistribution["INDETERMINATE"] \in Nat
    BY DEF IsReport, Verdicts
  <2> QED
    BY <2>1 DEF Counts
<1>7. rep.IndeterminateRounds <= n
  BY <1>6
<1>8. mp \in 0..100 /\ bd \in 0..100
  <2>1. rep.MeanParticipationRate = 100 * n /\ rep.BiasDetectionRate \in 0..n
    BY DEF Totals
  <2>2. /\ 0 * n <= 100 * n /\ 100 * n <= 100 * n /\ 100 * n \in Int
        /\ 0 * n <= 100 * rep.BiasDetectionRate /\ 100 * rep.BiasDetectionRate <= 100 * n
        /\ 100 * rep.BiasDetectionRate \in Int
    BY <2>1
  <2>3. (100 * n) \div n \in 0..100
    BY <2>2, QuotientBounds
  <2>4. (100 * rep.BiasDetectionRate) \div n \in 0..100
    BY <2>2, QuotientBounds
  <2> QED
    BY <2>1, <2>3, <2>4 DEF mp, bd
<1>9. ir \in 0..100
  <2>1. /\ 0 * n <= 100 * rep.IndeterminateRounds /\ 100 * rep.IndeterminateRounds <= 100 * n
        /\ 100 * rep.IndeterminateRounds \in Int
    BY <1>6, <1>7
  <2> QED
    BY <2>1, QuotientBounds DEF ir
<1>10. va \in 0..100
  <2>1. CASE decided > 0
    <3>1. decided \in Nat \ {0}
      BY <1>6, <2>1
    <3> HIDE DEF decided
    <3>2. /\ 0 * decided <= 100 * rep.CorrectRounds /\ 100 * rep.CorrectRounds <= 100 * decided
          /\ 100 * rep.CorrectRounds \in Int
      BY <1>6, <3>1
    <3>3. (100 * rep.CorrectRounds) \div decided \in 0..100
      BY <3>1, <3>2, QuotientBounds
    <3> QED
      BY <2>1, <3>3 DEF va
  <2>2. CASE ~(decided > 0)
    BY <2>2 DEF va
  <2> QED
    BY <2>1, <2>2
<1>11. rc \in 0..100
  <2>1. /\ DOMAIN pool = 0..(cfg.ValidatorPoolSize - 1) /\ cfg.ValidatorPoolSize \in Nat \ {0}
        /\ \A i \in DOMAIN pool : IsMember(pool[i], cfg)
    <3>1. DOMAIN pool = 0..(cfg.ValidatorPoolSize - 1) /\ \A i \in DOMAIN pool : IsMember(pool[i], cfg)
      BY Zenon DEF IsPool
    <3> QED
      BY <3>1, SizesOfConfig
  <2>2. IsFiniteSet(DOMAIN pool) /\ DOMAIN pool # {}
    <3>1. IsFiniteSet(0..(cfg.ValidatorPoolSize - 1)) /\ 0 \in 0..(cfg.ValidatorPoolSize - 1)
      <4>1. \A k \in Nat \ {0} : k - 1 \in Int /\ 0 \in 0..(k - 1)
        OBVIOUS
      <4>2. cfg.ValidatorPoolSize - 1 \in Int /\ 0 \in 0..(cfg.ValidatorPoolSize - 1)
        BY <2>1, <4>1
      <4> QED
        BY <4>2, FS_Interval
    <3> QED
      BY <2>1, <3>1
  <2> DEFINE D == DOMAIN pool
             hi == R!One
  <2>3. \A i \in D : S[i] \in Scores
    BY <2>1, ScoreRange DEF Score, IsMember
  <2>4. hi \in Int /\ 0 \in Int /\ \A s \in Scores : s \in Int /\ 0 <= s /\ s <= hi
    BY SMT DEF Scores, R!One
  <2>5. SumFunction(S) = SumFunctionOnSet(S, D)
    BY DEF SumFunction
  <2> HIDE DEF S, D, hi
  <2>6. Summable(S, D) /\ D # {} /\ \A i \in D : 0 <= S[i] /\ S[i] <= hi
    BY <2>2, <2>3, <2>4 DEF Summable, D
  <2>7. SumFunctionOnSet(S, D) \div Cardinality(D) \in 0..hi
    BY ONLY <2>4, <2>6, MeanBounds
  <2>8. \A s \in 0..hi : s \div 100 \in 0..100
    <3>1. hi = 10000
      BY SMT DEF hi, R!One
    <3> QED
      BY ONLY <3>1, SMT
  <2> QED
    BY <2>5, <2>7, <2>8 DEF rc, D
<1>12. Rates(f)
  BY <1>3, <1>8, <1>9, <1>10, <1>11 DEF Rates
<1> QED
  BY <1>3, <1>4, <1>5, <1>12 DEF f

-----------------------------------------------------------------------------
LEMMA SameBias == \A w : B!ComputeBias(w) = BP!ComputeBias(w)
BY Zenon DEF B!ComputeBias, BP!ComputeBias, B!BiasResult, BP!BiasResult, B!classifyTier, BP!classifyTier,
             B!deviation, BP!deviation, B!verdictScore, BP!verdictScore, B!One, BP!One,
             B!BiasExclusionThreshold, BP!BiasExclusionThreshold, B!BiasHighThreshold,
             BP!BiasHighThreshold, B!BiasModerateThreshold, BP!BiasModerateThreshold,
             B!MinObservationsForBias, BP!MinObservationsForBias

\* core/bias accepts these observations, and they do not deviate.
LEMMA AgreementIsValid ==
    ASSUME NEW o \in Agreements
    PROVE  BP!validateObservation(o) /\ B!validateObservation(o) /\ BP!deviation(o) = 0
<1> DEFINE p == o.PopulationAverageScore
<1>1. /\ o.ClaimID \in {"sim-claim"} \X Nat /\ o.ValidatorVerdict \in Verdicts /\ p \in 0..100
      /\ B!verdictScore[o.ValidatorVerdict] = p
  BY DEF Agreements
<1> HIDE DEF p
<1>2. o.ClaimID # <<"">>
  <2>1. PICK k \in Nat : o.ClaimID = <<"sim-claim", k>>
    BY ONLY <1>1
  <2>2. <<"sim-claim", k>> # <<"">>
    <3>1. "sim-claim" # ""
      OBVIOUS
    <3>2. <<"sim-claim", k>>[1] = "sim-claim" /\ <<"">>[1] = ""
      OBVIOUS
    <3> QED
      BY <3>1, <3>2, Zenon
  <2> QED
    BY <2>1, <2>2, Zenon
<1>3. BP!verdictScore[o.ValidatorVerdict] = p /\ DOMAIN BP!verdictScore = Verdicts
  BY <1>1, VerdictScores
<1>4. BP!validateObservation(o) /\ B!validateObservation(o)
  <2>1. BP!One = 100 /\ B!One = 100
    BY DEF BP!One, B!One
  <2> QED
    BY <1>1, <1>2, <1>3, <2>1, VerdictScores
       DEF BP!validateObservation, B!validateObservation, Trimmed, BP!Blank, B!Blank, p
<1>5. BP!deviation(o) = 0
  <2>1. BP!deviation(o) = IF p - p < 0 THEN -(p - p) ELSE p - p
    BY <1>3, Zenon DEF BP!deviation, p
  <2> QED
    BY <1>1, <2>1
<1> QED
  BY <1>4, <1>5

LEMMA NoBiasIn ==
    ASSUME NEW w, w.entries \in Seq(Agreements)
    PROVE  B!ComputeBias(w).Coefficient = 0
<1> DEFINE s == w.entries
           n == Len(s)
           f == BP!Deviations(s)
           I == 1..n
<1>1. n \in Nat /\ \A i \in I : s[i] \in Agreements
  OBVIOUS
<1>2. BP!Accepted(s)
  BY <1>1, AgreementIsValid DEF BP!Accepted
<1>3. B!ComputeBias(w) = BP!BiasResult(BP!Coefficient(s), n)
  BY <1>2, SameBias, BP!ComputedBias
<1>4. \A i \in I : f[i] = 0
  BY <1>1, AgreementIsValid DEF BP!Deviations
<1>5. BP!IsFiniteSet(I)
  BY <1>1, BP!IntervalGrows
<1>6. BP!Total(s) = BP!SumFunctionOnSet(f, I)
  BY Zenon DEF BP!Total
<1> HIDE DEF f, I
<1>7. BP!SumFunctionOnSet(f, I) = 0 * BP!Cardinality(I)
  <2>1. 0 \in Int
    OBVIOUS
  <2> QED
    BY <1>4, <1>5, <2>1, BP!SumConstant
<1>8. BP!Cardinality(I) \in Nat
  BY <1>5, BP!FS_CardinalityType
<1>9. BP!Total(s) = 0
  BY <1>6, <1>7, <1>8
<1>10. BP!Coefficient(s) = 0
  <2>1. ASSUME NEW m \in Nat, m >= 5 PROVE 0 \div m = 0
    <3>1. m \in Nat \ {0} /\ 0 * m <= 0 /\ 0 \in Int
      BY <2>1
    <3>2. 0 \div m \in 0..0
      BY <3>1, QuotientBounds
    <3> QED
      BY <3>2
  <2> HIDE DEF s
  <2> QED
    BY <1>1, <1>9, <2>1 DEF BP!Coefficient, BP!MinObservationsForBias
<1> QED
  BY <1>3, <1>10 DEF BP!BiasResult

LEMMA NobodyOver ==
    ASSUME NEW ws, Agreeing(ws), NEW i
    PROVE  ~overThreshold(ws, i)
<1> DEFINE k == B!key(Trimmed(<<ValidatorID(i)>>), NormaliseName(<<cfg.Domain>>))
           b == B!biasIn(ws, <<ValidatorID(i)>>, <<cfg.Domain>>)
<1>1. b = IF k \in DOMAIN ws THEN B!ComputeBias(ws[k]) ELSE B!BiasResult(0, 0)
  BY Zenon DEF B!biasIn
<1> HIDE DEF b, k
<1>2. b.Coefficient = 0
  <2>1. CASE k \in DOMAIN ws
    <3>1. B!ComputeBias(ws[k]).Coefficient = 0
      BY <2>1, NoBiasIn DEF Agreeing
    <3> QED
      BY <1>1, <2>1, <3>1, Zenon
  <2>2. CASE k \notin DOMAIN ws
    BY <1>1, <2>2 DEF B!BiasResult
  <2> QED
    BY <2>1, <2>2
<1> QED
  BY <1>2 DEF overThreshold, b, B!BiasModerateThreshold

\* Recording such an observation.
LEMMA RecordedKey ==
    ASSUME NEW ws, NEW id, NEW dom, NEW o
    PROVE  B!key(id, dom) \in DOMAIN B!recordIn(ws, id, dom, o)
BY DEF B!recordIn

LEMMA RecordAgrees ==
    ASSUME NEW ws, NEW id, NEW dom, NEW o, Agreeing(ws), o \in Agreements
    PROVE  Agreeing(B!recordIn(ws, id, dom, o))
<1> DEFINE k == B!key(id, dom)
           w == IF k \in DOMAIN ws THEN ws[k] ELSE B!NewWindow(id, dom)
           e == B!Add(w, o)
           kept == IF Len(w.entries) >= 50 THEN Tail(w.entries) ELSE w.entries
           r == B!recordIn(ws, id, dom, o)
<1>1. r = [j \in DOMAIN ws \cup {k} |-> IF j = k THEN e ELSE ws[j]]
  BY Zenon DEF B!recordIn
<1>2. "entries" \in DOMAIN w /\ w.entries \in Seq(Agreements)
  <2>1. CASE k \in DOMAIN ws
    BY <2>1 DEF Agreeing
  <2>2. CASE k \notin DOMAIN ws
    <3>1. w = B!NewWindow(id, dom)
      BY <2>2
    <3>2. "entries" \in DOMAIN w /\ w.entries = <<>>
      BY <3>1 DEF B!NewWindow
    <3>3. <<>> \in Seq(Agreements)
      OBVIOUS
    <3> QED
      BY <3>2, <3>3, Zenon
  <2> QED
    BY <2>1, <2>2
<1>3. e = [w EXCEPT !.entries = Append(kept, o)]
  BY AgreementIsValid, Zenon DEF B!Add
<1> HIDE DEF w, e, r, k
<1>4. kept \in Seq(Agreements)
  <2>1. CASE Len(w.entries) >= 50
    <3>1. w.entries # <<>>
      BY <2>1
    <3> QED
      BY <1>2, <2>1, <3>1
  <2>2. CASE ~(Len(w.entries) >= 50)
    BY <1>2, <2>2
  <2> QED
    BY <2>1, <2>2
<1> HIDE DEF kept
<1>5. "entries" \in DOMAIN e /\ e.entries \in Seq(Agreements)
  <2>1. Append(kept, o) \in Seq(Agreements)
    BY <1>4
  <2>2. "entries" \in DOMAIN e /\ e.entries = Append(kept, o)
    BY <1>2, <1>3
  <2> QED
    BY <2>1, <2>2
<1>6. Agreeing(r)
  BY <1>1, <1>5 DEF Agreeing
<1> QED
  BY <1>6 DEF r

\* The average of equal votes.
LEMMA AverageOfEqual ==
    ASSUME NEW vs, Len(vs) \in Nat \ {0}, NEW v \in Verdicts, \A n \in 1..Len(vs) : vs[n].Verdict = v
    PROVE  computePopulationAverageFromVotes(vs) = B!verdictScore[v]
<1> DEFINE m == Len(vs)
           I == 1..m
           f == [n \in I |-> B!verdictScore[vs[n].Verdict]]
           a == B!verdictScore[v]
<1>1. a \in Int
  <2>1. \A k \in 0..100 : k \in Int
    OBVIOUS
  <2> QED
    BY <2>1, VerdictScoreRange, Zenon
<1>2. \A n \in I : f[n] = a
  OBVIOUS
<1>3. IsFiniteSet(I) /\ Cardinality(I) = m
  BY IntervalGrows
<1>4. SumFunction(f) = SumFunctionOnSet(f, I)
  BY DEF SumFunction
<1>5. computePopulationAverageFromVotes(vs) = SumFunction(f) \div m
  <2>1. vs # <<>>
    OBVIOUS
  <2> QED
    BY <2>1, Zenon DEF computePopulationAverageFromVotes
<1> HIDE DEF I, f, a, m
<1>6. SumFunctionOnSet(f, I) = a * Cardinality(I)
  BY <1>1, <1>2, <1>3, SumConstant
<1>7. (a * m) \div m \in a..a
  <2>1. m \in Nat \ {0} /\ a * m \in Int /\ a * m <= a * m
    BY <1>1 DEF m
  <2> QED
    BY <1>1, <2>1, QuotientBounds
<1>8. (a * m) \div m = a
  BY <1>1, <1>7
<1> QED
  BY <1>3, <1>4, <1>5, <1>6, <1>8 DEF a

\* In an honest network a round leaves windows of agreement, and flags nobody.
LEMMA HonestRound ==
    ASSUME NEW x, Entered(x), \A i \in DOMAIN pool : Honest(i), Agreeing(windows), round \in Nat
    PROVE  Agreeing(WindowsAfter(x)) /\ Over(x) = {}
<1>1. /\ Len(Votes(x)) \in Nat \ {0} /\ Len(x.selected) = Len(Votes(x)) /\ Truth(x) \in Verdicts
      /\ \A n \in 1..Len(Votes(x)) : Votes(x)[n].Verdict = Truth(x)
  <2>1. DOMAIN pool = 0..(cfg.ValidatorPoolSize - 1)
    BY Zenon DEF Entered, IsPool
  <2> QED
    BY <2>1, RoundVotes, Zenon
<1> DEFINE I == 1..Len(x.selected)
<1>2. ASSUME NEW n \in I PROVE Obs(x, n) \in Agreements
  <2>1. computePopulationAverageFromVotes(Votes(x)) = B!verdictScore[Truth(x)]
    BY <1>1, AverageOfEqual
  <2>2. B!verdictScore[Truth(x)] \in 0..100
    BY <1>1, VerdictScoreRange
  <2>3. Votes(x)[n].Verdict = Truth(x)
    BY <1>1
  <2>4. generateClaimID(round) \in {"sim-claim"} \X Nat
    BY DEF generateClaimID
  <2>5. Obs(x, n) = [ClaimID |-> generateClaimID(round), ValidatorVerdict |-> Truth(x),
                     PopulationAverageScore |-> B!verdictScore[Truth(x)]]
    BY <2>1, <2>3, Zenon DEF Obs
  <2> QED
    BY <1>1, <2>2, <2>4, <2>5 DEF Agreements
<1>3. ASSUME NEW n \in I
      PROVE  Agreeing(Observed(x, n)) /\ KeyOf(x, n) \in DOMAIN Observed(x, n)
  <2>1. Obs(x, n) \in Agreements
    BY <1>2
  <2>2. Agreeing(windows)
    OBVIOUS
  <2>3. \A ws, i, d, o : Agreeing(ws) /\ o \in Agreements => Agreeing(B!recordIn(ws, i, d, o))
    BY ONLY RecordAgrees, Zenon
  <2>4. \A ws, i, d, o : B!key(i, d) \in DOMAIN B!recordIn(ws, i, d, o)
    BY ONLY RecordedKey, Zenon
  <2>5. Agreeing(Observed(x, n))
    BY <2>1, <2>2, <2>3, Zenon DEF Observed
  <2>6. KeyOf(x, n) \in DOMAIN Observed(x, n)
    BY <2>4, Zenon DEF Observed, KeyOf
  <2> QED
    BY <2>5, <2>6, Zenon
<1>4. Over(x) = {}
  <2>1. \A n \in I : ~overThreshold(Observed(x, n), x.selected[n])
    BY <1>3, NobodyOver
  <2> QED
    BY <2>1, Zenon DEF Over
<1>5. ASSUME NEW k \in DOMAIN WindowsAfter(x)
      PROVE  /\ "entries" \in DOMAIN WindowsAfter(x)[k]
             /\ WindowsAfter(x)[k].entries \in Seq(Agreements)
  <2> DEFINE n == CHOOSE m \in I : KeyOf(x, m) = k
  <2>1. k \in DOMAIN windows \cup {KeyOf(x, m) : m \in I}
    BY Zenon DEF WindowsAfter
  <2>2. WindowsAfter(x)[k] = IF \E m \in I : KeyOf(x, m) = k THEN Observed(x, n)[k] ELSE windows[k]
    BY <2>1, Zenon DEF WindowsAfter
  <2>3. CASE \E m \in I : KeyOf(x, m) = k
    <3>1. n \in I /\ KeyOf(x, n) = k
      BY <2>3, Zenon
    <3> HIDE DEF n
    <3>2. Agreeing(Observed(x, n)) /\ k \in DOMAIN Observed(x, n)
      BY <1>3, <3>1
    <3>3. WindowsAfter(x)[k] = Observed(x, n)[k]
      BY <2>2, <2>3, Zenon
    <3> QED
      BY <3>2, <3>3 DEF Agreeing
  <2>4. CASE ~(\E m \in I : KeyOf(x, m) = k)
    <3>1. k \in DOMAIN windows /\ WindowsAfter(x)[k] = windows[k]
      BY <2>1, <2>2, <2>4, Zenon
    <3> QED
      BY <3>1 DEF Agreeing
  <2> QED
    BY <2>3, <2>4
<1> QED
  BY <1>4, <1>5 DEF Agreeing

-----------------------------------------------------------------------------
\* The steps of a run.

\* Without a share of colluders there is none in the pool.
LEMMA NoColluders ==
    ASSUME NEW size \in Nat \ {0}, NEW rate \in 0..100, NEW i \in 0..(size - 1),
           i < (size * rate) \div 100
    PROVE  rate > 0
<1>1. CASE rate = 0
  <2>1. size * rate = 0
    BY <1>1
  <2>2. 0 \div 100 = 0
    OBVIOUS
  <2> QED
    BY <2>1, <2>2
<1> QED
  BY <1>1

\* The pool that Run starts with.
LEMMA BuiltPool ==
    ASSUME cfg \in Configs, Validate(cfg), NEW reps \in Targets
    PROVE  /\ IsPool(buildValidatorPool(cfg, reps), cfg)
           /\ Normalise[cfg.Domain] # "" =>
                  \A i \in 0..(cfg.ValidatorPoolSize - 1) :
                      Score(buildValidatorPool(cfg, reps)[i].record, cfg.Domain) - reps[i]
                          \in -500..500
<1> DEFINE size == cfg.ValidatorPoolSize
           cc == (size * cfg.CollusionRate) \div 100
           bc == (size * cfg.BiasRate) \div 100
           p == buildValidatorPool(cfg, reps)
           Given(i) == injectDomainReputation(Fresh, ValidatorID(i), cfg.Domain, reps[i])
           I == 0..(size - 1)
<1>1. p = [i \in I |-> [record        |-> Given(i),
                        isColluder    |-> i < cc,
                        biasDirection |-> IF i \in cc..(cc + bc - 1) THEN cfg.BiasStrength ELSE 0]]
  BY Zenon DEF buildValidatorPool, Fresh
<1>2. ASSUME NEW i \in I
      PROVE  /\ IsRecord(Given(i))
             /\ Normalise[cfg.Domain] # "" =>
                    /\ Score(Given(i), cfg.Domain) \in Raised
                    /\ Score(Given(i), cfg.Domain) - reps[i] \in -500..500
  <2>1. ValidatorID(i) # "" /\ reps[i] \in R!EligibilityThreshold..R!One
    BY IdsAssumption, TargetsAssumption
  <2>2. reps[i] \in Raised
    BY <2>1, Zenon DEF Raised, R!ReputationFloor, R!ReputationCeiling
  <2>3. PICK id, domain, target :
            id = ValidatorID(i) /\ domain = cfg.Domain /\ target = reps[i]
    OBVIOUS
  <2>4. domain \in DOMAIN Normalise /\ target \in Raised
    BY <2>2, <2>3, SizesOfConfig, Zenon
  <2>5. Normalise[domain] # "" => Accepts(id, domain)
    BY <2>1, <2>3, Zenon DEF Accepts
  <2>6. /\ IsRecord(injectDomainReputation(Fresh, id, domain, target))
        /\ Accepts(id, domain) =>
               /\ Score(injectDomainReputation(Fresh, id, domain, target), domain) \in Raised
               /\ Score(injectDomainReputation(Fresh, id, domain, target), domain) - target \in -500..500
    BY <2>4, InjectedReputation, Zenon
  <2> QED
    BY <2>3, <2>5, <2>6, Zenon
<1> HIDE DEF Given, p
<1>3. ASSUME NEW i \in I PROVE IsMember(p[i], cfg)
  <2>1. /\ p[i] = [record        |-> Given(i),
                   isColluder    |-> i < cc,
                   biasDirection |-> IF i \in cc..(cc + bc - 1) THEN cfg.BiasStrength ELSE 0]
    BY <1>1, Zenon
  <2>2. i < cc => cfg.CollusionRate > 0
    <3>1. size \in Nat \ {0} /\ cfg.CollusionRate \in 0..100
      BY SizesOfConfig
    <3> QED
      BY <3>1, NoColluders
  <2>3. cfg.BiasStrength \in 0..100 /\ 0 \in 0..100
    <3>1. 0 \in 0..100
      OBVIOUS
    <3> QED
      BY <3>1, SizesOfConfig, Zenon
  <2>4. (i < cc) \in BOOLEAN
    OBVIOUS
  <2> HIDE DEF cc, bc
  <2>5. PICK ok \in BOOLEAN : ok = (i < cc)
    BY <2>4, Zenon
  <2>6. PICK k : k = IF i \in cc..(cc + bc - 1) THEN cfg.BiasStrength ELSE 0
    BY Zenon
  <2>7. p[i] = [record |-> Given(i), isColluder |-> ok, biasDirection |-> k]
    BY <2>1, <2>5, <2>6, Zenon
  <2>8. ok \in BOOLEAN /\ k \in 0..100 /\ (ok => cfg.CollusionRate > 0)
    <3>1. k \in 0..100
      BY <2>3, <2>6, Zenon
    <3>2. ok => cfg.CollusionRate > 0
      BY <2>2, <2>5, Zenon
    <3> QED
      BY <3>1, <3>2, Zenon
  <2>9. p[i].record = Given(i) /\ p[i].isColluder = ok /\ p[i].biasDirection = k
    BY <2>7
  <2> QED
    BY <1>2, <2>7, <2>8, <2>9, Zenon DEF IsMember
<1>4. IsPool(p, cfg)
  <2> DEFINE F(i) == [record        |-> Given(i),
                      isColluder    |-> i < cc,
                      biasDirection |-> IF i \in cc..(cc + bc - 1) THEN cfg.BiasStrength ELSE 0]
  <2>1. p = [i \in I |-> F(i)]
    BY <1>1
  <2> HIDE DEF F
  <2>2. p = [i \in I |-> p[i]]
    BY ONLY <2>1
  <2> QED
    BY <1>3, <2>2 DEF IsPool
<1>5. ASSUME NEW i \in I, Normalise[cfg.Domain] # ""
      PROVE  Score(p[i].record, cfg.Domain) - reps[i] \in -500..500
  <2>1. p[i].record = Given(i)
    BY <1>1
  <2> QED
    BY <1>2, <1>5, <2>1, Zenon
<1> QED
  BY <1>4, <1>5, Zenon DEF p

LEMMA NewReport ==
    /\ IsReport(newReport) /\ Counts(newReport, 0) /\ Totals(newReport, 0)
    /\ newReport.CorrectRounds = 0 /\ newReport.IndeterminateRounds = 0
<1>1. /\ DOMAIN newReport = ReportFields /\ newReport.VerdictDistribution = [v \in Verdicts |-> 0]
      /\ newReport.TotalRounds = 0 /\ newReport.CorrectRounds = 0 /\ newReport.IndeterminateRounds = 0
      /\ newReport.MeanParticipationRate = 0 /\ newReport.BiasDetectionRate = 0
  BY DEF newReport, ReportFields
<1>2. IsReport(newReport)
  BY <1>1 DEF IsReport
<1>3. Counts(newReport, 0) /\ Totals(newReport, 0)
  BY <1>1 DEF Counts, Totals, Verdicts
<1> QED
  BY <1>1, <1>2, <1>3

LEMMA InitSInv == Init => SInv
<1> SUFFICES ASSUME Init PROVE SInv
  OBVIOUS
<1>1. /\ cfg \in Configs /\ phase = "new" /\ round = 0 /\ pool = <<>> /\ windows = NoWindows
      /\ report = newReport /\ flagged = {} /\ truths = [v \in Verdicts |-> 0]
  BY Zenon DEF Init, NoWindows
<1>2. Agreeing(windows)
  BY <1>1 DEF Agreeing, NoWindows
<1>3. PoolNearTarget
  BY <1>1 DEF PoolNearTarget
<1>4. /\ IsReport(report) /\ Counts(report, round) /\ Totals(report, round)
      /\ truths \in [Verdicts -> Nat] /\ truths["INDETERMINATE"] = 0
      /\ report.CorrectRounds = round - 0 /\ report.IndeterminateRounds = 0
  BY <1>1, NewReport DEF Verdicts
<1> QED
  BY <1>1, <1>2, <1>3, <1>4 DEF SInv

LEMMA StartSInv ==
    ASSUME SInv, NEW reps \in Targets, Start(reps)
    PROVE  SInv'
<1>1. /\ phase = "new" /\ round = 0 /\ pool = <<>> /\ flagged = {} /\ windows = NoWindows
      /\ cfg \in Configs /\ IsReport(report) /\ Counts(report, round) /\ Totals(report, round)
      /\ DOMAIN pool = {} /\ truths \in [Verdicts -> Nat] /\ ~(round > 0)
  BY DEF SInv, Start
<1>2. /\ cfg' = cfg /\ round' = round /\ windows' = windows /\ report' = report
      /\ truths' = truths /\ flagged' = flagged
  BY Zenon DEF Start
<1>3. /\ report.CorrectRounds = round - truths["INDETERMINATE"]
      /\ report.IndeterminateRounds = truths["INDETERMINATE"]
      /\ Agreeing(windows)
  <2>1. \A i \in DOMAIN pool : Honest(i)
    BY <1>1
  <2> QED
    BY <2>1, Zenon DEF SInv
<1>4. CASE ~Validate(cfg) /\ phase' = "refused" /\ UNCHANGED <<targets, pool>>
  <2>1. pool' = pool
    BY <1>4
  <2>2. PoolNearTarget'
    BY <1>4 DEF PoolNearTarget
  <2> QED
    BY <1>1, <1>2, <1>3, <1>4, <2>1, <2>2 DEF SInv
<1>5. CASE /\ Validate(cfg)
           /\ phase' = "running"
           /\ targets' = reps
           /\ pool' = buildValidatorPool(cfg, reps)
  <2>1. IsPool(pool', cfg)
    BY <1>1, <1>5, BuiltPool, Zenon
  <2>2. PoolNearTarget'
    <3>1. DOMAIN pool' = 0..(cfg.ValidatorPoolSize - 1)
      BY <2>1, Zenon DEF IsPool
    <3>2. ASSUME Normalise[cfg.Domain] # "", NEW i \in DOMAIN pool'
          PROVE  Score(pool'[i].record, cfg.Domain) - targets'[i] \in -500..500
      <4>1. \A k \in 0..(cfg.ValidatorPoolSize - 1) :
                Score(buildValidatorPool(cfg, reps)[k].record, cfg.Domain) - reps[k] \in -500..500
        BY <1>1, <1>5, <3>2, BuiltPool, Zenon
      <4> QED
        BY <1>5, <3>1, <4>1, Zenon
    <3>3. ASSUME Normalise[cfg'.Domain] # "", NEW i \in DOMAIN pool'
          PROVE  R!DomainScore(pool'[i].record, cfg'.Domain) - targets'[i] \in -500..500
      BY <1>2, <3>2, <3>3, Zenon DEF Score
    <3> QED
      BY <3>3, Zenon DEF PoolNearTarget
  <2>3. /\ 0 \in Nat /\ 0 <= cfg.Rounds
    <3>1. cfg.Rounds \in Nat \ {0}
      BY <1>1, <1>5, SizesOfConfig, Zenon
    <3> QED
      BY <3>1
  <2>4. Validate(cfg) /\ phase' = "running"
    BY <1>5
  <2>5. /\ phase' \in {"new", "running", "done", "refused", "failed"}
        /\ phase' \notin {"new", "refused", "done", "failed"}
    BY <2>4
  <2> QED
    BY <1>1, <1>2, <1>3, <2>1, <2>2, <2>3, <2>4, <2>5, Zenon DEF SInv
<1> QED
  BY <1>4, <1>5, Zenon DEF Start

LEMMA FinishSInv ==
    ASSUME SInv, Finish
    PROVE  SInv'
<1>1. /\ phase = "running" /\ round = cfg.Rounds /\ report' = finalise(report) /\ phase' = "done"
      /\ cfg' = cfg /\ round' = round /\ pool' = pool /\ windows' = windows
      /\ truths' = truths /\ flagged' = flagged
  BY Zenon DEF Finish
<1>2. /\ cfg \in Configs /\ Validate(cfg) /\ IsPool(pool, cfg)
      /\ IsReport(report) /\ Counts(report, round) /\ Totals(report, round) /\ round <= cfg.Rounds
  BY <1>1 DEF SInv
<1>3. round \in Nat \ {0}
  BY <1>1, <1>2, SizesOfConfig, Zenon
<1>4. /\ IsReport(report') /\ Counts(report', round)
      /\ report'.CorrectRounds = report.CorrectRounds
      /\ report'.IndeterminateRounds = report.IndeterminateRounds
      /\ Rates(report')
  BY <1>1, <1>2, <1>3, Finalised, Zenon
<1>5. PoolNearTarget'
  BY <1>1 DEF PoolNearTarget
<1>6. ASSUME \A i \in DOMAIN pool' : Honest(i)'
      PROVE  /\ report'.CorrectRounds = round' - truths'["INDETERMINATE"]
             /\ report'.IndeterminateRounds = truths'["INDETERMINATE"]
             /\ flagged' = {}
             /\ Agreeing(windows')
  <2>1. \A i \in DOMAIN pool : Honest(i)
    BY <1>1, <1>6, Zenon DEF Honest
  <2>2. /\ report.CorrectRounds = round - truths["INDETERMINATE"]
        /\ report.IndeterminateRounds = truths["INDETERMINATE"]
        /\ flagged = {} /\ Agreeing(windows)
    BY <2>1, Zenon DEF SInv
  <2> QED
    BY <1>1, <1>4, <2>2, Zenon
<1>7. /\ phase' \in {"new", "running", "done", "refused", "failed"}
      /\ phase' \notin {"new", "refused", "failed"} /\ round \in Nat
      /\ truths \in [Verdicts -> Nat] /\ (round > 0 => Normalise[cfg.Domain] # "")
  BY <1>1, <1>3 DEF SInv
<1> QED
  BY <1>1, <1>2, <1>4, <1>5, <1>6, <1>7, Zenon DEF SInv

\* What a round adds to the report.
LEMMA JudgedRound ==
    ASSUME NEW x, Entered(x)
    PROVE  /\ Judged(x).consensusVerdict \in Verdicts
           /\ Judged(x).correct \in BOOLEAN
           /\ Judged(x).participationRate = 100
           /\ (\A i \in DOMAIN pool : Honest(i)) /\ Normalise[cfg.Domain] # "" =>
                  Judged(x).consensusVerdict = Truth(x) /\ Judged(x).correct
<1> DEFINE size == cfg.ValidatorSetSize
           q == (100 * Len(Votes(x))) \div size
           c == Cardinality(Over(x))
           w == Decided(x).Verdict
<1>1. size \in Nat \ {0} /\ Len(Votes(x)) = size
  BY RoundVotes
<1>2. q = 100
  <2>1. ASSUME NEW m \in Nat \ {0} PROVE (100 * m) \div m = 100
    <3>1. (100 * m) \div m \in 100..100
      BY QuotientBounds
    <3> QED
      BY <3>1
  <2>2. PICK k, m : k = Len(Votes(x)) /\ m = size
    OBVIOUS
  <2>3. q = (100 * k) \div m
    BY <2>2
  <2>4. k = m /\ m \in Nat \ {0}
    BY <1>1, <2>2, Zenon
  <2> HIDE DEF q
  <2> QED
    BY ONLY <2>1, <2>3, <2>4
<1>3. /\ w \in Verdicts
      /\ (\A i \in DOMAIN pool : Honest(i)) /\ Normalise[cfg.Domain] # "" => w = Truth(x)
  BY RoundBallots, Zenon
<1>4. Judged(x) = [consensusVerdict |-> w, correct |-> w = Truth(x), participationRate |-> q,
                   biasDetectionEvents |-> c]
  BY Zenon DEF Judged
<1> HIDE DEF q, c, w
<1>5. PICK ok \in BOOLEAN : ok = (w = Truth(x))
  BY Zenon
<1>6. Judged(x) = [consensusVerdict |-> w, correct |-> ok, participationRate |-> q,
                   biasDetectionEvents |-> c]
  BY <1>4, <1>5, Zenon
<1>7. /\ Judged(x).consensusVerdict = w /\ Judged(x).correct = ok
      /\ Judged(x).participationRate = q
  BY <1>6
<1>8. (\A i \in DOMAIN pool : Honest(i)) /\ Normalise[cfg.Domain] # "" => w = Truth(x) /\ ok
  BY <1>3, <1>5, Zenon
<1> QED
  BY <1>2, <1>3, <1>7, <1>8, Zenon

LEMMA EnteredBySInv ==
    ASSUME SInv, NEW x \in Draws(cfg), simulateRound(x)
    PROVE  Entered(x)
<1>1. phase = "running" /\ selectValidators(x.selected)
  BY RoundParts, Zenon
<1>2. phase \notin {"new", "refused"}
  BY <1>1
<1> QED
  BY <1>1, <1>2, Zenon DEF SInv, Entered

LEMMA RoundSInv ==
    ASSUME SInv, NEW x \in Draws(cfg), simulateRound(x)
    PROVE  SInv'
<1>1. Entered(x) /\ (Fails(x) <=> Normalise[cfg.Domain] = "")
  BY EnteredBySInv, RoundFails, Zenon
<1>2. /\ phase = "running" /\ cfg' = cfg /\ round < cfg.Rounds
      /\ \/ /\ Fails(x) /\ phase' = "failed"
            /\ round' = round /\ pool' = pool /\ windows' = windows /\ report' = report
            /\ truths' = truths /\ flagged' = flagged
         \/ /\ ~Fails(x) /\ phase' = phase
            /\ round' = round + 1 /\ pool' = PoolAfter(x) /\ windows' = WindowsAfter(x)
            /\ report' = accumulate(report, Judged(x))
            /\ truths' = [truths EXCEPT ![Truth(x)] = @ + 1]
            /\ flagged' = flagged \cup Over(x)
  BY RoundParts, Zenon
<1>3. /\ cfg \in Configs /\ Validate(cfg) /\ IsPool(pool, cfg) /\ round \in Nat
      /\ round <= cfg.Rounds /\ cfg.Rounds \in Int
      /\ IsReport(report) /\ Counts(report, round) /\ Totals(report, round)
  <2>1. phase # "done" /\ phase \notin {"new", "refused"}
    BY <1>2
  <2>2. cfg \in Configs /\ Validate(cfg)
    BY <2>1, Zenon DEF SInv
  <2>3. cfg.Rounds \in Nat \ {0}
    BY <2>2, SizesOfConfig, Zenon
  <2>4. cfg.Rounds \in Int
    BY <2>3
  <2> QED
    BY <2>1, <2>2, <2>4, Zenon DEF SInv
<1>4. (\A i \in DOMAIN pool : Honest(i)) =>
          /\ report.CorrectRounds = round - truths["INDETERMINATE"]
          /\ report.IndeterminateRounds = truths["INDETERMINATE"]
          /\ flagged = {}
          /\ Agreeing(windows)
  BY Zenon DEF SInv
<1>5. truths \in [Verdicts -> Nat] /\ (round > 0 => Normalise[cfg.Domain] # "")
  BY Zenon DEF SInv
<1>6. CASE /\ Fails(x) /\ phase' = "failed"
           /\ round' = round /\ pool' = pool /\ windows' = windows /\ report' = report
           /\ truths' = truths /\ flagged' = flagged
  <2>1. (\A i \in DOMAIN pool' : Honest(i)') => \A i \in DOMAIN pool : Honest(i)
    BY <1>6, Zenon DEF Honest
  <2>2. PoolNearTarget'
    BY <1>6 DEF PoolNearTarget
  <2>3. /\ phase' \in {"new", "running", "done", "refused", "failed"}
        /\ phase' \notin {"new", "refused", "done"}
    BY <1>6
  <2>4. round = 0 /\ Normalise[cfg.Domain] = "" /\ ~(round > 0)
    <3>1. Normalise[cfg.Domain] = ""
      BY <1>1, <1>6
    <3>2. ~(round > 0)
      BY <1>5, <3>1
    <3>3. round \in Nat
      BY <1>3, Zenon
    <3>4. \A k \in Nat : ~(k > 0) => k = 0
      OBVIOUS
    <3> QED
      BY <3>1, <3>2, <3>3, <3>4, Zenon
  <2> QED
    BY <1>2, <1>3, <1>4, <1>5, <1>6, <2>1, <2>2, <2>3, <2>4, Zenon DEF SInv
<1>7. CASE /\ ~Fails(x) /\ phase' = phase
           /\ round' = round + 1 /\ pool' = PoolAfter(x) /\ windows' = WindowsAfter(x)
           /\ report' = accumulate(report, Judged(x))
           /\ truths' = [truths EXCEPT ![Truth(x)] = @ + 1]
           /\ flagged' = flagged \cup Over(x)
  <2>1. round' = round + 1 /\ round \in Nat
    BY <1>3, <1>7, Zenon
  <2>2. DOMAIN pool = 0..(cfg.ValidatorPoolSize - 1)
    BY <1>3, Zenon DEF IsPool
  <2>3. ASSUME NEW i \in 0..(cfg.ValidatorPoolSize - 1)
        PROVE  /\ IsMember(pool'[i], cfg)
               /\ pool'[i].isColluder = pool[i].isColluder
               /\ pool'[i].biasDirection = pool[i].biasDirection
    BY <1>1, <1>7, MemberAfter, Zenon
  <2>4. IsPool(pool', cfg)
    <3> DEFINE F(i) == IF i \in Range(x.selected)
                       THEN LET n == CHOOSE m \in 1..Len(x.selected) : x.selected[m] = i
                            IN  [pool[i] EXCEPT !.record = RecordAfter(@, OutcomeOf(x, n))]
                       ELSE pool[i]
    <3>1. pool' = [i \in DOMAIN pool |-> F(i)]
      BY <1>7, Zenon DEF PoolAfter
    <3> HIDE DEF F
    <3>2. pool' = [i \in DOMAIN pool |-> pool'[i]]
      BY ONLY <3>1
    <3> QED
      BY <2>2, <2>3, <3>2, Zenon DEF IsPool
  <2>5. (\A i \in DOMAIN pool' : Honest(i)') => \A i \in DOMAIN pool : Honest(i)
    <3>1. DOMAIN pool' = 0..(cfg.ValidatorPoolSize - 1)
      BY <2>4, Zenon DEF IsPool
    <3> QED
      BY <2>2, <2>3, <3>1, Zenon DEF Honest
  <2>6. /\ Judged(x).consensusVerdict \in Verdicts /\ Judged(x).correct \in BOOLEAN
        /\ Judged(x).participationRate = 100
        /\ (\A i \in DOMAIN pool : Honest(i)) =>
               Judged(x).consensusVerdict = Truth(x) /\ Judged(x).correct
    BY <1>1, <1>7, JudgedRound, Zenon
  <2>7. PICK res, rep : res = Judged(x) /\ rep = report
    OBVIOUS
  <2>8. /\ res.consensusVerdict \in Verdicts /\ res.correct \in BOOLEAN
        /\ res.participationRate = 100
        /\ IsReport(rep) /\ Counts(rep, round) /\ Totals(rep, round)
    BY <1>3, <2>6, <2>7, Zenon
  <2>9. /\ IsReport(accumulate(rep, res))
        /\ Counts(accumulate(rep, res), round + 1)
        /\ Totals(accumulate(rep, res), round + 1)
        /\ accumulate(rep, res).CorrectRounds =
               IF res.consensusVerdict # "INDETERMINATE" /\ res.correct
               THEN rep.CorrectRounds + 1 ELSE rep.CorrectRounds
        /\ accumulate(rep, res).IndeterminateRounds =
               IF res.consensusVerdict = "INDETERMINATE"
               THEN rep.IndeterminateRounds + 1 ELSE rep.IndeterminateRounds
    BY <1>3, <2>8, Accumulated, Zenon
  <2>10. /\ IsReport(report') /\ Counts(report', round') /\ Totals(report', round')
    BY <1>7, <2>7, <2>9, Zenon
  <2>11. truths' \in [Verdicts -> Nat] /\ Truth(x) \in Verdicts
         /\ truths'["INDETERMINATE"] =
                IF Truth(x) = "INDETERMINATE" THEN truths["INDETERMINATE"] + 1
                ELSE truths["INDETERMINATE"]
    <3>1. Truth(x) \in Verdicts
      BY <1>1, RoundVotes, Zenon
    <3>2. PICK t \in Verdicts : t = Truth(x)
      BY <3>1
    <3>3. truths' = [truths EXCEPT ![t] = @ + 1]
      BY <1>7, <3>2, Zenon
    <3>4. /\ truths' \in [Verdicts -> Nat]
          /\ truths'["INDETERMINATE"] = IF t = "INDETERMINATE" THEN truths["INDETERMINATE"] + 1
                                        ELSE truths["INDETERMINATE"]
      <4>1. truths \in [Verdicts -> Nat] /\ "INDETERMINATE" \in Verdicts
        BY <1>5 DEF Verdicts
      <4> QED
        BY <3>3, <4>1
    <3> QED
      BY <3>1, <3>2, <3>4, Zenon
  <2>12. ASSUME \A i \in DOMAIN pool' : Honest(i)'
         PROVE  /\ report'.CorrectRounds = round' - truths'["INDETERMINATE"]
                /\ report'.IndeterminateRounds = truths'["INDETERMINATE"]
                /\ flagged' = {}
                /\ Agreeing(windows')
    <3>1. \A i \in DOMAIN pool : Honest(i)
      BY <2>5, <2>12, Zenon
    <3>2. /\ report.CorrectRounds = round - truths["INDETERMINATE"]
          /\ report.IndeterminateRounds = truths["INDETERMINATE"]
          /\ flagged = {} /\ Agreeing(windows)
      BY <1>4, <3>1, Zenon
    <3>3. Agreeing(WindowsAfter(x)) /\ Over(x) = {}
      BY <1>1, <1>3, <3>1, <3>2, HonestRound, Zenon
    <3>4. res.consensusVerdict = Truth(x) /\ res.correct
      BY <2>6, <2>7, <3>1, Zenon
    <3>5. flagged' = {} \cup {}
      BY <1>7, <3>2, <3>3, Zenon
    <3>6. /\ report'.CorrectRounds = IF Truth(x) # "INDETERMINATE" THEN report.CorrectRounds + 1
                                     ELSE report.CorrectRounds
          /\ report'.IndeterminateRounds = IF Truth(x) = "INDETERMINATE"
                                           THEN report.IndeterminateRounds + 1
                                           ELSE report.IndeterminateRounds
      BY <1>7, <2>7, <2>9, <3>4, Zenon
    <3>7. truths["INDETERMINATE"] \in Nat
      BY <1>5 DEF Verdicts
    <3>8. CASE Truth(x) = "INDETERMINATE"
      <4>1. /\ truths'["INDETERMINATE"] = truths["INDETERMINATE"] + 1
            /\ report'.CorrectRounds = round - truths["INDETERMINATE"]
            /\ report'.IndeterminateRounds = truths["INDETERMINATE"] + 1
        BY <2>11, <3>2, <3>6, <3>8, Zenon
      <4> QED
        BY <1>7, <2>1, <3>3, <3>5, <3>7, <4>1
    <3>9. CASE Truth(x) # "INDETERMINATE"
      <4>1. /\ truths'["INDETERMINATE"] = truths["INDETERMINATE"]
            /\ report'.CorrectRounds = (round - truths["INDETERMINATE"]) + 1
            /\ report'.IndeterminateRounds = truths["INDETERMINATE"]
        BY <2>11, <3>2, <3>6, <3>9, Zenon
      <4> QED
        BY <1>7, <2>1, <3>3, <3>5, <3>7, <4>1
    <3> QED
      BY <3>8, <3>9
  <2>13. PoolNearTarget'
    <3>1. round' # 0
      BY <2>1
    <3> QED
      BY <3>1, Zenon DEF PoolNearTarget
  <2>14. round' \in Nat /\ round' <= cfg.Rounds
    <3>1. ASSUME NEW m \in Int, round < m PROVE round + 1 <= m
      BY <2>1, <3>1
    <3>2. round + 1 <= cfg.Rounds
      BY <1>2, <1>3, <3>1, Zenon
    <3>3. round + 1 \in Nat
      BY <2>1
    <3> QED
      BY <1>7, <3>2, <3>3, Zenon
  <2>15. /\ phase' \in {"new", "running", "done", "refused", "failed"}
         /\ phase' \notin {"new", "refused", "done", "failed"}
    BY <1>2, <1>7
  <2>16. Normalise[cfg.Domain] # ""
    BY <1>1, <1>7
  <2> QED
    BY <1>2, <1>3, <2>4, <2>10, <2>11, <2>12, <2>13, <2>14, <2>15, <2>16, Zenon DEF SInv
<1> QED
  BY <1>2, <1>6, <1>7, Zenon

LEMMA NextSInv == SInv /\ [Next]_vars => SInv'
<1> SUFFICES ASSUME SInv, [Next]_vars PROVE SInv'
  OBVIOUS
<1>1. CASE \E reps \in Targets : Start(reps)
  BY <1>1, StartSInv, Zenon
<1>2. CASE \E x \in Draws(cfg) : simulateRound(x)
  BY <1>2, RoundSInv, Zenon
<1>3. CASE Finish
  BY <1>3, FinishSInv, Zenon
<1>4. CASE UNCHANGED vars
  <2>1. /\ cfg' = cfg /\ phase' = phase /\ targets' = targets /\ round' = round /\ pool' = pool
        /\ windows' = windows /\ report' = report /\ truths' = truths /\ flagged' = flagged
    BY <1>4, Zenon DEF vars
  <2>2. PoolNearTarget'
    BY <2>1, Zenon DEF SInv, PoolNearTarget
  <2>3. (\A i \in DOMAIN pool' : Honest(i)') <=> \A i \in DOMAIN pool : Honest(i)
    BY <2>1, Zenon DEF Honest
  <2> QED
    BY <2>1, <2>2, <2>3, Zenon DEF SInv
<1> QED
  BY <1>1, <1>2, <1>3, <1>4, Zenon DEF Next, Returned

\* An honest validator's score does not fall in a step.
LEMMA NextKeepsHonest ==
    ASSUME SInv, [Next]_vars, NEW i \in DOMAIN pool, Honest(i)
    PROVE  Score(pool'[i].record, cfg.Domain) >= Score(pool[i].record, cfg.Domain)
<1>1. phase \notin {"new", "refused"}
  <2>1. CASE phase \in {"new", "refused"}
    <3>1. pool = <<>>
      BY <2>1, Zenon DEF SInv
    <3> QED
      BY <3>1
  <2> QED
    BY <2>1
<1>2. cfg \in Configs /\ Validate(cfg) /\ IsPool(pool, cfg)
  BY <1>1, Zenon DEF SInv
<1>3. i \in 0..(cfg.ValidatorPoolSize - 1)
  BY <1>2, Zenon DEF IsPool
<1>4. ASSUME pool' = pool
      PROVE  Score(pool'[i].record, cfg.Domain) >= Score(pool[i].record, cfg.Domain)
  <2>1. IsRecord(pool[i].record)
    BY <1>2, <1>3, Zenon DEF IsPool, IsMember
  <2>2. PICK s : s = Score(pool[i].record, cfg.Domain)
    OBVIOUS
  <2>3. s \in Nat
    BY <2>1, <2>2, ScoreRange, ScoreFacts, Zenon
  <2>4. s >= s
    BY <2>3
  <2> QED
    BY <1>4, <2>2, <2>4, Zenon
<1>5. CASE \E reps \in Targets : Start(reps)
  <2>1. phase = "new"
    BY <1>5, Zenon DEF Start
  <2> QED
    BY <1>1, <2>1
<1>6. CASE \E x \in Draws(cfg) : simulateRound(x)
  <2>1. PICK x \in Draws(cfg) : simulateRound(x)
    BY <1>6
  <2>2. Entered(x)
    BY <2>1, EnteredBySInv, Zenon
  <2>3. pool' = pool \/ (~Fails(x) /\ pool' = PoolAfter(x))
    BY <2>1, RoundParts, Zenon
  <2>4. ASSUME ~Fails(x) /\ pool' = PoolAfter(x)
        PROVE  Score(pool'[i].record, cfg.Domain) >= Score(pool[i].record, cfg.Domain)
    BY <1>3, <2>2, <2>4, MemberAfter, Zenon
  <2> QED
    BY <1>4, <2>3, <2>4, Zenon
<1>7. CASE Finish
  <2>1. pool' = pool
    BY <1>7, Zenon DEF Finish
  <2> QED
    BY <1>4, <2>1, Zenon
<1>8. CASE UNCHANGED vars
  <2>1. pool' = pool
    BY <1>8, Zenon DEF vars
  <2> QED
    BY <1>4, <2>1, Zenon
<1> QED
  BY <1>5, <1>6, <1>7, <1>8, Zenon DEF Next, Returned

-----------------------------------------------------------------------------
\* In every state of every run, the pool, the report and the bias windows are as
\* SInv says: Init gives it, and Start, a round and Finish preserve it.
THEOREM Invariant == Spec => []SInv
BY InitSInv, NextSInv, PTL DEF Spec

\* Scores stay in [0.0, 1.0], and so do the rates of a finished report, for any
\* config, any reputations drawn for the pool and any random numbers.
THEOREM TypeCorrect == Spec => []TypeOK
<1>1. SInv => TypeOK
  <2> SUFFICES ASSUME SInv PROVE TypeOK
    OBVIOUS
  <2>1. phase \in {"new", "running", "done", "refused", "failed"}
    BY Zenon DEF SInv
  <2>2. ASSUME phase \notin {"new", "refused"} PROVE round \in 0..cfg.Rounds
    <3>1. round \in Nat /\ round <= cfg.Rounds /\ cfg \in Configs /\ Validate(cfg)
      BY <2>2, Zenon DEF SInv
    <3>2. cfg.Rounds \in Nat \ {0}
      BY <3>1, SizesOfConfig, Zenon
    <3>3. \A a \in Nat, b \in Nat \ {0} : a <= b => a \in 0..b
      OBVIOUS
    <3> QED
      BY <3>1, <3>2, <3>3, Zenon
  <2>3. ASSUME NEW i \in DOMAIN pool PROVE R!DomainScore(pool[i].record, cfg.Domain) \in 0..R!One
    <3>1. phase \notin {"new", "refused"}
      <4>1. CASE phase \in {"new", "refused"}
        <5>1. pool = <<>>
          BY <4>1, Zenon DEF SInv
        <5> QED
          BY <5>1
      <4> QED
        BY <4>1
    <3>2. IsPool(pool, cfg)
      BY <3>1, Zenon DEF SInv
    <3>3. IsRecord(pool[i].record)
      BY <3>2, Zenon DEF IsPool, IsMember
    <3> QED
      BY <3>3, ScoreRange, Zenon DEF Score, Scores
  <2>4. phase = "done" => Rates(report)
    BY Zenon DEF SInv
  <2> QED
    BY <2>1, <2>2, <2>3, <2>4, Zenon DEF TypeOK, Rates
<1> QED
  BY <1>1, Invariant, PTL

\* The report is of the rounds that were run: each is counted under one verdict,
\* and the correct ones are among the decided ones.
THEOREM ReportIsOfTheRounds == Spec => []ReportAddsUp
<1>1. SInv => ReportAddsUp
  BY Zenon DEF SInv, Counts, ReportAddsUp
<1> QED
  BY <1>1, Invariant, PTL

\* The pool of any accepted config starts within 0.05 of the reputations drawn
\* for it: the 40 updates of injectDomainReputation are enough for every target.
THEOREM PoolIsNearTarget == Spec => []PoolNearTarget
<1>1. SInv => PoolNearTarget
  BY Zenon DEF SInv
<1> QED
  BY <1>1, Invariant, PTL

\* Of the configs that Validate accepts, exactly those with a blank domain fail,
\* in the first round; in no other round of any run core/consensus,
\* core/reputation or core/bias returns an error.
THEOREM NoRoundFails == Spec => []RoundsSucceed
<1>1. SInv => RoundsSucceed
  BY Zenon DEF SInv, RoundsSucceed
<1> QED
  BY <1>1, Invariant, PTL

\* In a network of honest validators of any size, consensus is the truth in
\* every round, undecided only where the truth is, and core/bias flags nobody.
THEOREM HonestNetwork == Spec => []HonestNetworkIsRight
<1>1. SInv => HonestNetworkIsRight
  BY Zenon DEF SInv, HonestNetworkIsRight
<1> QED
  BY <1>1, Invariant, PTL

\* No step of a run lowers an honest validator's reputation, whatever the other
\* validators vote and whatever the consensus of the round is.
THEOREM HonestReputation == Spec => HonestNeverFalls
<1>1. SInv /\ [Next]_vars =>
          [\A i \in DOMAIN pool :
              Honest(i) => R!DomainScore(pool'[i].record, cfg.Domain)
                               >= R!DomainScore(pool[i].record, cfg.Domain)]_vars
  BY NextKeepsHonest, Zenon DEF Score
<1> QED
  BY <1>1, Invariant, PTL DEF Spec, HonestNeverFalls
=============================================================================

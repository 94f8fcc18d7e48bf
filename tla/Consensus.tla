----------------------------- MODULE Consensus -----------------------------
(***************************************************************************)
(* core/consensus: the weighted aggregation of a session's votes.  The     *)
(* validators reveal their votes in any order, each at most once, and      *)
(* ComputeConsensus may be called on the votes revealed so far.            *)
(*                                                                         *)
(* Confidence, reputation and bias are integers in units of 1/Scale, and a *)
(* weight is their exact product: its rounding depends on the vote alone.  *)
(* The running sums of aggregateWeights are rounded as float64 sums are,   *)
(* for that depends on the order of the votes.                             *)
(***************************************************************************)
EXTENDS Integers, Sequences, Functions, FiniteSets, FiniteSetsExt

CONSTANTS
    Validators,   \* non-empty ids of the validators that may vote
    Ballots,      \* what a validator may reveal: a Vote without its ValidatorID
    SetSizes,     \* values of validatorSetSize a session may be run with
    Scale,        \* 1.0
    Significand,  \* a float64 is a spacing times at most this number: 2^53
    Ulps          \* the spacings of the float64 numbers, in units of the smallest

ASSUME ScaleAssumption == Scale \in Nat \ {0}

\* There are more significands than votes can make them err by.
ASSUME SignificandAssumption ==
    /\ Significand \in Nat \ {0} /\ Significand % 2 = 0
    /\ IsFiniteSet(Validators) /\ Significand >= 2 * Cardinality(Validators)

\* The spacings are powers of two.
ASSUME UlpsAssumption ==
    /\ IsFiniteSet(Ulps) /\ Ulps \subseteq Nat \ {0} /\ 1 \in Ulps
    /\ \A p, q \in Ulps : p < q => q % (2 * p) = 0

ASSUME SetSizesAssumption == SetSizes \subseteq Int

ASSUME BallotsAssumption == \A b \in Ballots : "ValidatorID" \in DOMAIN b

VARIABLES
    votes,             \* the revealed votes, in the order they are passed
    validatorSetSize,  \* the second argument of ComputeConsensus
    result             \* what the last call returned, or NoResult

vars == <<votes, validatorSetSize, result>>

VerdictStates == {"SUPPORTED", "UNSUPPORTED", "MISLEADING", "INDETERMINATE"}

NoResult == [err |-> "none"]

-----------------------------------------------------------------------------
adjustedWeight(v) == v.Confidence * v.DomainReputation * (Scale - v.BiasCoefficient)

\* The distance of the floats around x: the largest at which the significand of
\* x is that of a normalised number.
Ulp(x) == Max({q \in Ulps : q = 1 \/ Significand * q <= 2 * x})

\* x as a float64: the nearest one, and of two the one with the even significand.
Round(x) ==
    LET q == Ulp(x)
        m == x \div q
        r == x % q
    IN  IF 2 * r < q \/ (2 * r = q /\ m % 2 = 0) THEN q * m ELSE q * (m + 1)

NoMass == [x \in VerdictStates \cup {"TotalMass"} |-> 0]

\* Mutant of aggregateWeights: a vote replaces the mass of its verdict.
aggregateLastWeights(vs) ==
    LET b[i \in 0..Len(vs)] ==
            IF i = 0 THEN NoMass
            ELSE [b[i - 1] EXCEPT ![vs[i].Verdict] = adjustedWeight(vs[i]),
                                  !["TotalMass"] = Round(@ + adjustedWeight(vs[i]))]
    IN  b[Len(vs)]

\* Mutant of aggregateWeights: the total is of the weights before bias correction.
aggregateUncorrectedTotal(vs) ==
    LET b[i \in 0..Len(vs)] ==
            IF i = 0 THEN NoMass
            ELSE [b[i - 1] EXCEPT ![vs[i].Verdict] = Round(@ + adjustedWeight(vs[i])),
                                  !["TotalMass"] = Round(@ + vs[i].Confidence * vs[i].DomainReputation * Scale)]
    IN  b[Len(vs)]

\* The mass of each verdict and the total, accumulated in one pass and rounded
\* at each addition: b[i] is the breakdown after i votes.
aggregateWeights(vs) ==
    LET b[i \in 0..Len(vs)] ==
            IF i = 0 THEN NoMass
            ELSE [b[i - 1] EXCEPT ![vs[i].Verdict] = Round(@ + adjustedWeight(vs[i])),
                                  !["TotalMass"] = Round(@ + adjustedWeight(vs[i]))]
    IN  b[Len(vs)]

\* The heaviest verdict; the earlier one of the list on a tie.
findWinner(b) ==
    LET heavier(w, c) == IF b[c] > b[w] THEN c ELSE w
    IN  heavier(heavier(heavier("SUPPORTED", "UNSUPPORTED"), "MISLEADING"), "INDETERMINATE")

\* Mutant of computeConfidence: the losing votes are averaged in.
computeConfidenceOfAll(vs, winner) ==
    LET weightedConfidenceSum ==
            SumFunction([i \in 1..Len(vs) |-> vs[i].Confidence * adjustedWeight(vs[i])])
        weightSum == SumFunction([i \in 1..Len(vs) |-> adjustedWeight(vs[i])])
    IN  IF weightSum = 0 THEN 0 ELSE weightedConfidenceSum \div weightSum

\* Mutant of computeConfidence: divided by the number of votes, not their weight.
computeConfidencePerVote(vs, winner) ==
    LET won == {i \in 1..Len(vs) : vs[i].Verdict = winner}
    IN  SumFunction([i \in won |-> vs[i].Confidence * adjustedWeight(vs[i])]) \div Cardinality(won)

computeConfidence(vs, winner) ==
    LET won == {i \in 1..Len(vs) : vs[i].Verdict = winner}
        weightedConfidenceSum == SumFunction([i \in won |-> vs[i].Confidence * adjustedWeight(vs[i])])
        weightSum == SumFunction([i \in won |-> adjustedWeight(vs[i])])
    IN  IF weightSum = 0 THEN 0 ELSE weightedConfidenceSum \div weightSum

validateVote(v) ==
    /\ v.ValidatorID # ""
    /\ v.Confidence \in 0..Scale
    /\ v.DomainReputation \in 0..Scale
    /\ v.BiasCoefficient \in 0..Scale
    /\ v.Verdict \in VerdictStates

\* participationRate < 2/3, for a set size of at least 1.
belowQuorum(n, size) == 3 * n < 2 * size

\* Mutant of noMajority: exactly half of the mass is enough.
lessThanHalf(winnerMass, totalMass) == 2 * winnerMass < totalMass

\* winnerMass / TotalMass <= 1/2.
noMajority(winnerMass, totalMass) == 2 * winnerMass <= totalMass

Failed(err) == [err |-> err]

Result(verdict, confidence, b) ==
    [err |-> "nil", Verdict |-> verdict, ConfidenceScore |-> confidence, Breakdown |-> b]

ComputeConsensus(vs, setSize) ==
    LET n      == Len(vs)
        size   == IF setSize <= 0 THEN n ELSE setSize
        b      == aggregateWeights(vs)
        winner == findWinner(b)
    IN  CASE n = 0 -> Failed("ErrNoVotes")
          [] n > 0 /\ \E i \in 1..n : ~validateVote(vs[i]) -> Failed("ErrInvalidVote")
          [] OTHER ->
                IF belowQuorum(n, size) \/ b["TotalMass"] = 0 \/ noMajority(b[winner], b["TotalMass"])
                THEN Result("INDETERMINATE", 0, b)
                ELSE Result(winner, computeConfidence(vs, winner), b)

-----------------------------------------------------------------------------
Init ==
    /\ votes = <<>>
    /\ validatorSetSize \in SetSizes
    /\ result = NoResult

\* A validator's vote joins the slice the session will pass.
Reveal(v, ballot) ==
    /\ \A i \in 1..Len(votes) : votes[i].ValidatorID # v
    /\ votes' = Append(votes, [ballot EXCEPT !.ValidatorID = v])
    /\ UNCHANGED <<validatorSetSize, result>>

Compute ==
    /\ result' = ComputeConsensus(votes, validatorSetSize)
    /\ UNCHANGED <<votes, validatorSetSize>>

Next ==
    \/ \E v \in Validators, ballot \in Ballots : Reveal(v, ballot)
    \/ Compute

Spec == Init /\ [][Next]_vars

-----------------------------------------------------------------------------
Decided(r) == r.err = "nil" /\ r.Verdict # "INDETERMINATE"

\* The result for the votes revealed so far.
Current == ComputeConsensus(votes, validatorSetSize)

\* A result has an error, or a verdict with a confidence in [0.0, 1.0] and a
\* mass for each verdict.
TypeOK ==
    /\ \A i \in 1..Len(votes) : votes[i].ValidatorID \in Validators
    /\ validatorSetSize \in SetSizes
    /\ \/ result.err \in {"none", "ErrNoVotes", "ErrInvalidVote"}
       \/ /\ result.err = "nil"
          /\ result.Verdict \in VerdictStates
          /\ result.ConfidenceScore \in 0..Scale
          /\ result.Breakdown \in [VerdictStates \cup {"TotalMass"} -> Nat]

\* The mass of the votes for the verdicts in S, added without rounding.
MassOf(vs, S) ==
    SumFunction([i \in {j \in 1..Len(vs) : vs[j].Verdict \in S} |-> adjustedWeight(vs[i])])

ExactMasses(vs) ==
    [x \in VerdictStates \cup {"TotalMass"} |->
        MassOf(vs, IF x = "TotalMass" THEN VerdictStates ELSE {x})]

\* Could rounding hide whether x has a majority?  Only if a sum was rounded, and
\* x leads all others, or trails them, by no more than the additions can err.
NearTie(vs, x) ==
    LET lead  == MassOf(vs, {x}) - MassOf(vs, VerdictStates \ {x})
        error == 6 * Len(vs) * MassOf(vs, VerdictStates)
    IN  /\ aggregateWeights(vs) # ExactMasses(vs)
        /\ Significand * lead \in (-error)..error

\* A verdict is decided exactly when two thirds of the validators voted and its
\* supporters outweigh all other voters together: outside the error of rounding
\* the running sums, the order of the candidates and the tie-break of
\* findWinner never decide it, and an exact half never does.
VerdictIsMajority ==
    LET r == Current
        quorum == validatorSetSize <= 0 \/ 3 * Len(votes) >= 2 * validatorSetSize
    IN  r.err = "nil" =>
            \A x \in VerdictStates \ {"INDETERMINATE"} :
                \/ NearTie(votes, x)
                \/ r.Verdict = x <=>
                       quorum /\ MassOf(votes, {x}) > MassOf(votes, VerdictStates \ {x})

\* Two orders of the same votes are given different verdicts only if, in one of
\* them, rounding could hide whether a verdict has a majority.
OrderDecidesOnlyTies ==
    LET r == Current
    IN  \A p \in Bijection(1..Len(votes), 1..Len(votes)) :
            LET reordered == [i \in 1..Len(votes) |-> votes[p[i]]]
                s         == ComputeConsensus(reordered, validatorSetSize)
            IN  /\ s.err = r.err
                /\ \/ r.err # "nil" \/ s.Verdict = r.Verdict
                   \/ \E x \in VerdictStates : NearTie(votes, x) \/ NearTie(reordered, x)

\* The confidence of a decided verdict is an average over its voters: it is
\* between the lowest and the highest confidence among those with any weight.
ConfidenceIsAverage ==
    LET r == Current
        won == {votes[i].Confidence : i \in {j \in 1..Len(votes) :
                    votes[j].Verdict = r.Verdict /\ adjustedWeight(votes[j]) > 0}}
    IN  Decided(r) => r.ConfidenceScore \in Min(won)..Max(won)

\* A vote that arrives late can overturn a decided verdict only if it is for
\* another verdict and has weight: one that bias correction has silenced leaves
\* it as it is, and so does one in favour, up to the error of rounding.
LateVoteKeepsVerdict ==
    [][LET r     == Current
           new   == votes'[Len(votes')]
           after == ComputeConsensus(votes', validatorSetSize')
           Kept  == Decided(after) /\ after.Verdict = r.Verdict
       IN  votes' # votes /\ Decided(r) /\ validateVote(new) =>
               /\ adjustedWeight(new) = 0 => Kept
               /\ new.Verdict = r.Verdict =>
                      Kept \/ NearTie(votes, r.Verdict) \/ NearTie(votes', r.Verdict)]_vars
=============================================================================

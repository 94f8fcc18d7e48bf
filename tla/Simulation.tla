----------------------------- MODULE Simulation -----------------------------
(***************************************************************************)
(* simulation: one Run, in which a pool of honest, biased and colluding    *)
(* validators goes through rounds of votes.  A round composes the core     *)
(* packages: core/consensus decides, core/reputation updates the records   *)
(* of the selected validators and core/bias observes them.                 *)
(*                                                                         *)
(* The random numbers are the arguments of the actions, in units of 1/100: *)
(* of a round, a record with the number for the truth, the selection (pool *)
(* indices in order) and by position in it the numbers for the confidence  *)
(* and for the choice of a biased validator.                               *)
(* Rates, confidences and bias are in that unit too, and so are scores in  *)
(* a vote: every score here is a whole number of them.                     *)
(***************************************************************************)
EXTENDS Integers, Sequences, SequencesExt, FiniteSets, FiniteSetsExt

CONSTANTS
    Configs,       \* arguments of Run
    Targets,       \* domainRep of each validator of a pool, in 1/10000: functions of the index
    Draws(_),      \* what the random numbers of a round may be, for a Config
    Normalise,     \* strings.ToLower(strings.TrimSpace(s)), a function
    ValidatorID(_), \* fmt.Sprintf("validator-%04d", i)
    Significand,   \* of core/consensus: a float64 is a spacing times at most this number
    Ulps           \* of core/consensus: the spacings

VARIABLES
    cfg,       \* the Config of the run
    phase,     \* "new", "running", "done", "refused" (by Validate) or "failed" (a round)
    targets,   \* history: the reputations the pool was to be given
    round,     \* rounds completed
    pool,      \* pool[i]: the simValidator with index i
    windows,   \* the windows of the bias tracker
    report,    \* the Report
    truths,    \* history: of how many rounds each verdict was the truth
    flagged    \* history: validators whose bias was over the threshold after some round

vars == <<cfg, phase, targets, round, pool, windows, report, truths, flagged>>

\* The domain of the run for core/bias, where a string is its segments.
NormaliseName(s) == <<Normalise[s[1]]>>
Trimmed(s) == s

R == INSTANCE Reputation WITH
        Validators <- {}, Domains <- {Normalise[s] : s \in DOMAIN Normalise} \ {""},
        Spellings <- DOMAIN Normalise, Blank <- "",
        Confidences <- {}, InactiveDays <- {}, DecayPower <- <<>>, MaxValidations <- 0,
        records <- <<>>

C == INSTANCE Consensus WITH
        Validators <- {}, Ballots <- {}, SetSizes <- {}, Scale <- 100,
        votes <- <<>>, validatorSetSize <- 0, result <- <<>>

B == INSTANCE Bias WITH
        ValidatorIDs <- {}, DomainNames <- {}, TrimSpace <- Trimmed, Normalise <- NormaliseName,
        Observations <- {}, Sizes <- {}, MaxObservations <- 0,
        windowSize <- 50, log <- <<>>

\* The fields of a Config are numbers, and a domain.
ASSUME ConfigsAssumption ==
    \A c \in Configs :
        /\ {c.ValidatorPoolSize, c.ValidatorSetSize, c.Rounds,
            c.CollusionRate, c.BiasRate, c.BiasStrength} \subseteq Int
        /\ c.Domain # "" => c.Domain \in DOMAIN Normalise

\* Lower-casing and trimming twice is the same as doing it once.
ASSUME NormaliseAssumption ==
    \A s \in DOMAIN Normalise :
        Normalise[s] # "" => Normalise[s] \in DOMAIN Normalise /\ Normalise[Normalise[s]] = Normalise[s]

\* An id is the prefix and a number.
ASSUME IdsAssumption ==
    \A c \in Configs : \A i \in 0..(c.ValidatorPoolSize - 1) : ValidatorID(i) # ""

\* domainRep is the mean of two numbers from EligibilityThreshold to 1.0.
ASSUME TargetsAssumption ==
    \A reps \in Targets, c \in Configs :
        \A i \in 0..(c.ValidatorPoolSize - 1) : reps[i] \in R!EligibilityThreshold..R!One

\* A random number is at least 0.0 and below 1.0.
ASSUME DrawsAssumption ==
    \A c \in Configs : \A x \in Draws(c) :
        /\ x.selected \in Seq(Nat)
        /\ x.truth \in 0..99
        /\ \A n \in 1..Len(x.selected) : x.confidence[n] \in 0..99 /\ x.choice[n] \in 0..99

\* As in core/consensus.
ASSUME FloatsAssumption ==
    /\ Significand \in Nat \ {0} /\ Significand % 2 = 0
    /\ IsFiniteSet(Ulps) /\ Ulps \subseteq Nat \ {0} /\ 1 \in Ulps
    /\ \A p, q \in Ulps : p < q => q % (2 * p) = 0

-----------------------------------------------------------------------------
MinValidatorPoolSize == 11
MinValidatorSetSize  == 3
MinRounds            == 1

Verdicts == {"SUPPORTED", "UNSUPPORTED", "MISLEADING", "INDETERMINATE"}

Validate(c) ==
    /\ c.ValidatorPoolSize >= MinValidatorPoolSize
    /\ c.ValidatorSetSize \in MinValidatorSetSize..c.ValidatorPoolSize
    /\ c.Rounds >= MinRounds
    /\ c.CollusionRate \in 0..100 /\ c.BiasRate \in 0..100 /\ c.BiasStrength \in 0..100
    /\ c.Domain # ""
    /\ c.CollusionRate > 0 => c.CollusionVerdict \in Verdicts

DefaultScenarioConfig(scenario) ==
    [ValidatorPoolSize |-> 100, ValidatorSetSize |-> 11, Rounds |-> 1000, Domain |-> "science",
     CollusionRate    |-> CASE scenario = "COLLUSION_15" -> 15
                            [] scenario = "COLLUSION_30" -> 30 [] OTHER -> 0,
     CollusionVerdict |-> IF scenario \in {"COLLUSION_15", "COLLUSION_30"} THEN "SUPPORTED" ELSE "",
     BiasRate         |-> IF scenario = "HIGH_BIAS" THEN 40 ELSE 0,
     BiasStrength     |-> IF scenario = "HIGH_BIAS" THEN 75 ELSE 0]

-----------------------------------------------------------------------------
\* The outcome of a vote that was cast in time.
VoteOutcome(id, domain, wasCorrect, confidence) ==
    [ValidatorID |-> id, Domain |-> domain, WasCorrect |-> wasCorrect,
     Confidence |-> 100 * confidence, Participated |-> TRUE, WasLate |-> FALSE]

\* Correct, confident outcomes are applied until the score is near the target;
\* an outcome that core/reputation refuses ends the loop.
raised(r0, id, domain, target, maxIterations) ==
    LET outcome == VoteOutcome(id, domain, TRUE, 90)
        after[i \in 0..maxIterations] ==
            IF i = 0 THEN r0
            ELSE LET r == after[i - 1]
                 IN  IF R!DomainScore(r, domain) < target - 500 /\ R!validateOutcome(outcome)
                     THEN R!UpdatedRecord(r, outcome) ELSE r
    IN  after[maxIterations]

\* Mutant of injectDomainReputation: too few iterations to reach the ceiling.
injectDomainReputationTen(r0, id, domain, target) == raised(r0, id, domain, target, 10)

injectDomainReputation(r0, id, domain, target) ==
    IF R!DomainScore(r0, domain) \in (target - 1000)..(target + 1000) THEN r0
    ELSE raised(r0, id, domain, target, 40)

buildValidatorPool(c, reps) ==
    LET colluderCount == (c.ValidatorPoolSize * c.CollusionRate) \div 100
        biasedCount   == (c.ValidatorPoolSize * c.BiasRate) \div 100
        fresh         == R!RecordOf(FALSE, [d \in {} |-> 0], 0)
    IN  [i \in 0..(c.ValidatorPoolSize - 1) |->
            [record        |-> injectDomainReputation(fresh, ValidatorID(i), c.Domain, reps[i]),
             isColluder    |-> i < colluderCount,
             biasDirection |-> IF i \in colluderCount..(colluderCount + biasedCount - 1)
                               THEN c.BiasStrength ELSE 0]]

generateGroundTruth(r) ==
    CASE r < 40 -> "SUPPORTED"
      [] r \in 40..79 -> "UNSUPPORTED"
      [] r \in 80..94 -> "MISLEADING"
      [] OTHER -> "INDETERMINATE"

oppositeVerdict(v) == IF v = "UNSUPPORTED" THEN "SUPPORTED" ELSE "UNSUPPORTED"

\* The first ValidatorSetSize indices of a permutation of the pool.
selectValidators(selected) ==
    /\ Len(selected) = cfg.ValidatorSetSize
    /\ IsInjective(selected)
    /\ Range(selected) \subseteq DOMAIN pool

generateClaimID(n) == <<"sim-claim", n>>

\* The vote of validator i, given the random numbers for its confidence and choice.
buildVote(i, truth, r, flip) ==
    LET sv == pool[i]
        biased == ~sv.isColluder /\ sv.biasDirection > 0
    IN  [ValidatorID      |-> ValidatorID(i),
         Verdict          |-> CASE sv.isColluder -> cfg.CollusionVerdict
                                [] biased /\ flip < sv.biasDirection -> oppositeVerdict(truth)
                                [] OTHER -> truth,
         Confidence       |-> CASE sv.isColluder -> 80 + (r * 20) \div 100
                                [] biased -> 40 + (r * 40) \div 100
                                [] OTHER -> 40 + (r * 50) \div 100,
         DomainReputation |-> R!DomainScore(sv.record, cfg.Domain) \div 100,
         BiasCoefficient  |-> sv.biasDirection]

\* Mutant of decision: the quorum is one of the whole pool.
decisionOfPool(votes) == C!ComputeConsensus(votes, cfg.ValidatorPoolSize)

\* The consensus of a round, in which everyone selected votes.
decision(votes) == C!ComputeConsensus(votes, cfg.ValidatorSetSize)

\* Mutant of computePopulationAverageFromVotes: the sum is not divided.
sumOfVotes(votes) ==
    IF votes = <<>> THEN 50
    ELSE SumFunction([n \in 1..Len(votes) |-> B!verdictScore[votes[n].Verdict]])

\* The mean verdict score of all votes, the validator's own included.
computePopulationAverageFromVotes(votes) ==
    IF votes = <<>> THEN 50
    ELSE SumFunction([n \in 1..Len(votes) |-> B!verdictScore[votes[n].Verdict]]) \div Len(votes)

\* Mutant of wasCorrect: a vote is measured against the verdict of the round.
agreesWithVerdict(vote, truth, verdict) == vote.Verdict = verdict

\* A vote is measured against the ground truth, decided or not.
wasCorrect(vote, truth, verdict) == vote.Verdict = truth

-----------------------------------------------------------------------------
newReport ==
    [TotalRounds |-> 0, CorrectRounds |-> 0, IndeterminateRounds |-> 0, VerdictAccuracy |-> 0,
     IndeterminateRate |-> 0, MeanParticipationRate |-> 0, BiasDetectionRate |-> 0,
     BiasedValidatorsDetected |-> 0, VerdictDistribution |-> [v \in Verdicts |-> 0],
     ReputationConvergence |-> 0]

\* Mutant of accumulate: an undecided round counts as correct when the truth is
\* INDETERMINATE.
accumulateMatches(rep, res) ==
    LET undecided == res.consensusVerdict = "INDETERMINATE"
    IN  [rep EXCEPT !.TotalRounds = @ + 1,
                    !.VerdictDistribution[res.consensusVerdict] = @ + 1,
                    !.IndeterminateRounds = IF undecided THEN @ + 1 ELSE @,
                    !.CorrectRounds = IF res.correct THEN @ + 1 ELSE @,
                    !.MeanParticipationRate = @ + res.participationRate,
                    !.BiasDetectionRate = IF res.biasDetectionEvents > 0 THEN @ + 1 ELSE @]

accumulate(rep, res) ==
    LET undecided == res.consensusVerdict = "INDETERMINATE"
    IN  [rep EXCEPT !.TotalRounds = @ + 1,
                    !.VerdictDistribution[res.consensusVerdict] = @ + 1,
                    !.IndeterminateRounds = IF undecided THEN @ + 1 ELSE @,
                    !.CorrectRounds = IF ~undecided /\ res.correct THEN @ + 1 ELSE @,
                    !.MeanParticipationRate = @ + res.participationRate,
                    !.BiasDetectionRate = IF res.biasDetectionEvents > 0 THEN @ + 1 ELSE @]

\* Is the bias of validator i at or over the moderate threshold, with windows ws?
overThreshold(ws, i) ==
    B!biasIn(ws, <<ValidatorID(i)>>, <<cfg.Domain>>).Coefficient >= B!BiasModerateThreshold

countBiasedValidators == Cardinality({i \in DOMAIN pool : overThreshold(windows, i)})

\* The derived metrics, in units of 1/100.
finalise(rep) ==
    LET total   == rep.TotalRounds
        decided == total - rep.IndeterminateRounds
        repSum  == SumFunction([i \in DOMAIN pool |-> R!DomainScore(pool[i].record, cfg.Domain)])
    IN  IF total = 0 THEN rep
        ELSE [rep EXCEPT !.MeanParticipationRate = @ \div total,
                         !.BiasDetectionRate = (100 * @) \div total,
                         !.VerdictAccuracy = IF decided > 0
                                             THEN (100 * rep.CorrectRounds) \div decided ELSE 0,
                         !.IndeterminateRate = (100 * rep.IndeterminateRounds) \div total,
                         !.ReputationConvergence = (repSum \div Cardinality(DOMAIN pool)) \div 100,
                         !.BiasedValidatorsDetected = countBiasedValidators]

-----------------------------------------------------------------------------
Init ==
    /\ cfg \in Configs
    /\ phase = "new"
    /\ targets = <<>>
    /\ round = 0
    /\ pool = <<>>
    /\ windows = [k \in {} |-> {}]
    /\ report = newReport
    /\ truths = [v \in Verdicts |-> 0]
    /\ flagged = {}

\* The part of Run before its loop.
Start(reps) ==
    /\ phase = "new"
    /\ \/ ~Validate(cfg) /\ phase' = "refused" /\ UNCHANGED <<targets, pool>>
       \/ /\ Validate(cfg)
          /\ phase' = "running"
          /\ targets' = reps
          /\ pool' = buildValidatorPool(cfg, reps)
    /\ UNCHANGED <<cfg, round, windows, report, truths, flagged>>

\* One iteration of Run's loop: simulateRound and accumulate.  An error of any of
\* the three packages ends Run, which then returns nothing but the error.
simulateRound(x) ==
    LET truth    == generateGroundTruth(x.truth)
        selected == x.selected
        votes  == [n \in 1..Len(selected) |->
                      buildVote(selected[n], truth, x.confidence[n], x.choice[n])]
        avg    == computePopulationAverageFromVotes(votes)
        result == decision(votes)
        outcome(n) == VoteOutcome(votes[n].ValidatorID, cfg.Domain,
                                  wasCorrect(votes[n], truth, result.Verdict), votes[n].Confidence)
        obs(n) == [ClaimID |-> generateClaimID(round), ValidatorVerdict |-> votes[n].Verdict,
                   PopulationAverageScore |-> avg]
        dom == NormaliseName(<<cfg.Domain>>)
        key(n) == B!key(<<votes[n].ValidatorID>>, dom)
        observed(n) == B!recordIn(windows, <<votes[n].ValidatorID>>, dom, obs(n))
        over   == {selected[n] : n \in {m \in 1..Len(selected) : overThreshold(observed(m), selected[m])}}
        recorded(n) == /\ Trimmed(<<votes[n].ValidatorID>>) # B!Blank
                       /\ dom # B!Blank
                       /\ B!validateObservation(obs(n))
        failed == \/ result.err # "nil"
                  \/ \E n \in 1..Len(selected) : ~R!validateOutcome(outcome(n)) \/ ~recorded(n)
    IN  /\ phase = "running"
        /\ round < cfg.Rounds
        /\ selectValidators(selected)
        /\ \/ failed /\ phase' = "failed" /\ UNCHANGED <<round, pool, windows, report, truths, flagged>>
           \/ /\ ~failed
              /\ pool' = [i \in DOMAIN pool |->
                             IF i \in Range(selected)
                             THEN LET n == CHOOSE m \in 1..Len(selected) : selected[m] = i
                                  IN  [pool[i] EXCEPT !.record = R!UpdatedRecord(@, outcome(n))]
                             ELSE pool[i]]
              /\ windows' = [k \in DOMAIN windows \cup {key(n) : n \in 1..Len(selected)} |->
                                IF \E n \in 1..Len(selected) : key(n) = k
                                THEN observed(CHOOSE n \in 1..Len(selected) : key(n) = k)[k]
                                ELSE windows[k]]
              /\ report' = accumulate(report,
                               [consensusVerdict    |-> result.Verdict,
                                correct             |-> result.Verdict = truth,
                                participationRate   |-> (100 * Len(votes)) \div cfg.ValidatorSetSize,
                                biasDetectionEvents |-> Cardinality(over)])
              /\ truths' = [truths EXCEPT ![truth] = @ + 1]
              /\ flagged' = flagged \cup over
              /\ round' = round + 1
              /\ UNCHANGED phase
        /\ UNCHANGED <<cfg, targets>>

\* The part of Run after its loop.
Finish ==
    /\ phase = "running"
    /\ round = cfg.Rounds
    /\ report' = finalise(report)
    /\ phase' = "done"
    /\ UNCHANGED <<cfg, targets, round, pool, windows, truths, flagged>>

\* Run has returned.
Returned == phase \in {"done", "refused", "failed"} /\ UNCHANGED vars

Next ==
    \/ \E reps \in Targets : Start(reps)
    \/ \E x \in Draws(cfg) : simulateRound(x)
    \/ Finish
    \/ Returned

Spec == Init /\ [][Next]_vars

-----------------------------------------------------------------------------
Honest(i) == ~pool[i].isColluder /\ pool[i].biasDirection = 0

\* Scores stay in [0.0, 1.0] and so do the rates of a finished report; the
\* accuracy, too, although undecided rounds are taken out of its divisor.
TypeOK ==
    /\ phase \in {"new", "running", "done", "refused", "failed"}
    /\ phase \notin {"new", "refused"} => round \in 0..cfg.Rounds
    /\ \A i \in DOMAIN pool : R!DomainScore(pool[i].record, cfg.Domain) \in 0..R!One
    /\ phase = "done" =>
           {report.VerdictAccuracy, report.IndeterminateRate, report.MeanParticipationRate,
            report.BiasDetectionRate, report.ReputationConvergence} \subseteq 0..100

\* The report is of the rounds that were run: each is counted under one verdict,
\* and the correct ones are among the decided ones.
ReportAddsUp ==
    LET d == report.VerdictDistribution
    IN  /\ report.TotalRounds = round
        /\ d["SUPPORTED"] + d["UNSUPPORTED"] + d["MISLEADING"] + d["INDETERMINATE"] = round
        /\ report.IndeterminateRounds = d["INDETERMINATE"]
        /\ report.CorrectRounds <= round - report.IndeterminateRounds

\* Repeated updates bring each validator of the pool to within 0.05 of the
\* reputation that was drawn for it.
PoolNearTarget ==
    phase = "running" /\ round = 0 /\ Normalise[cfg.Domain] # "" =>
        \A i \in DOMAIN pool :
            LET s == R!DomainScore(pool[i].record, cfg.Domain)
            IN  s - targets[i] \in -500..500

\* In a network without colluders and biased validators every round whose truth
\* is not INDETERMINATE is decided for the truth, the other rounds and no more are
\* left undecided, and nobody is ever taken for biased, whatever the reputations,
\* confidences and selections.
HonestNetworkIsRight ==
    pool # <<>> /\ (\A i \in DOMAIN pool : Honest(i)) =>
        /\ report.CorrectRounds = round - truths["INDETERMINATE"]
        /\ report.IndeterminateRounds = truths["INDETERMINATE"]
        /\ flagged = {}

\* An honest validator's reputation never falls, not even in a round that the
\* colluders win.
HonestNeverFalls ==
    [][\A i \in DOMAIN pool :
           Honest(i) => R!DomainScore(pool'[i].record, cfg.Domain)
                            >= R!DomainScore(pool[i].record, cfg.Domain)]_vars

\* Of the configs that Validate accepts, those with a blank domain fail, in the
\* first round, and no other ever meets an error of core/consensus,
\* core/reputation or core/bias, in whatever state earlier rounds left the pool.
RoundsSucceed ==
    /\ phase = "failed" => Normalise[cfg.Domain] = "" /\ round = 0
    /\ round > 0 => Normalise[cfg.Domain] # ""

\* BiasedValidatorsDetected counts the distinct validators who were flagged at
\* least once during the run.
FlaggedAreCounted ==
    phase = "done" => report.BiasedValidatorsDetected = Cardinality(flagged)
=============================================================================

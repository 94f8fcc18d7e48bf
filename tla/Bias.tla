-------------------------------- MODULE Bias --------------------------------
(***************************************************************************)
(* core/bias: a tracker with one sliding window of observations for each   *)
(* validator and domain, and the bias coefficient computed from a window.  *)
(*                                                                         *)
(* Scores are integers in units of 1/One.  The mean is truncated; as the   *)
(* thresholds are whole units it is on the same side of each of them as    *)
(* the exact mean.  A string is the sequence of its segments between ":",  *)
(* so that joining two with ":" is concatenation.                          *)
(***************************************************************************)
EXTENDS Integers, Sequences, SequencesExt

CONSTANTS
    ValidatorIDs,     \* validator ids callers pass
    DomainNames,      \* domain names callers pass
    TrimSpace(_),     \* strings.TrimSpace
    Normalise(_),     \* strings.ToLower(strings.TrimSpace(s))
    Observations,     \* observations callers pass, valid or not
    Sizes,            \* values of windowSize NewTracker is called with
    MaxObservations   \* bound on the observations accepted in all windows

One == 100

Blank == <<"">>      \* the empty string

BiasExclusionThreshold == 70
BiasHighThreshold      == 50
BiasModerateThreshold  == 30
DefaultWindowSize      == 50
MinObservationsForBias == 5

ASSUME SizesAssumption == Sizes \subseteq Nat

ASSUME BoundAssumption == MaxObservations \in Nat

\* The pairs that calls of the tracker are about.
Pairs == {<<TrimSpace(v), Normalise(d)>> : v \in ValidatorIDs, d \in DomainNames}

VARIABLES
    windowSize,   \* the tracker's windowSize
    windows,      \* the tracker's windows: key -> window
    log           \* history: log[pair] is every observation accepted for the pair

vars == <<windowSize, windows, log>>

-----------------------------------------------------------------------------
verdictScore ==
    [x \in {"SUPPORTED", "UNSUPPORTED", "MISLEADING", "INDETERMINATE"} |->
        CASE x = "SUPPORTED" -> One [] x = "UNSUPPORTED" -> 0 [] OTHER -> One \div 2]

validateObservation(obs) ==
    /\ TrimSpace(obs.ClaimID) # Blank
    /\ obs.ValidatorVerdict \in DOMAIN verdictScore
    /\ obs.PopulationAverageScore \in 0..One

NewWindow(validatorID, domain) ==
    [validatorID |-> validatorID, domain |-> domain, entries |-> <<>>]

\* Mutant of Add: the window grows to one more than its size.
AddThenEvict(w, obs) ==
    IF ~validateObservation(obs) THEN w
    ELSE LET kept == IF Len(w.entries) > windowSize THEN Tail(w.entries) ELSE w.entries
         IN  [w EXCEPT !.entries = Append(kept, obs)]

\* Mutant of Add: the newest observation is evicted.
AddEvictingNewest(w, obs) ==
    IF ~validateObservation(obs) THEN w
    ELSE LET kept == IF Len(w.entries) >= windowSize THEN Front(w.entries) ELSE w.entries
         IN  [w EXCEPT !.entries = Append(kept, obs)]

\* Mutant of Add: a full window starts afresh.
AddAfterReset(w, obs) ==
    IF ~validateObservation(obs) THEN w
    ELSE LET kept == IF Len(w.entries) >= windowSize THEN <<>> ELSE w.entries
         IN  [w EXCEPT !.entries = Append(kept, obs)]

\* Window.Add: an invalid observation leaves the window, a full window loses
\* its oldest one.
Add(w, obs) ==
    IF ~validateObservation(obs) THEN w
    ELSE LET kept == IF Len(w.entries) >= windowSize THEN Tail(w.entries) ELSE w.entries
         IN  [w EXCEPT !.entries = Append(kept, obs)]

classifyTier(coefficient) ==
    CASE coefficient >= BiasExclusionThreshold -> "SEVERE"
      [] coefficient \in BiasHighThreshold..(BiasExclusionThreshold - 1) -> "HIGH"
      [] coefficient \in BiasModerateThreshold..(BiasHighThreshold - 1) -> "MODERATE"
      [] OTHER -> "NEGLIGIBLE"

BiasResult(coefficient, count) ==
    [Coefficient |-> coefficient, Tier |-> classifyTier(coefficient),
     CorrectionFactor |-> One - coefficient, ObservationCount |-> count]

deviation(obs) ==
    LET d == verdictScore[obs.ValidatorVerdict] - obs.PopulationAverageScore
    IN  IF d < 0 THEN -d ELSE d

\* Mutant of ComputeBias: deviations to both sides cancel out.
ComputeSignedBias(w) ==
    LET n == Len(w.entries)
        total[i \in 0..n] ==
            IF i = 0 THEN 0
            ELSE total[i - 1] + verdictScore[w.entries[i].ValidatorVerdict]
                              - w.entries[i].PopulationAverageScore
    IN  BiasResult(IF n < MinObservationsForBias \/ total[n] < 0 THEN 0 ELSE total[n] \div n, n)

\* Window.ComputeBias.  The clamp to [0.0, 1.0] undoes float rounding only.
ComputeBias(w) ==
    LET n == Len(w.entries)
        totalDeviation[i \in 0..n] ==
            IF i = 0 THEN 0 ELSE totalDeviation[i - 1] + deviation(w.entries[i])
    IN  BiasResult(IF n < MinObservationsForBias THEN 0 ELSE totalDeviation[n] \div n, n)

IsEligibleForDomain(result) == result.Coefficient < BiasHighThreshold

\* validatorID + ":" + domain
key(validatorID, domain) == validatorID \o domain

\* No two pairs share a key.  Names without ":" guarantee it; the tracker does
\* not check that.
KeysAreUnique ==
    \A p, q \in Pairs : key(p[1], p[2]) = key(q[1], q[2]) => p = q

\* BiasFor a tracker with windows ws.
biasIn(ws, v, d) ==
    LET k == key(TrimSpace(v), Normalise(d))
    IN  IF k \in DOMAIN ws THEN ComputeBias(ws[k]) ELSE BiasResult(0, 0)

BiasFor(v, d) == biasIn(windows, v, d)

\* The windows ws after Record of an observation for a pair of names that are
\* not blank: a first call creates the window before the observation is
\* checked, so an invalid one may leave an empty window.
recordIn(ws, id, dom, obs) ==
    LET k == key(id, dom)
        w == IF k \in DOMAIN ws THEN ws[k] ELSE NewWindow(id, dom)
    IN  [j \in DOMAIN ws \cup {k} |-> IF j = k THEN Add(w, obs) ELSE ws[j]]

-----------------------------------------------------------------------------
\* NewTracker: 0 stands for the default, a size below the minimum is refused.
NewTracker(n) ==
    LET size == IF n = 0 THEN DefaultWindowSize ELSE n
    IN  /\ size >= MinObservationsForBias
        /\ windowSize = size
        /\ windows = [k \in {} |-> NewWindow(Blank, Blank)]

Init ==
    /\ \E n \in Sizes : NewTracker(n)
    /\ log = [q \in Pairs |-> <<>>]

\* Tracker.Record
Record(v, d, obs) ==
    LET id  == TrimSpace(v)
        dom == Normalise(d)
    IN  /\ id # Blank
        /\ dom # Blank
        /\ SumFunction([q \in Pairs |-> Len(log[q])]) < MaxObservations
        /\ windows' = recordIn(windows, id, dom, obs)
        /\ log' = [log EXCEPT ![<<id, dom>>] =
                      IF validateObservation(obs) THEN Append(@, obs) ELSE @]
        /\ UNCHANGED windowSize

Next == \E v \in ValidatorIDs, d \in DomainNames, obs \in Observations : Record(v, d, obs)

Spec == Init /\ [][Next]_vars

-----------------------------------------------------------------------------
\* No window holds more than windowSize observations, all of them valid, and a
\* coefficient is in [0.0, 1.0].
TypeOK ==
    /\ windowSize >= MinObservationsForBias
    /\ \A k \in DOMAIN windows :
           /\ Len(windows[k].entries) <= windowSize
           /\ \A i \in 1..Len(windows[k].entries) : validateObservation(windows[k].entries[i])
           /\ ComputeBias(windows[k]).Coefficient \in 0..One

\* The last windowSize observations of a sequence, or all of them.
Recent(s) == SubSeq(s, IF Len(s) > windowSize THEN Len(s) - windowSize + 1 ELSE 1, Len(s))

SumOfDeviations(s) == SumFunction([i \in 1..Len(s) |-> deviation(s[i])])

\* The bias of a validator in a domain, under any spelling, is the mean
\* deviation of the last windowSize observations recorded for that very pair,
\* and 0 when there are fewer than five: nothing older counts, nothing of
\* another validator or domain, and no refused observation.
BiasFollowsRecent ==
    \A v \in ValidatorIDs, d \in DomainNames :
        LET s == Recent(log[<<TrimSpace(v), Normalise(d)>>])
            b == BiasFor(v, d)
        IN  /\ b.ObservationCount = Len(s)
            /\ b.Coefficient = IF Len(s) < 5 THEN 0 ELSE SumOfDeviations(s) \div Len(s)

\* Once a coefficient is computed, one more observation moves it by at most the
\* share of one observation in the window (and a unit of truncation).
BiasMovesSlowly ==
    [][\A v \in ValidatorIDs, d \in DomainNames :
           LET before == BiasFor(v, d)
               after  == BiasFor(v, d)'
           IN  before.ObservationCount >= MinObservationsForBias =>
                   /\ (after.Coefficient - before.Coefficient - 1) * before.ObservationCount <= One
                   /\ (before.Coefficient - after.Coefficient - 1) * before.ObservationCount <= One]_vars

\* Once a coefficient is computed, a vote that agrees with the population never
\* costs the validator its place in the domain, whatever it evicts.
AgreementNeverExcludes ==
    [][\A v \in ValidatorIDs, d \in DomainNames :
           LET q == <<TrimSpace(v), Normalise(d)>>
           IN  /\ log'[q] # log[q] /\ deviation(Last(log'[q])) = 0
               /\ BiasFor(v, d).ObservationCount >= MinObservationsForBias
               /\ IsEligibleForDomain(BiasFor(v, d))
               => IsEligibleForDomain(BiasFor(v, d)')]_vars
=============================================================================

---------------------------- MODULE MCSimulation ----------------------------
(* Instances of Simulation for TLC. *)
EXTENDS Simulation, TLC

MCValidatorID(i) == "validator-" \o ToString(i)

MCNormalise == [s \in {"science", "Science", " "} |-> IF s = " " THEN "" ELSE "science"]

Small(scenario, rounds) ==
    [DefaultScenarioConfig(scenario) EXCEPT !.ValidatorPoolSize = 11, !.ValidatorSetSize = 5,
                                            !.Rounds = rounds]

\* The predefined scenarios for the smallest pool, a blank domain, and configs
\* that Validate refuses.
MCConfigs ==
    {[Small("HONEST_NETWORK", 5) EXCEPT !.Domain = "Science"], Small("COLLUSION_30", 3),
     [Small("HIGH_BIAS", 5) EXCEPT !.BiasRate = 10],
     [Small("HONEST_NETWORK", 1) EXCEPT !.Domain = " "],
     [Small("HONEST_NETWORK", 1) EXCEPT !.Domain = ""], Small("HONEST_NETWORK", 0),
     [Small("COLLUSION_30", 1) EXCEPT !.CollusionVerdict = "TRUE"],
     [Small("HIGH_BIAS", 1) EXCEPT !.BiasStrength = 101],
     [Small("HONEST_NETWORK", 1) EXCEPT !.ValidatorPoolSize = 10],
     [Small("HONEST_NETWORK", 1) EXCEPT !.ValidatorSetSize = 12]}

\* One biased validator, for long enough to be flagged and to recover.
FlaggedConfigs == {[Small("HIGH_BIAS", 6) EXCEPT !.BiasRate = 10]}

\* 2^20, and the spacings of the sums of five weights.
MCSignificand == 1048576
MCUlps == {1, 2, 4, 8}

\* A pool of average validators, and one in which the low indices, which
\* collude or are biased, are the strongest.
MCTargets == {[i \in 0..10 |-> 5500], [i \in 0..10 |-> 9900 - 840 * i]}

\* Rounds with a truth and a selection of the given sets; the confidences are
\* low or high, and 74 and 75 are the last number that makes a biased validator
\* of strength 0.75 flip and the first that does not.
Rounds(numbers, selections, choices) ==
    [truth : numbers, selected : selections,
     confidence : {[n \in 1..5 |-> 0], [n \in 1..5 |-> 90]},
     choice : {[n \in 1..5 |-> r] : r \in choices}]

\* 39 is SUPPORTED, 40 UNSUPPORTED, 80 MISLEADING and 95 INDETERMINATE.
MCDraws(c) ==
    CASE c.CollusionRate > 0 ->
             Rounds({39, 40, 95}, {<<0, 1, 2, 5, 9>>, <<10, 3, 4, 0, 7>>}, {75})
      [] c.BiasRate > 0 -> Rounds({39, 40}, {<<10, 3, 4, 0, 7>>}, {74, 75})
      [] OTHER -> Rounds({39, 40, 80, 95}, {<<10, 3, 4, 0, 7>>}, {75})

FlaggedDraws(c) == {x \in MCDraws(c) : x.truth = 39 /\ x.confidence[1] = 0}
=============================================================================

------------------------------- MODULE MCBias -------------------------------
(* Instances of Bias for TLC. *)
EXTENDS Bias

MCTrimSpace(s) == IF s = <<" ">> THEN Blank ELSE s

MCNormalise(s) == CASE s = <<"Sci">> -> <<"sci">> [] s = <<" ">> -> Blank [] OTHER -> s

Observation(verdict, average) ==
    [ClaimID |-> <<"c">>, ValidatorVerdict |-> verdict, PopulationAverageScore |-> average]

\* Deviations 0, 70 above and 50 below, and three that are refused.
MCObservations ==
    {Observation("SUPPORTED", 100), Observation("SUPPORTED", 30), Observation("MISLEADING", 100),
     Observation("TRUE", 50), Observation("SUPPORTED", 101),
     [Observation("SUPPORTED", 50) EXCEPT !.ClaimID = <<" ">>]}

\* 3 is refused by NewTracker and 0 stands for 50.
MCSizes == {0, 3, 5}

MCValidatorIDs == {<<"v1">>}
MCDomainNames == {<<"sci">>, <<"Sci">>, <<"bio">>, <<" ">>}

ASSUME NamesAssumption == KeysAreUnique
=============================================================================

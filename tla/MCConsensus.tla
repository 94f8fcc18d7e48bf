---------------------------- MODULE MCConsensus ----------------------------
(* The instance of Consensus that TLC checks. *)
EXTENDS Consensus, TLC

\* ValidatorID is filled in when the ballot is revealed.
Ballot(verdict, confidence, reputation, bias) ==
    [ValidatorID |-> "", Verdict |-> verdict, Confidence |-> confidence,
     DomainReputation |-> reputation, BiasCoefficient |-> bias]

\* Weights 128, 126, 1 and 0 (silenced by bias), and two ballots that
\* validateVote refuses.  With a significand of 128 two of the first three add
\* up exactly, except that 129 is rounded to 128, and 255 to 256: the total of
\* 128, 126 and 1 is 254 or 256, depending on the order.
MCBallots ==
    UNION {{Ballot(x, 8, 4, 6), Ballot(x, 3, 7, 4), Ballot(x, 1, 1, 9), Ballot(x, 3, 10, 10)} :
              x \in VerdictStates}
        \cup {Ballot("SUPPORTED", 11, 5, 0), Ballot("TRUE", 5, 5, 0)}

MCUlps == {1, 2, 4}

\* 0 stands for an unknown size; 3 voters are a quorum of 4 and not of 5.
MCSetSizes == {0, 3, 4, 5}

Symmetry == Permutations(Validators)
=============================================================================

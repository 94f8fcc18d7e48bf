------------------------------ MODULE MCMerkle ------------------------------
(* The instance of Merkle that TLC checks. *)
EXTENDS Merkle

Vote(id, verdict, bias) ==
    [validatorID |-> id, verdict |-> verdict, confidence |-> 8,
     domainReputation |-> 7, biasCoefficient |-> bias]

\* Two validators, one of whose ids contains a "|"; the third vote differs from
\* the first in its bias only.
V1 == Vote(<<"a">>, "SUPPORTED", 0)
V2 == Vote(<<"a", "b">>, "SUPPORTED", 0)
V3 == Vote(<<"a">>, "SUPPORTED", 3)

MCVotes == {V1, V2, V3, Vote(<<"b">>, "MISLEADING", 0)}

\* Trees of height 0 to 3, with odd layers at the bottom and further up.
MCVoteLists ==
    BoundedSeq({V1, V2}, 3) \cup {<<V1, V2, V3>>, <<V1, V2, V2, V1>>, <<V1, V2, V1, V1, V2>>,
                                  <<V2, V1, V2, V1, V1, V3>>}
=============================================================================

------------------------------ MODULE MCChain ------------------------------
(* The instance of Chain that TLC checks. *)
EXTENDS Chain

Claim(id, submitter, submittedAt) ==
    [claimID |-> id, contentHash |-> <<"h">>, submitterID |-> submitter,
     claimType |-> <<"FACTUAL">>, domain |-> <<"sci">>, epoch |-> 1, submittedAt |-> submittedAt]

Validation(id, verdict, finalizedAt) ==
    [claimID |-> id, verdict |-> verdict, confidenceScore |-> 900000, merkleRoot |-> <<"r">>,
     epoch |-> 2, finalizedAt |-> finalizedAt]

Score(validatorID, domain, amount) ==
    [validatorID |-> validatorID, domain |-> domain, score |-> amount, epoch |-> 3]

\* Two submitters of one claim, with and without a time, another claim whose id
\* begins alike, and a record that Validate would refuse.
MCClaimRecords ==
    {Claim(<<"c">>, s, t) : s \in {<<"s1">>, <<"s2">>}, t \in {0, 5}}
        \cup {Claim(<<"c", "d">>, <<"s1">>, 6), Claim(<<>>, <<>>, 5)}

MCValidationRecords ==
    {Validation(<<"c">>, x, t) : x \in {<<"SUPPORTED">>, <<"MISLEADING">>}, t \in {0, 7}}

\* A score above 1.0, which the contract takes, and two pairs with one key.
MCReputationRecords ==
    {Score(<<"a">>, <<"c">>, 150000), Score(<<"a">>, <<"c">>, 650000),
     Score(<<"a">>, <<"c">>, 1000001),
     Score(<<"a">>, <<"b", "c">>, 500000), Score(<<"a", "b">>, <<"c">>, 700000)}
=============================================================================

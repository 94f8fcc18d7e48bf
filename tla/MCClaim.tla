------------------------------ MODULE MCClaim ------------------------------
(* The instance of Claim that TLC checks. *)
EXTENDS Claim

\* A string is its pieces, of which " " is white space.
MCTrimSpace(s) == SelectSeq(s, LAMBDA x : x # " ")
MCToLower(s) == [i \in 1..Len(s) |-> IF s[i] = "HASH" THEN "hash" ELSE IF s[i] = "Sci" THEN "sci" ELSE s[i]]

\* "short" has 19 characters, "long" 501, and every other word 20.
MCRuneCount(s) ==
    FoldLeft(LAMBDA n, x : n + (CASE x = " " -> 1 [] x = "short" -> 19 [] x = "long" -> 501 [] OTHER -> 20), 0, s)

MCIsURL(s) == s # <<"path">>

Input ==
    [ClaimText |-> <<"text">>, ClaimType |-> "FACTUAL", DomainTags |-> {<<"sci">>},
     GeographicScope |-> "LOCAL", TimeReference |-> [instant |-> 1, zone |-> "UTC"],
     ContentHash |-> <<"hash">>, ContentURL |-> <<"url">>, SubmitterID |-> <<"sub">>]

\* One claim in several spellings, claims that differ from it in one field, and
\* one with blank tags only, which validateInput accepts.
ValidInputs ==
    {Input, [Input EXCEPT !.ClaimText = <<" ", "text">>, !.ContentHash = <<"HASH", " ">>,
                          !.DomainTags = {<<"Sci">>, <<" ">>}],
     [Input EXCEPT !.TimeReference = [instant |-> 1, zone |-> "IST"], !.SubmitterID = <<"sub", " ">>],
     [Input EXCEPT !.TimeReference = [instant |-> 2, zone |-> "UTC"]],
     [Input EXCEPT !.ClaimText = <<"other">>], [Input EXCEPT !.ContentHash = <<"hash2">>],
     [Input EXCEPT !.SubmitterID = <<"sub2">>], [Input EXCEPT !.DomainTags = {<<" ">>}]}

InvalidInputs ==
    {[Input EXCEPT !.ClaimText = x] : x \in {<<" ">>, <<"short">>, <<" ", "short">>, <<"long">>}}
        \cup {[Input EXCEPT !.ContentURL = x] : x \in {<<" ">>, <<"path">>}}
        \cup {[Input EXCEPT !.ClaimType = "OPINION"], [Input EXCEPT !.GeographicScope = "GLOBAL"],
              [Input EXCEPT !.DomainTags = {}], [Input EXCEPT !.TimeReference.instant = ZeroInstant],
              [Input EXCEPT !.SubmitterID = <<" ">>], [Input EXCEPT !.ContentHash = <<" ">>]}

MCInputs == ValidInputs \cup InvalidInputs

\* The inputs keep the contract of which ClaimProofs derives IdIffContent.
ASSUME ContractAssumption == FixedLengths
=============================================================================

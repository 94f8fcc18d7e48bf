------------------------------ MODULE MCStore ------------------------------
(* Instances of Store for TLC: the calls of each run. *)
EXTENDS StoreRefinement, TLC

MCNormalise(d) == CASE d = <<"Sci">> -> <<"sci">> [] d = <<" ">> -> Blank [] OTHER -> d

Vote(c, v, verdict) ==
    [ClaimID |-> c, ValidatorID |-> v, Verdict |-> verdict, inRange |-> TRUE]

Validation(c, d, e, verdict) ==
    [ClaimID |-> c, Domain |-> d, Epoch |-> e, Verdict |-> verdict, inRange |-> TRUE]

Do(op, arg) == [op |-> op, arg |-> arg]

C1 == <<"c1">>
C2 == <<"c2">>
V1 == <<"v1">>
V2 == <<"v2">>
E1 == <<"e1">>
E2 == <<"e2">>

\* Two verdicts of v1 on c1 race; v1 votes on another claim, v2 on c1.
VoteRequests ==
    {Do("WriteVote", v) : v \in {Vote(C1, V1, "SUPPORTED"), Vote(C1, V1, "MISLEADING"),
                                 Vote(C2, V1, "SUPPORTED"), Vote(C1, V2, "SUPPORTED"),
                                 Vote(C1, V1, "MAYBE")}}
        \cup {Do("ReadVote", [ClaimID |-> C1, ValidatorID |-> V1]),
              Do("VotesForClaim", C1), Do("VotesByValidator", V1)}

\* Two results for c1 race, in one domain under two spellings; c2 shares its
\* domain and has an epoch of its own.
ValidationRequests ==
    {Do("WriteValidationRecord", r) :
        r \in {Validation(C1, <<"Sci">>, E1, "SUPPORTED"),
               Validation(C1, <<"bio">>, E2, "MISLEADING"),
               Validation(C2, <<"sci">>, E2, "SUPPORTED"),
               Validation(C2, <<" ">>, E2, "SUPPORTED")}}
        \cup {Do("ReadValidationRecord", C1),
              Do("ValidationsByDomain", <<"Sci">>), Do("ValidationsByEpoch", E2)}

\* Claims are inserted and deleted, validator records replaced and deleted.
AdminRequests ==
    {Do("WriteClaim", [ClaimID |-> C1, Content |-> "a"]), Do("WriteClaim", Nil)}
        \cup {Do("WriteValidatorRecord", [ValidatorID |-> V1, Score |-> n]) : n \in {1, 2}}
        \cup {Do(op, C1) : op \in {"ReadClaim", "DeleteClaim"}}
        \cup {Do(op, V1) : op \in {"ReadValidatorRecord", "DeleteValidatorRecord"}}

RecordRequests == ValidationRequests \cup AdminRequests

\* A domain with a "/" in its name, and the query for the part before it.
NestedDomainRequests ==
    {Do("WriteValidationRecord", Validation(C1, <<"sci", "phys">>, E1, "SUPPORTED")),
     Do("ValidationsByDomain", <<"sci">>)}

\* Only the run about nested domains breaks the contract on names.
ASSUME NamesAssumption == Requests = NestedDomainRequests \/ FlatNames

Symmetry == Permutations(Clients)
=============================================================================

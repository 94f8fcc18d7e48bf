-------------------------- MODULE StoreRefinement --------------------------
(***************************************************************************)
(* Store implements StoreSpec.  A write takes effect at its commit, an     *)
(* error about a record and a read at their snapshot, and an index query   *)
(* at its first View: the records its second View reads are permanent.     *)
(***************************************************************************)
EXTENDS Store

\* The identity of the record stored under a primary key.
identity(k) ==
    IF k[1] = "vote" THEN <<"vote", db[k].ClaimID, db[k].ValidatorID>> ELSE k

primary == {k \in DOMAIN db : k[1] \in {"claim", "validator", "validation", "vote"}}

keyOf(i) == IF i[1] = "vote" THEN voteKey(i[2], i[3]) ELSE i

specRecords == [i \in {identity(k) : k \in primary} |-> db[keyOf(i)]]

specPhase ==
    [p \in Clients |-> CASE pc[p] \in {"called", "commit"} -> "pending"
                         [] pc[p] = "fetch" -> "answered"
                         [] OTHER -> pc[p]]

specResult ==
    [p \in Clients |->
        IF pc[p] = "fetch"
        THEN [err |-> "nil", val |-> {db[k] : k \in fetchKeys(p) \cap DOMAIN db}]
        ELSE res[p]]

Abstract == INSTANCE StoreSpec
    WITH Valid <- validate, records <- specRecords, phase <- specPhase,
         request <- req, result <- specResult

\* Every behaviour of the store, with its keys, indexes, transactions and
\* two-step queries, is one of the atomic table of records.
Refines == Abstract!Spec
=============================================================================

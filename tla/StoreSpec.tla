----------------------------- MODULE StoreSpec -----------------------------
(***************************************************************************)
(* What the store promises its callers: one table of records in which each *)
(* call takes effect at one instant between its start and its return, or   *)
(* returns an error and has no effect.  There are no keys put together     *)
(* from strings, no indexes and no transactions here.                      *)
(***************************************************************************)
EXTENDS Integers, Sequences

CONSTANTS Clients, Requests, Normalise(_), Valid(_)

VARIABLES
    records,   \* <<kind, id...>> -> record
    phase,     \* phase[p]: "idle", "pending", "answered" or "done"
    request,   \* request[p]: the call p is making, or made last
    result     \* result[p]: the answer a query has taken, or what the call returned

svars == <<records, phase, request, result>>

NoRequest == [op |-> "none", arg |-> <<"">>]
NoResult == [err |-> "none", val |-> {}]

\* The identity of the record a call is about.
Id(q) ==
    CASE q.op = "WriteClaim" -> <<"claim", q.arg.ClaimID>>
      [] q.op \in {"ReadClaim", "DeleteClaim"} -> <<"claim", q.arg>>
      [] q.op = "WriteValidatorRecord" -> <<"validator", q.arg.ValidatorID>>
      [] q.op \in {"ReadValidatorRecord", "DeleteValidatorRecord"} -> <<"validator", q.arg>>
      [] q.op = "WriteValidationRecord" -> <<"validation", q.arg.ClaimID>>
      [] q.op = "ReadValidationRecord" -> <<"validation", q.arg>>
      [] q.op \in {"WriteVote", "ReadVote"} -> <<"vote", q.arg.ClaimID, q.arg.ValidatorID>>

\* The record a write stores: a validation under its normalised domain.
Stored(q) ==
    IF q.op = "WriteValidationRecord"
    THEN [q.arg EXCEPT !.Domain = Normalise(q.arg.Domain)]
    ELSE q.arg

\* The records a query asks for.
Matches(q) ==
    {records[k] : k \in {i \in DOMAIN records :
        CASE q.op = "ValidationsByDomain" ->
                 i[1] = "validation" /\ records[i].Domain = Normalise(q.arg)
          [] q.op = "ValidationsByEpoch" -> i[1] = "validation" /\ records[i].Epoch = q.arg
          [] q.op = "VotesForClaim" -> i[1] = "vote" /\ records[i].ClaimID = q.arg
          [] q.op = "VotesByValidator" -> i[1] = "vote" /\ records[i].ValidatorID = q.arg}}

-----------------------------------------------------------------------------
Init ==
    /\ records = [i \in {} |-> NoRequest]
    /\ phase = [p \in Clients |-> "idle"]
    /\ request = [p \in Clients |-> NoRequest]
    /\ result = [p \in Clients |-> NoResult]

Invoke(p, q) ==
    /\ phase[p] \in {"idle", "done"}
    /\ phase' = [phase EXCEPT ![p] = "pending"]
    /\ request' = [request EXCEPT ![p] = q]
    /\ result' = [result EXCEPT ![p] = NoResult]
    /\ UNCHANGED records

Pending(p, ops) == phase[p] = "pending" /\ request[p].op \in ops /\ Valid(request[p])

Done(p, err, val) ==
    /\ phase' = [phase EXCEPT ![p] = "done"]
    /\ result' = [result EXCEPT ![p] = [err |-> err, val |-> val]]
    /\ UNCHANGED request

SetRecord(q) ==
    records' = [i \in DOMAIN records \cup {Id(q)} |-> IF i = Id(q) THEN Stored(q) ELSE records[i]]

\* Claims, validations and votes are written once.
Insert(p) ==
    /\ Pending(p, {"WriteClaim", "WriteValidationRecord", "WriteVote"})
    /\ \/ /\ Id(request[p]) \in DOMAIN records
          /\ Done(p, "ErrAlreadyExists", {})
          /\ UNCHANGED records
       \/ /\ Id(request[p]) \notin DOMAIN records
          /\ SetRecord(request[p])
          /\ Done(p, "nil", {})

Upsert(p) ==
    /\ Pending(p, {"WriteValidatorRecord"})
    /\ SetRecord(request[p])
    /\ Done(p, "nil", {})

Delete(p) ==
    /\ Pending(p, {"DeleteClaim", "DeleteValidatorRecord"})
    /\ \/ /\ Id(request[p]) \notin DOMAIN records
          /\ Done(p, "NotFound", {})
          /\ UNCHANGED records
       \/ /\ Id(request[p]) \in DOMAIN records
          /\ records' = [i \in DOMAIN records \ {Id(request[p])} |-> records[i]]
          /\ Done(p, "nil", {})

Read(p) ==
    /\ Pending(p, {"ReadClaim", "ReadValidatorRecord", "ReadValidationRecord", "ReadVote"})
    /\ IF Id(request[p]) \in DOMAIN records
       THEN Done(p, "nil", {records[Id(request[p])]})
       ELSE Done(p, "NotFound", {})
    /\ UNCHANGED records

\* A query takes its answer from one state of the table, all matching records
\* and no other, and returns it then or later.
Answer(p) ==
    /\ Pending(p, {"ValidationsByDomain", "ValidationsByEpoch", "VotesForClaim", "VotesByValidator"})
    /\ \E next \in {"answered", "done"} : phase' = [phase EXCEPT ![p] = next]
    /\ result' = [result EXCEPT ![p] = [err |-> "nil", val |-> Matches(request[p])]]
    /\ UNCHANGED <<records, request>>

Deliver(p) ==
    /\ phase[p] = "answered"
    /\ phase' = [phase EXCEPT ![p] = "done"]
    /\ UNCHANGED <<records, request, result>>

Invalid(p) ==
    /\ phase[p] = "pending"
    /\ ~Valid(request[p])
    /\ Done(p, "invalid", {})
    /\ UNCHANGED records

\* Calls that have had no effect yet return an error.
Abort(S, err) ==
    /\ \A p \in S : phase[p] \in {"pending", "answered"}
    /\ phase' = [p \in Clients |-> IF p \in S THEN "done" ELSE phase[p]]
    /\ result' = [p \in Clients |-> IF p \in S THEN [err |-> err, val |-> {}] ELSE result[p]]
    /\ UNCHANGED <<records, request>>

\* The process ends and starts again: the table is what it was.
Restart ==
    /\ phase' = [p \in Clients |-> "idle"]
    /\ request' = [p \in Clients |-> NoRequest]
    /\ result' = [p \in Clients |-> NoResult]
    /\ UNCHANGED records

Next ==
    \/ \E p \in Clients :
          \/ \E q \in Requests : Invoke(p, q)
          \/ Insert(p) \/ Upsert(p) \/ Delete(p) \/ Read(p)
          \/ Answer(p) \/ Deliver(p) \/ Invalid(p)
    \/ \E S \in SUBSET Clients, err \in {"ErrConflict", "ErrDBClosed", "error"} : Abort(S, err)
    \/ Restart

Spec == Init /\ [][Next]_svars
=============================================================================

------------------------------- MODULE Store -------------------------------
(***************************************************************************)
(* store: the node's local state store over BadgerDB, called by concurrent *)
(* goroutines (Clients), with node shutdown, crash and restart.            *)
(*                                                                         *)
(* A Badger transaction reads the snapshot of its begin, so the body of an *)
(* Update or View closure is one step; an Update that wrote something      *)
(* commits in a later step, where it fails with ErrConflict if a key it    *)
(* read was committed by another transaction since its begin.  db.Update   *)
(* does not retry.  A View closure is one step; the index queries run two. *)
(*                                                                         *)
(* A name is the sequence of its segments between "/", and a key is the    *)
(* pair of its prefix constant and the names after it: "vote/c/v" is       *)
(* <<"vote", c \o v>>.  JSON encoding round-trips and is left out; a       *)
(* record's numeric ranges are the one flag inRange.                       *)
(***************************************************************************)
EXTENDS Integers, Sequences, SequencesExt

CONSTANTS
    Clients,     \* goroutines that call the store
    Requests,    \* the calls they may make: [op |-> method, arg |-> argument]
    Normalise(_) \* strings.ToLower(strings.TrimSpace(domain))

\* The methods that are called concurrently.
Methods ==
    {"WriteClaim", "ReadClaim", "DeleteClaim",
     "WriteValidatorRecord", "ReadValidatorRecord", "DeleteValidatorRecord",
     "WriteValidationRecord", "ReadValidationRecord", "ValidationsByDomain",
     "ValidationsByEpoch", "WriteVote", "ReadVote", "VotesForClaim", "VotesByValidator"}

ASSUME RequestsAssumption ==
    \A q \in Requests :
        /\ q.op \in Methods
        /\ q.op = "WriteValidationRecord" => {"ClaimID", "Domain", "Epoch"} \subseteq DOMAIN q.arg

VARIABLES
    db,      \* committed keys -> value
    node,    \* "open", "closed" (Close was called) or "down" (no process)
    pc,      \* pc[p]: "idle", "called", "commit", "fetch" or "done"
    req,     \* req[p]: the call p is making, or made last
    stale,   \* stale[p]: a key p's transaction read was committed since its begin
    ids,     \* ids[p]: identifiers an index query has scanned
    res      \* res[p]: what p's last call returned

vars == <<db, node, pc, req, stale, ids, res>>

Empty == [index |-> "empty"]     \* the value []byte{} of an index entry

-----------------------------------------------------------------------------
claimKey(claimID)                == <<"claim", claimID>>
validatorKey(validatorID)        == <<"validator", validatorID>>
validationKey(claimID)           == <<"validation", claimID>>
voteKey(claimID, validatorID)    == <<"vote", claimID \o validatorID>>
idxDomainKey(domain, claimID)    == <<"idx/domain", domain \o claimID>>
idxEpochKey(epoch, claimID)      == <<"idx/epoch", epoch \o claimID>>
idxVoteByValidatorKey(validatorID, claimID) ==
    <<"idx/vote_by_validator", validatorID \o claimID>>

\* Mutant of keysUnder: the name is left out of the prefix.
keysOfSpace(space, name) == {k \in DOMAIN db : k[1] = space}

\* Keys under a prefix constant and a name: a "/" follows the name, so there is
\* at least one more segment.
keysUnder(space, name) ==
    {k \in DOMAIN db : k[1] = space /\ IsStrictPrefix(name, k[2])}

\* Mutant of claimIDFromIndex: the cut is one segment too early.
claimIDFromIndexOffByOne(key, name) == SubSeq(key[2], Len(name), Len(key[2]))

\* claimIDFromDomainIndex, claimIDFromEpochIndex, claimIDFromVoteByValidatorIndex:
\* what follows the prefix in the key.
claimIDFromIndex(key, name) == SubSeq(key[2], Len(name) + 1, Len(key[2]))

prefixScanKeys(space, name) == {claimIDFromIndex(k, name) : k \in keysUnder(space, name)}

-----------------------------------------------------------------------------
validVerdicts == {"SUPPORTED", "UNSUPPORTED", "MISLEADING", "INDETERMINATE"}

Blank == <<"">>                  \* the empty string: one empty segment
Nil == [pointer |-> "nil"]       \* a nil *Claim or *ValidatorRecord

\* A string trims to "" exactly when it normalises to "".
validateValidationRecord(r) ==
    /\ Normalise(r.ClaimID) # Blank
    /\ Normalise(r.Domain) # Blank
    /\ r.Verdict \in validVerdicts
    /\ r.inRange

validateVoteRecord(v) ==
    /\ Normalise(v.ClaimID) # Blank
    /\ Normalise(v.ValidatorID) # Blank
    /\ v.Verdict \in validVerdicts
    /\ v.inRange

\* What a method checks before it opens a transaction.
validate(q) ==
    CASE q.op = "WriteValidationRecord" -> validateValidationRecord(q.arg)
      [] q.op = "WriteVote" -> validateVoteRecord(q.arg)
      [] q.op \in {"WriteClaim", "WriteValidatorRecord"} -> q.arg # Nil
      [] OTHER -> TRUE

\* The primary key of a call on one record.
pk(q) ==
    CASE q.op = "WriteClaim" -> claimKey(q.arg.ClaimID)
      [] q.op \in {"ReadClaim", "DeleteClaim"} -> claimKey(q.arg)
      [] q.op = "WriteValidatorRecord" -> validatorKey(q.arg.ValidatorID)
      [] q.op \in {"ReadValidatorRecord", "DeleteValidatorRecord"} -> validatorKey(q.arg)
      [] q.op = "WriteValidationRecord" -> validationKey(q.arg.ClaimID)
      [] q.op = "ReadValidationRecord" -> validationKey(q.arg)
      [] q.op \in {"WriteVote", "ReadVote"} -> voteKey(q.arg.ClaimID, q.arg.ValidatorID)

\* The record a write stores: a validation's domain is normalised first.
recordOf(q) ==
    IF q.op = "WriteValidationRecord"
    THEN [q.arg EXCEPT !.Domain = Normalise(q.arg.Domain)]
    ELSE q.arg

\* Mutant of indexKeys: the domain entry is made from the name as given.
indexKeysAsGiven(q) ==
    LET r == q.arg
    IN  CASE q.op = "WriteValidationRecord" ->
                 {idxDomainKey(r.Domain, r.ClaimID), idxEpochKey(r.Epoch, r.ClaimID)}
          [] q.op = "WriteVote" -> {idxVoteByValidatorKey(r.ValidatorID, r.ClaimID)}
          [] OTHER -> {}

\* The index entries a write sets beside the record.
indexKeys(q) ==
    LET r == recordOf(q)
    IN  CASE q.op = "WriteValidationRecord" ->
                 {idxDomainKey(r.Domain, r.ClaimID), idxEpochKey(r.Epoch, r.ClaimID)}
          [] q.op = "WriteVote" -> {idxVoteByValidatorKey(r.ValidatorID, r.ClaimID)}
          [] OTHER -> {}

InsertOps == {"WriteClaim", "WriteValidationRecord", "WriteVote"}
DeleteOps == {"DeleteClaim", "DeleteValidatorRecord"}

\* Mutant of reads: an insert does not register the key it looked up.
readsOfDeletes(q) == IF q.op \in DeleteOps THEN {pk(q)} ELSE {}

\* Mutant of reads: an insert looks for duplicates among all keys of its kind.
readsOfKind(q) ==
    IF q.op \in InsertOps \cup DeleteOps
    THEN {pk(o) : o \in {x \in Requests : x.op = q.op}}
    ELSE {}

\* The keys the body of an Update reads (txn.Get), sets and deletes.
reads(q) == IF q.op \in InsertOps \cup DeleteOps THEN {pk(q)} ELSE {}
sets(q)  == IF q.op \in DeleteOps THEN {} ELSE {pk(q)} \cup indexKeys(q)
dels(q)  == IF q.op \in DeleteOps THEN {pk(q)} ELSE {}

-----------------------------------------------------------------------------
NoRequest == [op |-> "none", arg |-> Blank]

NoResult == [err |-> "none", val |-> {}]

Init ==
    /\ db = [k \in {} |-> Empty]
    /\ node = "open"
    /\ pc = [p \in Clients |-> "idle"]
    /\ req = [p \in Clients |-> NoRequest]
    /\ stale = [p \in Clients |-> FALSE]
    /\ ids = [p \in Clients |-> {}]
    /\ res = [p \in Clients |-> NoResult]

\* The call of p returns err and the records val.
Finish(p, err, val) ==
    /\ pc' = [pc EXCEPT ![p] = "done"]
    /\ res' = [res EXCEPT ![p] = [err |-> err, val |-> val]]
    /\ ids' = [ids EXCEPT ![p] = {}]

\* A goroutine calls a method of the store.
Call(p, q) ==
    /\ node # "down"
    /\ pc[p] \in {"idle", "done"}
    /\ pc' = [pc EXCEPT ![p] = "called"]
    /\ req' = [req EXCEPT ![p] = q]
    /\ res' = [res EXCEPT ![p] = NoResult]
    /\ UNCHANGED <<db, node, stale, ids>>

\* p is about to open a transaction for its call of method op.
Begins(p, op) ==
    /\ pc[p] = "called"
    /\ req[p].op = op
    /\ validate(req[p])
    /\ node = "open"

\* The closure returned nil after writing: what is left is the commit.
Prepare(p) ==
    /\ pc' = [pc EXCEPT ![p] = "commit"]
    /\ UNCHANGED <<db, node, req, stale, ids, res>>

\* The call returns and its transaction, if any, is discarded.
Returns(p, err, val) ==
    /\ Finish(p, err, val)
    /\ stale' = [stale EXCEPT ![p] = FALSE]
    /\ UNCHANGED <<db, node, req>>

\* The argument is refused: ErrInvalidRecord, or a plain error for a nil pointer.
Reject(p) ==
    /\ pc[p] = "called"
    /\ ~validate(req[p])
    /\ Returns(p, "invalid", {})

\* Mutant of InsertTxn: the key is written without looking it up.
UpsertTxn(p) == Prepare(p)

\* Mutant of InsertTxn: it waits for the key to be free.
WaitingInsertTxn(p) == pk(req[p]) \notin DOMAIN db /\ Prepare(p)

\* The Update closure of a write-once method.
InsertTxn(p) ==
    \/ pk(req[p]) \in DOMAIN db /\ Returns(p, "ErrAlreadyExists", {})
    \/ pk(req[p]) \notin DOMAIN db /\ Prepare(p)

\* Mutant of DeleteTxn: a missing record is not reported.
BlindDeleteTxn(p) == Prepare(p)

\* The Update closure of a delete.
DeleteTxn(p) ==
    \/ pk(req[p]) \notin DOMAIN db /\ Returns(p, "NotFound", {})
    \/ pk(req[p]) \in DOMAIN db /\ Prepare(p)

\* Mutant of ReadTxn: a missing record is neither returned nor reported.
ReadTxnQuietly(p) ==
    \/ pk(req[p]) \notin DOMAIN db /\ Returns(p, "nil", {})
    \/ pk(req[p]) \in DOMAIN db /\ Returns(p, "nil", {db[pk(req[p])]})

\* readValue of one key in a View.
ReadTxn(p) ==
    \/ pk(req[p]) \notin DOMAIN db /\ Returns(p, "NotFound", {})
    \/ pk(req[p]) \in DOMAIN db /\ Returns(p, "nil", {db[pk(req[p])]})

\* The scan of an index query: prefixScanKeys in a View of its own.
ScanTxn(p, space, name) ==
    /\ pc' = [pc EXCEPT ![p] = "fetch"]
    /\ ids' = [ids EXCEPT ![p] = prefixScanKeys(space, name)]
    /\ UNCHANGED <<db, node, req, stale, res>>

WriteClaim(p) == Begins(p, "WriteClaim") /\ InsertTxn(p)

ReadClaim(p) == Begins(p, "ReadClaim") /\ ReadTxn(p)

DeleteClaim(p) == Begins(p, "DeleteClaim") /\ DeleteTxn(p)

\* An upsert: it reads nothing, so it never conflicts.
WriteValidatorRecord(p) == Begins(p, "WriteValidatorRecord") /\ Prepare(p)

ReadValidatorRecord(p) == Begins(p, "ReadValidatorRecord") /\ ReadTxn(p)

DeleteValidatorRecord(p) == Begins(p, "DeleteValidatorRecord") /\ DeleteTxn(p)

WriteValidationRecord(p) == Begins(p, "WriteValidationRecord") /\ InsertTxn(p)

ReadValidationRecord(p) == Begins(p, "ReadValidationRecord") /\ ReadTxn(p)

ValidationsByDomain(p) ==
    /\ Begins(p, "ValidationsByDomain")
    /\ ScanTxn(p, "idx/domain", Normalise(req[p].arg))

ValidationsByEpoch(p) ==
    /\ Begins(p, "ValidationsByEpoch")
    /\ ScanTxn(p, "idx/epoch", req[p].arg)

WriteVote(p) == Begins(p, "WriteVote") /\ InsertTxn(p)

ReadVote(p) == Begins(p, "ReadVote") /\ ReadTxn(p)

\* The votes are under the claim's own prefix: one View scans and decodes them.
VotesForClaim(p) ==
    /\ Begins(p, "VotesForClaim")
    /\ Returns(p, "nil", {db[k] : k \in keysUnder("vote", req[p].arg)})

VotesByValidator(p) ==
    /\ Begins(p, "VotesByValidator")
    /\ ScanTxn(p, "idx/vote_by_validator", req[p].arg)

\* Mutant of fetchKeys: the arguments of voteKey are swapped.
fetchKeysSwapped(p) ==
    IF req[p].op = "VotesByValidator"
    THEN {voteKey(req[p].arg, id) : id \in ids[p]}
    ELSE {validationKey(id) : id \in ids[p]}

\* The keys the second View of an index query reads.
fetchKeys(p) ==
    IF req[p].op = "VotesByValidator"
    THEN {voteKey(id, req[p].arg) : id \in ids[p]}
    ELSE {validationKey(id) : id \in ids[p]}

\* fetchValidationRecords, and the second View of VotesByValidator: one missing
\* record fails the whole query.
fetchRecords(p) ==
    /\ pc[p] = "fetch"
    /\ \/ fetchKeys(p) \subseteq DOMAIN db /\ Returns(p, "nil", {db[k] : k \in fetchKeys(p)})
       \/ ~(fetchKeys(p) \subseteq DOMAIN db) /\ Returns(p, "NotFound", {})

-----------------------------------------------------------------------------
\* A committing transaction whose reads are still current takes effect.  Every
\* open transaction that read a key it writes becomes stale.
CommitApplied(p) ==
    LET q == req[p]
    IN  /\ ~stale[p]
        /\ db' = [k \in (DOMAIN db \ dels(q)) \cup sets(q) |->
                     IF k \notin sets(q) THEN db[k]
                     ELSE IF k = pk(q) THEN recordOf(q) ELSE Empty]
        /\ stale' = [o \in Clients |->
                        IF o # p /\ pc[o] = "commit"
                           /\ reads(req[o]) \cap (sets(q) \cup dels(q)) # {}
                        THEN TRUE ELSE stale[o]]
        /\ Finish(p, "nil", {})
        /\ UNCHANGED <<node, req>>

Commit(p) ==
    /\ pc[p] = "commit"
    /\ \/ CommitApplied(p)
       \/ stale[p] /\ Returns(p, "ErrConflict", {})

\* Badger fails a transaction (I/O, encoding): nothing of it is applied.
Fail(p) ==
    /\ pc[p] \in {"called", "commit", "fetch"}
    /\ validate(req[p])
    /\ node = "open"
    /\ Returns(p, "error", {})

\* A call on a closed store.
CallClosed(p) ==
    /\ pc[p] = "called"
    /\ validate(req[p])
    /\ node = "closed"
    /\ Returns(p, "ErrDBClosed", {})

\* Calls that use the database when the store closes fail.
Close ==
    /\ node = "open"
    /\ node' = "closed"
    /\ LET inFlight(p) == pc[p] \in {"called", "commit", "fetch"} /\ validate(req[p])
       IN  /\ pc' = [p \in Clients |-> IF inFlight(p) THEN "done" ELSE pc[p]]
           /\ res' = [p \in Clients |->
                         IF inFlight(p) THEN [err |-> "ErrDBClosed", val |-> {}] ELSE res[p]]
    /\ ids' = [p \in Clients |-> {}]
    /\ stale' = [p \in Clients |-> FALSE]
    /\ UNCHANGED <<db, req>>

\* The process ends: what is committed stays, every call is gone.
Crash ==
    /\ node # "down"
    /\ node' = "down"
    /\ pc' = [p \in Clients |-> "idle"]
    /\ ids' = [p \in Clients |-> {}]
    /\ req' = [p \in Clients |-> NoRequest]
    /\ stale' = [p \in Clients |-> FALSE]
    /\ res' = [p \in Clients |-> NoResult]
    /\ UNCHANGED db

Open ==
    /\ node # "open"
    /\ node' = "open"
    /\ UNCHANGED <<db, pc, req, stale, ids, res>>

-----------------------------------------------------------------------------
\* The steps of the goroutine p inside its call.
Step(p) ==
    \/ WriteClaim(p) \/ ReadClaim(p) \/ DeleteClaim(p)
    \/ WriteValidatorRecord(p) \/ ReadValidatorRecord(p) \/ DeleteValidatorRecord(p)
    \/ WriteValidationRecord(p) \/ ReadValidationRecord(p)
    \/ ValidationsByDomain(p) \/ ValidationsByEpoch(p)
    \/ WriteVote(p) \/ ReadVote(p) \/ VotesForClaim(p) \/ VotesByValidator(p)
    \/ fetchRecords(p)
    \/ Commit(p)
    \/ Reject(p) \/ CallClosed(p)

Next ==
    \/ \E p \in Clients : \/ \E q \in Requests : Call(p, q)
                          \/ Step(p)
                          \/ Fail(p)
    \/ Close
    \/ Crash
    \/ Open

Spec == Init /\ [][Next]_vars

\* The Go scheduler runs every goroutine that can run.
FairSpec == Spec /\ \A p \in Clients : WF_vars(Step(p))

-----------------------------------------------------------------------------
\* The names that a call joins into a key or a prefix.
NamesOf(q) ==
    CASE q.op \in {"WriteVote", "ReadVote"} -> {q.arg.ClaimID, q.arg.ValidatorID}
      [] q.op = "WriteValidationRecord" -> {q.arg.ClaimID, Normalise(q.arg.Domain), q.arg.Epoch}
      [] q.op = "ValidationsByDomain" -> {Normalise(q.arg)}
      [] q.op \in {"ValidationsByEpoch", "VotesForClaim", "VotesByValidator"} -> {q.arg}
      [] OTHER -> {}

\* A name without "/" is one segment.
Flat(name) == Len(name) = 1 /\ name = <<name[1]>>

\* No such name contains "/".  The key schema relies on it and no method checks it.
FlatNames == \A q \in Requests : \A name \in NamesOf(q) : Flat(name)

Namespaces ==
    {"claim", "validator", "validation", "vote",
     "idx/domain", "idx/epoch", "idx/vote_by_validator"}

\* Namespaces whose keys no method deletes or replaces.
Permanent == Namespaces \ {"claim", "validator"}

QueryOps == {"ValidationsByDomain", "ValidationsByEpoch", "VotesByValidator"}

ReadOps == {"ReadClaim", "ReadValidatorRecord", "ReadValidationRecord", "ReadVote"}

\* The valid records that calls may write under a namespace.
RecordsOf(space) ==
    {recordOf(q) : q \in {x \in Requests :
        /\ validate(x)
        /\ x.op = CASE space = "claim" -> "WriteClaim"
                    [] space = "validator" -> "WriteValidatorRecord"
                    [] space = "validation" -> "WriteValidationRecord"
                    [] space = "vote" -> "WriteVote"}}

\* The namespace of the records a method answers with.
SpaceOf(op) ==
    CASE op = "ReadClaim" -> "claim"
      [] op = "ReadValidatorRecord" -> "validator"
      [] op \in {"ReadValidationRecord", "ValidationsByDomain", "ValidationsByEpoch"} -> "validation"
      [] op \in {"ReadVote", "VotesForClaim", "VotesByValidator"} -> "vote"

\* What the call q may answer: a call is refused exactly when its argument is
\* invalid, a duplicate is reported by an insert only, a conflict only by a method
\* that looks a key up before it writes, a missing record by all but the upsert,
\* the inserts and VotesForClaim; a read that succeeds returns one record and a
\* query any number, all of them valid ones of its kind, and any other call none.
IsAnswer(q, r) ==
    /\ r.err \in {"nil", "invalid", "error", "ErrDBClosed", "ErrAlreadyExists", "ErrConflict", "NotFound"}
    /\ r.err = "invalid" <=> ~validate(q)
    /\ r.err = "ErrAlreadyExists" => q.op \in InsertOps
    /\ r.err = "ErrConflict" => q.op \in InsertOps \cup DeleteOps
    /\ r.err = "NotFound" => q.op \in DeleteOps \cup ReadOps \cup QueryOps
    /\ IF r.err = "nil" /\ q.op \in ReadOps \cup QueryOps \cup {"VotesForClaim"}
       THEN /\ r.val \subseteq RecordsOf(SpaceOf(q.op))
            /\ q.op \in ReadOps => \E x \in r.val : r.val = {x}
       ELSE r.val = {}

\* Where a goroutine with the call q can be, and what the call can have returned.
IsCall(phase, q, r) ==
    /\ phase \in {"called", "commit", "fetch", "done"} => q \in Requests
    /\ phase \in {"commit", "fetch"} => validate(q)
    /\ phase = "commit" => q.op \in InsertOps \cup DeleteOps \cup {"WriteValidatorRecord"}
    /\ phase = "fetch" => q.op \in QueryOps
    /\ IF phase = "done" THEN IsAnswer(q, r) ELSE r = NoResult

\* Every call is where its method can be and has returned what its method can
\* return; every stored record is a valid one of its kind.
TypeOK ==
    /\ \A k \in DOMAIN db :
           /\ k[1] \in Namespaces
           /\ k[1] \in {"claim", "validator", "validation", "vote"} => db[k] \in RecordsOf(k[1])
    /\ node \in {"open", "closed", "down"}
    /\ pc \in [Clients -> {"idle", "called", "commit", "fetch", "done"}]
    /\ req \in [Clients -> Requests \cup {NoRequest}]
    /\ stale \in [Clients -> BOOLEAN]
    /\ DOMAIN ids = Clients /\ DOMAIN res = Clients
    /\ \A p \in Clients : IsCall(pc[p], req[p], res[p])

\* Votes and validations are write-once: whatever transactions race, close or
\* crash in between, a record that is stored is neither replaced nor lost, and
\* its index entries neither.
RecordsWriteOnce ==
    [][\A k \in DOMAIN db :
           k[1] \in Permanent => k \in DOMAIN db' /\ db'[k] = db[k]]_vars

\* Each record is listed where the queries look for it.
RecordsIndexed ==
    \A k \in DOMAIN db :
        LET r == db[k]
        IN  /\ k[1] = "validation" => /\ idxDomainKey(r.Domain, r.ClaimID) \in DOMAIN db
                                      /\ idxEpochKey(r.Epoch, r.ClaimID) \in DOMAIN db
            /\ k[1] = "vote" => idxVoteByValidatorKey(r.ValidatorID, r.ClaimID) \in DOMAIN db

\* Each index entry is the one of a stored record.
EntriesBacked ==
    \A i \in DOMAIN db :
        /\ i[1] \in {"idx/domain", "idx/epoch"} =>
               \E k \in DOMAIN db :
                   /\ k[1] = "validation"
                   /\ i \in {idxDomainKey(db[k].Domain, db[k].ClaimID),
                             idxEpochKey(db[k].Epoch, db[k].ClaimID)}
        /\ i[1] = "idx/vote_by_validator" =>
               \E k \in DOMAIN db :
                   k[1] = "vote" /\ i = idxVoteByValidatorKey(db[k].ValidatorID, db[k].ClaimID)

\* The secondary indexes agree with the records in every state, whatever
\* transactions race, fail or are cut short: each record is listed where the
\* queries look for it, and no index entry is left without its record.
IndexesAgree == RecordsIndexed /\ EntriesBacked

\* A WriteVote or WriteValidationRecord that returned nil stored the very record
\* it was given: of two concurrent writes of one key, only one returns nil.
AckedMeansStored ==
    \A p \in Clients :
        /\ pc[p] = "done"
        /\ req[p].op \in {"WriteVote", "WriteValidationRecord"}
        /\ res[p].err = "nil"
        => pk(req[p]) \in DOMAIN db /\ db[pk(req[p])] = recordOf(req[p])

\* ErrConflict from WriteVote or WriteValidationRecord, which the store does not
\* retry, is never spurious: the record was stored by another call, so a retry
\* could only return ErrAlreadyExists.
ConflictMeansStored ==
    \A p \in Clients :
        /\ pc[p] = "done"
        /\ req[p].op \in {"WriteVote", "WriteValidationRecord"}
        /\ res[p].err = "ErrConflict"
        => pk(req[p]) \in DOMAIN db

\* The queries return an empty slice, not an error, when nothing matches: an
\* index entry found by the first View always leads the second to a record.
QueriesFindTheirRecords ==
    \A p \in Clients :
        pc[p] = "done" /\ req[p].op \in QueryOps => res[p].err # "NotFound"

\* Every call returns, or ends with the process: no transaction waits for another.
CallsReturn ==
    \A p \in Clients : pc[p] = "called" ~> pc[p] \in {"done", "idle"}
=============================================================================

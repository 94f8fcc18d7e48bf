---------------------------- MODULE StoreProofs ----------------------------
(***************************************************************************)
(* Proofs about Store, for any number of clients and any requests: the     *)
(* write-once guarantee, the agreement of the indexes with the records,    *)
(* what a returned nil and a returned ErrConflict mean, and, where no name *)
(* contains "/", that the queries find their records and that the store    *)
(* implements the table of records of StoreSpec.                           *)
(***************************************************************************)
EXTENDS StoreRefinement, SequenceTheorems, TLAPS

\* Inserts whose records are never deleted.
KeptInserts == {"WriteVote", "WriteValidationRecord"}

IndexSpaces == {"idx/domain", "idx/epoch", "idx/vote_by_validator"}

UpdateOps == InsertOps \cup DeleteOps \cup {"WriteValidatorRecord"}

\* What the snapshot of a transaction about to commit still tells about db: if
\* it is not stale, the key an insert found absent is absent; if it is, the
\* record of a vote or a validation has been stored by another transaction.
SnapshotInv ==
    \A p \in Clients :
        /\ pc[p] = "commit" /\ ~stale[p] /\ req[p].op \in InsertOps => pk(req[p]) \notin DOMAIN db
        /\ stale[p] => pc[p] = "commit" /\ req[p].op \in InsertOps \cup DeleteOps
        /\ stale[p] /\ req[p].op \in KeptInserts => pk(req[p]) \in DOMAIN db

\* Index entries have the empty value.
IndexValues == \A k \in DOMAIN db : k[1] \in IndexSpaces => db[k] = Empty

SInv ==
    TypeOK /\ SnapshotInv /\ IndexValues /\ IndexesAgree /\ AckedMeansStored /\ ConflictMeansStored

\* The write-once property of one step.
Kept == \A k \in DOMAIN db : k[1] \in Permanent => k \in DOMAIN db' /\ db'[k] = db[k]

-----------------------------------------------------------------------------
\* The namespace of the primary key of each method that updates the store.
LEMMA PrimarySpace ==
    ASSUME NEW q
    PROVE  /\ q.op = "WriteClaim" => pk(q)[1] = "claim"
           /\ q.op = "DeleteClaim" => pk(q)[1] = "claim"
           /\ q.op = "WriteValidatorRecord" => pk(q)[1] = "validator"
           /\ q.op = "DeleteValidatorRecord" => pk(q)[1] = "validator"
           /\ q.op = "WriteValidationRecord" => pk(q)[1] = "validation"
           /\ q.op = "WriteVote" => pk(q)[1] = "vote"
  BY DEF pk, claimKey, validatorKey, validationKey, voteKey

\* Index keys are in the index namespaces, and only two methods set any.
LEMMA IndexSpace ==
    ASSUME NEW q, NEW k \in indexKeys(q)
    PROVE  /\ k[1] \in IndexSpaces
           /\ q.op \in KeptInserts
           /\ q.op = "WriteVote" => k[1] = "idx/vote_by_validator"
           /\ q.op = "WriteValidationRecord" => k[1] \in {"idx/domain", "idx/epoch"}
<1>1. CASE q.op = "WriteValidationRecord"
  <2>1. \E d, e, c : k = idxDomainKey(d, c) \/ k = idxEpochKey(e, c)
    BY <1>1 DEF indexKeys
  <2>2. QED
    BY <1>1, <2>1 DEF IndexSpaces, KeptInserts, idxDomainKey, idxEpochKey
<1>2. CASE q.op = "WriteVote"
  <2>1. \E v, c : k = idxVoteByValidatorKey(v, c)
    BY <1>2 DEF indexKeys
  <2>2. QED
    BY <1>2, <2>1 DEF IndexSpaces, KeptInserts, idxVoteByValidatorKey
<1>3. CASE q.op # "WriteValidationRecord" /\ q.op # "WriteVote"
  <2>1. indexKeys(q) = {}
    BY <1>3 DEF indexKeys
  <2>2. QED
    BY <2>1
<1>4. QED
  BY <1>1, <1>2, <1>3

\* The namespace of the key of each method that reads one record.
LEMMA ReadSpace ==
    ASSUME NEW q, q.op \in ReadOps
    PROVE  pk(q)[1] = SpaceOf(q.op) /\ SpaceOf(q.op) \in {"claim", "validator", "validation", "vote"}
  BY DEF pk, claimKey, validatorKey, validationKey, voteKey, ReadOps, SpaceOf

\* What a write stores is a record of its namespace.
LEMMA RecordWritten ==
    ASSUME NEW q \in Requests, validate(q), q.op \in InsertOps \cup {"WriteValidatorRecord"}
    PROVE  recordOf(q) \in RecordsOf(pk(q)[1])
  BY PrimarySpace DEF RecordsOf, InsertOps

\* The answers that are the same for every valid call, and those of each kind.
LEMMA Answers ==
    ASSUME NEW q
    PROVE  /\ ~validate(q) => IsAnswer(q, [err |-> "invalid", val |-> {}])
           /\ validate(q) =>
                  /\ IsAnswer(q, [err |-> "error", val |-> {}])
                  /\ IsAnswer(q, [err |-> "ErrDBClosed", val |-> {}])
                  /\ q.op \in InsertOps => IsAnswer(q, [err |-> "ErrAlreadyExists", val |-> {}])
                  /\ q.op \in InsertOps \cup DeleteOps => IsAnswer(q, [err |-> "ErrConflict", val |-> {}])
                  /\ q.op \in DeleteOps \cup ReadOps \cup QueryOps => IsAnswer(q, [err |-> "NotFound", val |-> {}])
                  /\ q.op \in UpdateOps => IsAnswer(q, [err |-> "nil", val |-> {}])
                  /\ \A x \in RecordsOf(SpaceOf(q.op)) : q.op \in ReadOps => IsAnswer(q, [err |-> "nil", val |-> {x}])
                  /\ \A S \in SUBSET RecordsOf(SpaceOf(q.op)) :
                         q.op \in QueryOps \cup {"VotesForClaim"} => IsAnswer(q, [err |-> "nil", val |-> S])
  BY DEF IsAnswer, UpdateOps, InsertOps, DeleteOps, ReadOps, QueryOps

\* It is enough for the types that a step changes one goroutine's call only.
LEMMA TypeOfStep ==
    ASSUME TypeOK, NEW p \in Clients,
           \A k \in DOMAIN db' :
               /\ k[1] \in Namespaces
               /\ k[1] \in {"claim", "validator", "validation", "vote"} => db'[k] \in RecordsOf(k[1]),
           node' = node, pc' \in [Clients -> {"idle", "called", "commit", "fetch", "done"}],
           req' \in [Clients -> Requests \cup {NoRequest}], stale' \in [Clients -> BOOLEAN],
           DOMAIN ids' = Clients, DOMAIN res' = Clients,
           \A o \in Clients \ {p} : pc'[o] = pc[o] /\ req'[o] = req[o] /\ res'[o] = res[o],
           IsCall(pc'[p], req'[p], res'[p])
    PROVE  TypeOK'
<1>1. \A o \in Clients : IsCall(pc'[o], req'[o], res'[o])
  BY DEF TypeOK
<1>2. node' \in {"open", "closed", "down"}
  BY DEF TypeOK
<1> QED
  BY <1>1, <1>2 DEF TypeOK

\* The steps of a call that do not change the database: its answer is one it can have.
QuietStep(p) ==
    \/ /\ Prepare(p)
       /\ pc[p] = "called"
       /\ validate(req[p])
       /\ req[p].op \in UpdateOps
       /\ req[p].op \in InsertOps => pk(req[p]) \notin DOMAIN db
    \/ /\ \E err, val : /\ Returns(p, err, val)
                        /\ IsAnswer(req[p], [err |-> err, val |-> val])
                        /\ req[p].op \in KeptInserts => err # "nil"
                        /\ err = "ErrConflict" => stale[p]
       /\ pc[p] \in {"called", "commit", "fetch"}
    \/ /\ \E space, name : ScanTxn(p, space, name)
       /\ pc[p] = "called"
       /\ validate(req[p])
       /\ req[p].op \in QueryOps

LEMMA QuietReturn ==
    ASSUME NEW p \in Clients, NEW err, NEW val, Returns(p, err, val),
           pc[p] \in {"called", "commit", "fetch"}, IsAnswer(req[p], [err |-> err, val |-> val]),
           err # "nil" \/ req[p].op \notin KeptInserts, err # "ErrConflict" \/ stale[p]
    PROVE  QuietStep(p)
  BY DEF QuietStep

LEMMA StepForms ==
    ASSUME TypeOK, NEW p \in Clients, Step(p) \/ Fail(p),
           stale[p] => req[p].op \in InsertOps \cup DeleteOps
    PROVE  QuietStep(p) \/ (pc[p] = "commit" /\ CommitApplied(p))
<1> USE DEF KeptInserts, UpdateOps, InsertOps, DeleteOps, QueryOps
<1>1. CASE WriteClaim(p) \/ WriteValidationRecord(p) \/ WriteVote(p)
  <2>1. /\ pc[p] = "called" /\ validate(req[p]) /\ InsertTxn(p)
        /\ req[p].op \in InsertOps
    BY <1>1 DEF WriteClaim, WriteValidationRecord, WriteVote, Begins
  <2>2. IsAnswer(req[p], [err |-> "ErrAlreadyExists", val |-> {}])
    BY <2>1, Answers
  <2> QED
    BY <2>1, <2>2, QuietReturn DEF InsertTxn, QuietStep
<1>2. CASE DeleteClaim(p) \/ DeleteValidatorRecord(p)
  <2>1. /\ pc[p] = "called" /\ validate(req[p]) /\ DeleteTxn(p)
        /\ req[p].op \in DeleteOps
    BY <1>2 DEF DeleteClaim, DeleteValidatorRecord, Begins
  <2>2. IsAnswer(req[p], [err |-> "NotFound", val |-> {}])
    BY <2>1, Answers
  <2> QED
    BY <2>1, <2>2, QuietReturn DEF DeleteTxn, QuietStep
<1>3. CASE ReadClaim(p) \/ ReadValidatorRecord(p) \/ ReadValidationRecord(p) \/ ReadVote(p)
  <2>1. /\ pc[p] = "called" /\ validate(req[p]) /\ ReadTxn(p)
        /\ req[p].op \in ReadOps
    BY <1>3 DEF ReadClaim, ReadValidatorRecord, ReadValidationRecord, ReadVote, Begins, ReadOps
  <2>2. IsAnswer(req[p], [err |-> "NotFound", val |-> {}])
    BY <2>1, Answers
  <2>3. pk(req[p]) \in DOMAIN db => db[pk(req[p])] \in RecordsOf(SpaceOf(req[p].op))
    BY <2>1, ReadSpace DEF TypeOK, IsCall
  <2>4. pk(req[p]) \in DOMAIN db => IsAnswer(req[p], [err |-> "nil", val |-> {db[pk(req[p])]}])
    BY <2>1, <2>3, Answers
  <2>5. CASE pk(req[p]) \notin DOMAIN db /\ Returns(p, "NotFound", {})
    BY <2>1, <2>2, <2>5, QuietReturn DEF ReadOps
  <2>6. CASE pk(req[p]) \in DOMAIN db /\ Returns(p, "nil", {db[pk(req[p])]})
    <3>1. "nil" # "nil" \/ req[p].op \notin KeptInserts
      BY <2>1 DEF ReadOps
    <3> QED
      BY <2>1, <2>4, <2>6, <3>1, QuietReturn
  <2> QED
    BY <2>1, <2>5, <2>6 DEF ReadTxn
<1>4. CASE WriteValidatorRecord(p)
  BY <1>4 DEF WriteValidatorRecord, Begins, QuietStep
<1>5. CASE ValidationsByDomain(p) \/ ValidationsByEpoch(p) \/ VotesByValidator(p)
  BY <1>5 DEF ValidationsByDomain, ValidationsByEpoch, VotesByValidator, Begins, QuietStep
<1>6. CASE VotesForClaim(p)
  <2> DEFINE S == {db[k] : k \in keysUnder("vote", req[p].arg)}
  <2>1. /\ pc[p] = "called" /\ validate(req[p]) /\ Returns(p, "nil", S)
        /\ req[p].op = "VotesForClaim"
    BY <1>6 DEF VotesForClaim, Begins
  <2>2. S \in SUBSET RecordsOf(SpaceOf(req[p].op))
    BY <2>1 DEF TypeOK, IsCall, keysUnder, SpaceOf
  <2> HIDE DEF S
  <2>3. IsAnswer(req[p], [err |-> "nil", val |-> S])
    BY <2>1, <2>2, Answers
  <2> QED
    BY <2>1, <2>3, QuietReturn
<1>7. CASE fetchRecords(p)
  <2> DEFINE S == {db[k] : k \in fetchKeys(p)}
  <2>1. pc[p] = "fetch" /\ validate(req[p]) /\ req[p].op \in QueryOps
    BY <1>7 DEF fetchRecords, TypeOK, IsCall
  <2>2. IsAnswer(req[p], [err |-> "NotFound", val |-> {}])
    BY <2>1, Answers
  <2>3. fetchKeys(p) \subseteq DOMAIN db => S \in SUBSET RecordsOf(SpaceOf(req[p].op))
    <3>1. \A k \in fetchKeys(p) : k[1] = SpaceOf(req[p].op) /\ k[1] \in {"validation", "vote"}
      BY <2>1 DEF fetchKeys, voteKey, validationKey, SpaceOf
    <3> QED
      BY <3>1 DEF TypeOK, IsCall
  <2>4. \/ Returns(p, "nil", S) /\ fetchKeys(p) \subseteq DOMAIN db
        \/ Returns(p, "NotFound", {})
    BY <1>7 DEF fetchRecords
  <2> HIDE DEF S
  <2>5. fetchKeys(p) \subseteq DOMAIN db => IsAnswer(req[p], [err |-> "nil", val |-> S])
    BY <2>1, <2>3, Answers
  <2> QED
    BY <2>1, <2>2, <2>4, <2>5, QuietReturn
<1>8. CASE Commit(p)
  <2>1. /\ pc[p] = "commit" /\ validate(req[p]) /\ req[p].op \in UpdateOps
        /\ CommitApplied(p) \/ (stale[p] /\ Returns(p, "ErrConflict", {}))
    BY <1>8 DEF Commit, TypeOK, IsCall
  <2>2. CASE stale[p] /\ Returns(p, "ErrConflict", {})
    <3>1. IsAnswer(req[p], [err |-> "ErrConflict", val |-> {}])
      BY <2>1, <2>2, Answers
    <3> QED
      BY <2>1, <2>2, <3>1, QuietReturn
  <2> QED
    BY <2>1, <2>2
<1>9. CASE Reject(p) \/ CallClosed(p) \/ Fail(p)
  <2>1. CASE Reject(p)
    <3>1. IsAnswer(req[p], [err |-> "invalid", val |-> {}])
      BY <2>1, Answers DEF Reject
    <3> QED
      BY <2>1, <3>1, QuietReturn DEF Reject
  <2>2. CASE CallClosed(p)
    <3>1. IsAnswer(req[p], [err |-> "ErrDBClosed", val |-> {}])
      BY <2>2, Answers DEF CallClosed
    <3> QED
      BY <2>2, <3>1, QuietReturn DEF CallClosed
  <2>3. CASE Fail(p)
    <3>1. IsAnswer(req[p], [err |-> "error", val |-> {}])
      BY <2>3, Answers DEF Fail
    <3> QED
      BY <2>3, <3>1, QuietReturn DEF Fail
  <2> QED
    BY <1>9, <2>1, <2>2, <2>3
<1>10. QED
  BY <1>1, <1>2, <1>3, <1>4, <1>5, <1>6, <1>7, <1>8, <1>9 DEF Step

-----------------------------------------------------------------------------
\* A commit replaces or removes nothing permanent: what it deletes is a claim or
\* a validator record, and the key an insert sets is absent.
LEMMA CommitKeeps ==
    ASSUME SInv, NEW p \in Clients, pc[p] = "commit", CommitApplied(p)
    PROVE  /\ Kept
           /\ DOMAIN db' = (DOMAIN db \ dels(req[p])) \cup sets(req[p])
           /\ \A k \in DOMAIN db' : k \notin sets(req[p]) => db'[k] = db[k]
           /\ req[p].op \in InsertOps => pk(req[p]) \in DOMAIN db' /\ db'[pk(req[p])] = recordOf(req[p])
           /\ \A k \in sets(req[p]) \ {pk(req[p])} : db'[k] = Empty
<1> DEFINE q == req[p]
<1>1. q.op \in UpdateOps /\ ~stale[p]
  BY DEF SInv, TypeOK, IsCall, UpdateOps, CommitApplied
<1>2. db' = [k \in (DOMAIN db \ dels(q)) \cup sets(q) |->
                 IF k \notin sets(q) THEN db[k] ELSE IF k = pk(q) THEN recordOf(q) ELSE Empty]
  BY DEF CommitApplied
<1>3. q.op \in InsertOps => pk(q) \notin DOMAIN db
  BY <1>1 DEF SInv, SnapshotInv
<1>4. \A k \in dels(q) : k[1] \notin Permanent
  BY <1>1, PrimarySpace DEF dels, DeleteOps, Permanent
<1>5. q.op \in InsertOps => pk(q) \in sets(q)
  BY DEF sets, InsertOps, DeleteOps
<1>6. q.op \notin InsertOps => pk(q)[1] \notin Permanent
  BY <1>1, PrimarySpace DEF UpdateOps, InsertOps, DeleteOps, Permanent
<1>7. \A k \in sets(q) \ {pk(q)} : k[1] \in IndexSpaces
  BY IndexSpace DEF sets
<1> HIDE DEF q
<1>8. ASSUME NEW k \in DOMAIN db, k[1] \in Permanent
      PROVE  k \in DOMAIN db' /\ db'[k] = db[k]
  <2>1. k \in DOMAIN db'
    BY <1>2, <1>4, <1>8
  <2>2. CASE k \notin sets(q)
    BY <1>2, <2>1, <2>2
  <2>3. CASE k = pk(q)
    BY <1>3, <1>6, <1>8, <2>3
  <2>4. CASE k \in sets(q) \ {pk(q)}
    <3>1. db[k] = Empty
      BY <1>7, <2>4 DEF SInv, IndexValues
    <3>2. QED
      BY <1>2, <2>1, <2>4, <3>1
  <2>5. QED
    BY <2>2, <2>3, <2>4
<1>9. QED
  BY <1>2, <1>5, <1>8 DEF Kept, q

\* What a key set by an update can be.
LEMMA SetKeys ==
    ASSUME NEW q, q.op \in UpdateOps, NEW k \in sets(q)
    PROVE  /\ k[1] \in Namespaces
           /\ k[1] \in {"validation", "vote"} => k = pk(q) /\ q.op \in KeptInserts
           /\ k[1] = "validation" => q.op = "WriteValidationRecord"
           /\ k[1] = "vote" => q.op = "WriteVote"
           /\ k[1] \in IndexSpaces => k \in indexKeys(q) /\ k # pk(q)
<1>1. k = pk(q) \/ k \in indexKeys(q)
  BY DEF sets
<1>2. CASE k = pk(q)
  BY <1>2, PrimarySpace DEF UpdateOps, InsertOps, DeleteOps, KeptInserts, IndexSpaces, Namespaces, sets
<1>3. CASE k \in indexKeys(q)
  <2>1. pk(q)[1] \notin IndexSpaces
    BY PrimarySpace DEF UpdateOps, InsertOps, DeleteOps, IndexSpaces
  <2>2. k[1] \in IndexSpaces
    BY <1>3, IndexSpace
  <2>3. QED
    BY <1>3, <2>1, <2>2 DEF IndexSpaces, Namespaces
<1>4. QED
  BY <1>1, <1>2, <1>3

LEMMA CommitIndexes ==
    ASSUME SInv, NEW p \in Clients, pc[p] = "commit", CommitApplied(p)
    PROVE  IndexValues' /\ IndexesAgree'
<1> DEFINE q == req[p]
<1>1. q.op \in UpdateOps
  BY DEF SInv, TypeOK, IsCall, UpdateOps
<1>2. /\ Kept
      /\ DOMAIN db' = (DOMAIN db \ dels(q)) \cup sets(q)
      /\ \A k \in DOMAIN db' : k \notin sets(q) => db'[k] = db[k]
      /\ q.op \in InsertOps => pk(q) \in DOMAIN db' /\ db'[pk(q)] = recordOf(q)
      /\ \A k \in sets(q) \ {pk(q)} : db'[k] = Empty
  BY CommitKeeps
<1> HIDE DEF q
<1>3. \A k \in sets(q) :
          /\ k[1] \in {"validation", "vote"} => k = pk(q) /\ q.op \in KeptInserts
          /\ k[1] = "validation" => q.op = "WriteValidationRecord"
          /\ k[1] = "vote" => q.op = "WriteVote"
          /\ k[1] \in IndexSpaces => k \in indexKeys(q) /\ k # pk(q)
  BY <1>1, SetKeys
<1>4. IndexValues'
  <2> SUFFICES ASSUME NEW k \in DOMAIN db', k[1] \in IndexSpaces PROVE db'[k] = Empty
    BY DEF IndexValues, Empty
  <2>1. CASE k \in sets(q)
    BY <1>2, <1>3, <2>1
  <2>2. CASE k \notin sets(q)
    BY <1>2, <2>2 DEF SInv, IndexValues
  <2>3. QED
    BY <2>1, <2>2
<1>5. RecordsIndexed'
  <2> SUFFICES ASSUME NEW k \in DOMAIN db', k[1] \in {"validation", "vote"}
               PROVE  /\ k[1] = "validation" =>
                             /\ idxDomainKey(db'[k].Domain, db'[k].ClaimID) \in DOMAIN db'
                             /\ idxEpochKey(db'[k].Epoch, db'[k].ClaimID) \in DOMAIN db'
                      /\ k[1] = "vote" =>
                             idxVoteByValidatorKey(db'[k].ValidatorID, db'[k].ClaimID) \in DOMAIN db'
    BY DEF RecordsIndexed, idxDomainKey, idxEpochKey, idxVoteByValidatorKey
  <2>1. CASE k \notin sets(q)
    <3>1. k \in DOMAIN db /\ db'[k] = db[k]
      BY <1>2, <2>1
    <3>2. \A d, c : idxDomainKey(d, c)[1] \in Permanent /\ idxEpochKey(d, c)[1] \in Permanent
                     /\ idxVoteByValidatorKey(d, c)[1] \in Permanent
      BY DEF idxDomainKey, idxEpochKey, idxVoteByValidatorKey, Permanent, Namespaces
    <3>3. QED
      BY <1>2, <3>1, <3>2 DEF Kept, SInv, IndexesAgree, RecordsIndexed
  <2>2. CASE k \in sets(q)
    <3>1. k = pk(q) /\ q.op \in KeptInserts
      BY <1>3, <2>2
    <3>2. db'[k] = recordOf(q) /\ indexKeys(q) \subseteq DOMAIN db'
      BY <1>2, <3>1 DEF KeptInserts, InsertOps, DeleteOps, sets
    <3>3. CASE k[1] = "validation"
      BY <1>3, <2>2, <3>2, <3>3 DEF indexKeys
    <3>4. CASE k[1] = "vote"
      BY <1>3, <2>2, <3>2, <3>4 DEF indexKeys
    <3>5. QED
      BY <3>3, <3>4
  <2>3. QED
    BY <2>1, <2>2
<1>6. EntriesBacked'
  <2> DEFINE Backed(i) ==
          /\ i[1] \in {"idx/domain", "idx/epoch"} =>
                 \E k \in DOMAIN db' :
                     /\ k[1] = "validation"
                     /\ i \in {idxDomainKey(db'[k].Domain, db'[k].ClaimID),
                               idxEpochKey(db'[k].Epoch, db'[k].ClaimID)}
          /\ i[1] = "idx/vote_by_validator" =>
                 \E k \in DOMAIN db' :
                     k[1] = "vote" /\ i = idxVoteByValidatorKey(db'[k].ValidatorID, db'[k].ClaimID)
  <2> SUFFICES ASSUME NEW i \in DOMAIN db', i[1] \in IndexSpaces PROVE Backed(i)
    BY DEF EntriesBacked, IndexSpaces, idxDomainKey, idxEpochKey, idxVoteByValidatorKey
  <2>1. CASE i \notin sets(q)
    <3>1. i \in DOMAIN db
      BY <1>2, <2>1
    <3>2. \A k \in DOMAIN db : k[1] \in {"validation", "vote"} => k \in DOMAIN db' /\ db'[k] = db[k]
      BY <1>2 DEF Kept, Permanent, Namespaces
    <3>3. QED
      BY <3>1, <3>2 DEF SInv, IndexesAgree, EntriesBacked
  <2>2. CASE i \in sets(q)
    <3>1. i \in indexKeys(q)
      BY <1>3, <2>2
    <3>2. q.op \in KeptInserts
      BY <3>1, IndexSpace
    <3>3. pk(q) \in DOMAIN db' /\ db'[pk(q)] = recordOf(q)
      BY <1>2, <3>2 DEF KeptInserts, InsertOps
    <3>4. CASE q.op = "WriteVote"
      <4>1. pk(q)[1] = "vote" /\ i = idxVoteByValidatorKey(recordOf(q).ValidatorID, recordOf(q).ClaimID)
        BY <3>1, <3>4, PrimarySpace DEF indexKeys
      <4>2. i[1] = "idx/vote_by_validator"
        BY <3>1, <3>4, IndexSpace
      <4>3. QED
        BY <3>3, <4>1, <4>2
    <3>5. CASE q.op = "WriteValidationRecord"
      <4>1. /\ pk(q)[1] = "validation"
            /\ i \in {idxDomainKey(recordOf(q).Domain, recordOf(q).ClaimID),
                      idxEpochKey(recordOf(q).Epoch, recordOf(q).ClaimID)}
        BY <3>1, <3>5, PrimarySpace DEF indexKeys
      <4>2. i[1] \in {"idx/domain", "idx/epoch"}
        BY <3>1, <3>5, IndexSpace
      <4>3. QED
        BY <3>3, <4>1, <4>2
    <3>6. QED
      BY <3>2, <3>4, <3>5 DEF KeptInserts
  <2>3. QED
    BY <2>1, <2>2
<1>7. QED
  BY <1>4, <1>5, <1>6 DEF IndexesAgree

LEMMA CommitCalls ==
    ASSUME SInv, NEW p \in Clients, pc[p] = "commit", CommitApplied(p)
    PROVE  TypeOK' /\ SnapshotInv' /\ AckedMeansStored' /\ ConflictMeansStored'
<1> DEFINE q == req[p]
<1>1. q.op \in UpdateOps /\ q \in Requests /\ validate(q)
  BY DEF SInv, TypeOK, IsCall, UpdateOps
<1>2. /\ Kept
      /\ DOMAIN db' = (DOMAIN db \ dels(q)) \cup sets(q)
      /\ \A k \in DOMAIN db' : k \notin sets(q) => db'[k] = db[k]
      /\ q.op \in InsertOps => pk(q) \in DOMAIN db' /\ db'[pk(q)] = recordOf(q)
  BY CommitKeeps
<1>3. /\ pc' = [pc EXCEPT ![p] = "done"]
      /\ res' = [res EXCEPT ![p] = [err |-> "nil", val |-> {}]]
      /\ ids' = [ids EXCEPT ![p] = {}]
      /\ node' = node /\ req' = req
      /\ stale' = [o \in Clients |->
                       IF o # p /\ pc[o] = "commit" /\ reads(req[o]) \cap (sets(q) \cup dels(q)) # {}
                       THEN TRUE ELSE stale[o]]
      /\ ~stale[p]
  BY DEF CommitApplied, Finish
<1> HIDE DEF q
<1>4. TypeOK'
  <2> DEFINE Spaces == {"claim", "validator", "validation", "vote"}
  <2>1. ASSUME NEW k \in DOMAIN db'
        PROVE  k[1] \in Namespaces /\ (k[1] \in Spaces => db'[k] \in RecordsOf(k[1]))
    <3>1. CASE k \notin sets(q)
      <4>1. k \in DOMAIN db /\ db'[k] = db[k]
        BY <1>2, <3>1
      <4>2. \A i \in DOMAIN db :
                /\ i[1] \in Namespaces
                /\ i[1] \in {"claim", "validator", "validation", "vote"} => db[i] \in RecordsOf(i[1])
        BY DEF SInv, TypeOK
      <4> QED
        BY <4>1, <4>2
    <3>2. CASE k \in sets(q)
      <4>1. k[1] \in Namespaces
        BY <1>1, <3>2, SetKeys
      <4>2. CASE k \in indexKeys(q)
        <5>1. k[1] \in IndexSpaces
          BY <4>2, IndexSpace
        <5> QED
          BY <4>1, <5>1 DEF IndexSpaces
      <4>3. CASE k \notin indexKeys(q)
        <5>1. k = pk(q) /\ q.op \notin DeleteOps
          BY <3>2, <4>3 DEF sets
        <5>2. q.op \in InsertOps \cup {"WriteValidatorRecord"}
          BY <1>1, <5>1 DEF UpdateOps
        <5>3. recordOf(q) \in RecordsOf(k[1])
          BY <1>1, <5>1, <5>2, RecordWritten
        <5>4. db'[k] = recordOf(q)
          <6>1. db' = [i \in DOMAIN db' |->
                           IF i \notin sets(q) THEN db[i] ELSE IF i = pk(q) THEN recordOf(q) ELSE Empty]
            BY DEF CommitApplied, q
          <6> QED
            BY <3>2, <5>1, <6>1
        <5> QED
          BY <4>1, <5>3, <5>4
      <4> QED
        BY <4>2, <4>3
    <3> QED
      BY <3>1, <3>2
  <2>2. IsAnswer(q, [err |-> "nil", val |-> {}])
    BY <1>1, Answers
  <2>3. pc'[p] = "done" /\ req'[p] = q /\ res'[p] = [err |-> "nil", val |-> {}]
    BY <1>3 DEF SInv, TypeOK, q
  <2>4. IsCall(pc'[p], req'[p], res'[p])
    BY <1>1, <2>2, <2>3 DEF IsCall
  <2>5. /\ pc' \in [Clients -> {"idle", "called", "commit", "fetch", "done"}]
        /\ req' \in [Clients -> Requests \cup {NoRequest}] /\ stale' \in [Clients -> BOOLEAN]
        /\ DOMAIN ids' = Clients /\ DOMAIN res' = Clients
        /\ \A o \in Clients \ {p} : pc'[o] = pc[o] /\ req'[o] = req[o] /\ res'[o] = res[o]
    BY <1>3 DEF SInv, TypeOK
  <2> QED
    BY <1>3, <2>1, <2>4, <2>5, TypeOfStep DEF SInv
<1>5. \A o \in Clients : req[o].op \in KeptInserts /\ pk(req[o]) \in DOMAIN db =>
          pk(req[o]) \in DOMAIN db' /\ db'[pk(req[o])] = db[pk(req[o])]
  BY <1>2, PrimarySpace DEF Kept, KeptInserts, Permanent, Namespaces
<1>6. SnapshotInv'
  <2> SUFFICES ASSUME NEW o \in Clients
               PROVE  /\ pc'[o] = "commit" /\ ~stale'[o] /\ req[o].op \in InsertOps =>
                             pk(req[o]) \notin DOMAIN db'
                      /\ stale'[o] => pc'[o] = "commit" /\ req[o].op \in InsertOps \cup DeleteOps
                      /\ stale'[o] /\ req[o].op \in KeptInserts => pk(req[o]) \in DOMAIN db'
    <3>1. req' = req
      BY <1>3
    <3>2. QED
      BY <3>1 DEF SnapshotInv, pk, claimKey, validatorKey, validationKey, voteKey
  <2>1. stale'[o] => pc'[o] = "commit" /\ req[o].op \in InsertOps \cup DeleteOps
    <3>1. stale'[o] => stale[o] \/ (o # p /\ pc[o] = "commit" /\ reads(req[o]) # {})
      BY <1>3
    <3>2. stale[o] => o # p /\ pc[o] = "commit" /\ req[o].op \in InsertOps \cup DeleteOps
      BY <1>3 DEF SInv, SnapshotInv
    <3>3. reads(req[o]) # {} => req[o].op \in InsertOps \cup DeleteOps
      BY DEF reads
    <3>4. o # p => pc'[o] = pc[o]
      BY <1>3 DEF SInv, TypeOK
    <3> QED
      BY <3>1, <3>2, <3>3, <3>4
  <2>2. ASSUME pc'[o] = "commit", ~stale'[o], req[o].op \in InsertOps
        PROVE  pk(req[o]) \notin DOMAIN db'
    <3>1. o # p /\ pc[o] = "commit"
      BY <1>3, <2>2 DEF SInv, TypeOK, IsCall
    <3>2. ~stale[o] /\ pk(req[o]) \notin sets(q)
      BY <1>3, <2>2, <3>1 DEF reads
    <3>3. QED
      BY <1>2, <2>2, <3>1, <3>2 DEF SInv, SnapshotInv
  <2>3. ASSUME stale'[o], req[o].op \in KeptInserts
        PROVE  pk(req[o]) \in DOMAIN db'
    <3>1. CASE stale[o]
      BY <1>5, <2>3, <3>1 DEF SInv, SnapshotInv
    <3>2. CASE ~stale[o]
      <4>1. pk(req[o]) \in sets(q) \cup dels(q)
        BY <1>3, <2>3, <3>2 DEF reads
      <4>2. \A k \in dels(q) : k[1] \in {"claim", "validator"}
        BY PrimarySpace DEF dels, DeleteOps
      <4>3. pk(req[o])[1] \notin {"claim", "validator"}
        BY <2>3, PrimarySpace DEF KeptInserts
      <4>4. QED
        BY <1>2, <4>1, <4>2, <4>3
    <3>3. QED
      BY <3>1, <3>2
  <2>4. QED
    BY <2>1, <2>2, <2>3
<1>7. AckedMeansStored'
  <2> SUFFICES ASSUME NEW o \in Clients, pc'[o] = "done", req[o].op \in KeptInserts,
                      res'[o].err = "nil"
               PROVE  pk(req[o]) \in DOMAIN db' /\ db'[pk(req[o])] = recordOf(req[o])
    <3>1. req' = req
      BY <1>3
    <3>2. QED
      BY <3>1 DEF AckedMeansStored, KeptInserts
  <2>1. CASE o = p
    BY <1>2, <2>1 DEF q, KeptInserts, InsertOps
  <2>2. CASE o # p
    <3>1. pc[o] = "done" /\ res[o].err = "nil"
      BY <1>3, <2>2 DEF SInv, TypeOK, IsCall
    <3>2. QED
      BY <1>5, <3>1 DEF SInv, AckedMeansStored, KeptInserts
  <2>3. QED
    BY <2>1, <2>2
<1>8. ConflictMeansStored'
  <2> SUFFICES ASSUME NEW o \in Clients, pc'[o] = "done", req[o].op \in KeptInserts,
                      res'[o].err = "ErrConflict"
               PROVE  pk(req[o]) \in DOMAIN db'
    <3>1. req' = req
      BY <1>3
    <3>2. QED
      BY <3>1 DEF ConflictMeansStored, KeptInserts
  <2>1. CASE o = p
    BY <1>2, <2>1 DEF q, KeptInserts, InsertOps
  <2>2. CASE o # p
    <3>1. pc[o] = "done" /\ res[o].err = "ErrConflict"
      BY <1>3, <2>2 DEF SInv, TypeOK, IsCall
    <3>2. QED
      BY <1>5, <3>1 DEF SInv, ConflictMeansStored, KeptInserts
  <2>3. QED
    BY <2>1, <2>2
<1>9. QED
  BY <1>4, <1>6, <1>7, <1>8

\* Steps that change neither the database nor any request but p's.
LEMMA QuietKeeps ==
    ASSUME SInv, NEW p \in Clients, QuietStep(p)
    PROVE  SInv' /\ Kept
<1>1. db' = db /\ req' = req /\ node' = node
  BY DEF QuietStep, Prepare, Returns, ScanTxn
<1>2. Kept /\ IndexValues' /\ IndexesAgree'
  BY <1>1 DEF Kept, SInv, IndexValues, IndexesAgree, RecordsIndexed, EntriesBacked
<1>3. CASE Prepare(p) /\ pc[p] = "called" /\ req[p].op \in UpdateOps
           /\ validate(req[p]) /\ (req[p].op \in InsertOps => pk(req[p]) \notin DOMAIN db)
  <2>1. pc' = [pc EXCEPT ![p] = "commit"] /\ UNCHANGED <<stale, ids, res>>
    BY <1>3 DEF Prepare
  <2>2. TypeOK'
    <3>1. IsCall(pc[p], req[p], res[p])
      BY DEF SInv, TypeOK
    <3>2. IsCall("commit", req[p], res[p])
      BY <1>3, <3>1 DEF IsCall, UpdateOps
    <3> QED
      BY <1>1, <2>1, <3>2, TypeOfStep DEF SInv, TypeOK
  <2>3. SnapshotInv'
    BY <1>1, <1>3, <2>1 DEF SInv, TypeOK, IsCall, SnapshotInv
  <2>4. AckedMeansStored' /\ ConflictMeansStored'
    BY <1>1, <2>1 DEF SInv, TypeOK, IsCall, AckedMeansStored, ConflictMeansStored
  <2>5. QED
    BY <1>2, <2>2, <2>3, <2>4 DEF SInv
<1>4. ASSUME NEW err, NEW val, Returns(p, err, val), pc[p] \in {"called", "commit", "fetch"},
             req[p].op \in KeptInserts => err # "nil",
             err = "ErrConflict" => stale[p],
             IsAnswer(req[p], [err |-> err, val |-> val])
      PROVE  SInv'
  <2>1. /\ pc' = [pc EXCEPT ![p] = "done"]
        /\ res' = [res EXCEPT ![p] = [err |-> err, val |-> val]]
        /\ ids' = [ids EXCEPT ![p] = {}]
        /\ stale' = [stale EXCEPT ![p] = FALSE]
    BY <1>4 DEF Returns, Finish
  <2>2. TypeOK'
    <3>1. IsCall(pc[p], req[p], res[p])
      BY DEF SInv, TypeOK
    <3>2. IsCall("done", req[p], [err |-> err, val |-> val])
      BY <1>4, <3>1 DEF IsCall
    <3> QED
      BY <1>1, <2>1, <3>2, TypeOfStep DEF SInv, TypeOK
  <2>3. SnapshotInv'
    BY <1>1, <2>1 DEF SInv, TypeOK, IsCall, SnapshotInv
  <2>4. res'[p].err = err /\ \A o \in Clients : o # p => res'[o] = res[o] /\ pc'[o] = pc[o]
    BY <2>1 DEF SInv, TypeOK, IsCall
  <2>5. AckedMeansStored'
    BY <1>1, <1>4, <2>4 DEF SInv, AckedMeansStored, KeptInserts
  <2>6. err = "ErrConflict" /\ req[p].op \in KeptInserts => pk(req[p]) \in DOMAIN db
    BY <1>4 DEF SInv, SnapshotInv
  <2>7. ConflictMeansStored'
    BY <1>1, <2>4, <2>6 DEF SInv, ConflictMeansStored, KeptInserts
  <2>8. QED
    BY <1>2, <2>2, <2>3, <2>5, <2>7 DEF SInv
<1>5. CASE (\E space, name : ScanTxn(p, space, name)) /\ pc[p] = "called" /\ validate(req[p])
           /\ req[p].op \in QueryOps
  <2>1. /\ pc' = [pc EXCEPT ![p] = "fetch"]
        /\ UNCHANGED <<stale, res>>
        /\ DOMAIN ids' = DOMAIN ids
    BY <1>5 DEF ScanTxn
  <2>2. TypeOK'
    <3>1. IsCall(pc[p], req[p], res[p])
      BY DEF SInv, TypeOK
    <3>2. IsCall("fetch", req[p], res[p])
      BY <1>5, <3>1 DEF IsCall
    <3> QED
      BY <1>1, <2>1, <3>2, TypeOfStep DEF SInv, TypeOK
  <2>3. SnapshotInv'
    BY <1>1, <1>5, <2>1 DEF SInv, TypeOK, IsCall, SnapshotInv
  <2>4. AckedMeansStored' /\ ConflictMeansStored'
    BY <1>1, <2>1 DEF SInv, TypeOK, IsCall, AckedMeansStored, ConflictMeansStored
  <2>5. QED
    BY <1>2, <2>2, <2>3, <2>4 DEF SInv
<1>6. QED
  BY <1>2, <1>3, <1>4, <1>5 DEF QuietStep

\* A call, and what happens to the node, never touch the database.
LEMMA NodeKeeps ==
    ASSUME SInv, (\E p \in Clients, q \in Requests : Call(p, q)) \/ Close \/ Crash \/ Open
    PROVE  SInv' /\ Kept
<1>1. db' = db
  BY DEF Call, Close, Crash, Open
<1>2. Kept /\ IndexValues' /\ IndexesAgree'
  BY <1>1 DEF Kept, SInv, IndexValues, IndexesAgree, RecordsIndexed, EntriesBacked
<1>3. ASSUME NEW p \in Clients, NEW q \in Requests, Call(p, q)
      PROVE  TypeOK' /\ SnapshotInv' /\ AckedMeansStored' /\ ConflictMeansStored'
  <2>1. /\ pc[p] \in {"idle", "done"}
        /\ pc' = [pc EXCEPT ![p] = "called"]
        /\ req' = [req EXCEPT ![p] = q]
        /\ res' = [res EXCEPT ![p] = NoResult]
        /\ UNCHANGED <<node, stale, ids>>
    BY <1>3 DEF Call
  <2>2. TypeOK'
    <3>1. IsCall("called", q, NoResult)
      BY DEF IsCall
    <3>2. pc'[p] = "called" /\ req'[p] = q /\ res'[p] = NoResult
      BY <2>1 DEF SInv, TypeOK
    <3> QED
      BY <1>1, <2>1, <3>1, <3>2, TypeOfStep DEF SInv, TypeOK
  <2>3. /\ pc'[p] = "called" /\ ~stale'[p]
        /\ \A o \in Clients : o # p => /\ pc'[o] = pc[o] /\ req'[o] = req[o]
                                      /\ res'[o] = res[o] /\ stale'[o] = stale[o]
    BY <2>1 DEF SInv, TypeOK, IsCall, SnapshotInv
  <2>4. SnapshotInv'
    BY <1>1, <2>3 DEF SInv, SnapshotInv
  <2>5. AckedMeansStored' /\ ConflictMeansStored'
    BY <1>1, <2>3 DEF SInv, AckedMeansStored, ConflictMeansStored
  <2>6. QED
    BY <2>2, <2>4, <2>5
<1>4. CASE Close
  <2>1. /\ req' = req /\ node' = "closed"
        /\ \A p \in Clients :
               /\ ~stale'[p]
               /\ \/ /\ pc'[p] = "done" /\ res'[p] = [err |-> "ErrDBClosed", val |-> {}]
                     /\ pc[p] \in {"called", "commit", "fetch"} /\ validate(req[p])
                  \/ /\ pc'[p] = pc[p] /\ res'[p] = res[p]
                     /\ pc[p] \in {"idle", "called", "done"}
        /\ DOMAIN pc' = Clients /\ DOMAIN ids' = Clients /\ DOMAIN res' = Clients
        /\ stale' \in [Clients -> BOOLEAN]
        /\ pc' = [p \in Clients |-> pc'[p]]
    <3>1. \A p \in Clients : pc[p] \in {"commit", "fetch"} => validate(req[p])
      BY DEF SInv, TypeOK, IsCall
    <3> QED
      BY <1>4, <3>1 DEF Close, SInv, TypeOK
  <2>2. TypeOK'
    <3>1. ASSUME NEW p \in Clients PROVE IsCall(pc'[p], req'[p], res'[p])
      <4>1. IsCall(pc[p], req[p], res[p])
        BY DEF SInv, TypeOK
      <4>2. validate(req[p]) => IsAnswer(req[p], [err |-> "ErrDBClosed", val |-> {}])
        BY Answers
      <4> QED
        BY <2>1, <4>1, <4>2 DEF IsCall
    <3>2. pc' \in [Clients -> {"idle", "called", "commit", "fetch", "done"}]
      BY <2>1
    <3> QED
      BY <1>1, <2>1, <3>1, <3>2 DEF SInv, TypeOK
  <2>3. SnapshotInv'
    BY <1>1, <2>1 DEF SnapshotInv
  <2>4. AckedMeansStored' /\ ConflictMeansStored'
    BY <1>1, <2>1 DEF SInv, AckedMeansStored, ConflictMeansStored
  <2>5. QED
    BY <1>2, <2>2, <2>3, <2>4 DEF SInv
<1>5. CASE Crash
  <2>1. /\ \A p \in Clients : pc'[p] = "idle" /\ ~stale'[p] /\ req'[p] = NoRequest
        /\ node' = "down"
        /\ pc' = [p \in Clients |-> "idle"]
        /\ req' = [p \in Clients |-> NoRequest]
        /\ stale' \in [Clients -> BOOLEAN]
        /\ DOMAIN ids' = Clients /\ DOMAIN res' = Clients
    BY <1>5 DEF Crash
  <2>2. TypeOK'
    <3>1. \A p \in Clients : IsCall(pc'[p], req'[p], res'[p])
      BY <1>5 DEF Crash, IsCall
    <3> QED
      BY <1>1, <2>1, <3>1 DEF SInv, TypeOK
  <2>3. SnapshotInv' /\ AckedMeansStored' /\ ConflictMeansStored'
    BY <2>1 DEF SnapshotInv, AckedMeansStored, ConflictMeansStored
  <2>4. QED
    BY <1>2, <2>2, <2>3 DEF SInv
<1>6. CASE Open
  <2>1. TypeOK'
    BY <1>6 DEF Open, SInv, TypeOK, IsCall
  <2>2. SnapshotInv' /\ AckedMeansStored' /\ ConflictMeansStored'
    BY <1>6 DEF Open, SInv, SnapshotInv, AckedMeansStored, ConflictMeansStored
  <2>3. QED
    BY <1>2, <2>1, <2>2 DEF SInv
<1>7. QED
  BY <1>2, <1>3, <1>4, <1>5, <1>6 DEF SInv

\* Every step keeps the invariant and every permanent key.
LEMMA NextKeeps ==
    ASSUME SInv, Next
    PROVE  SInv' /\ Kept
<1>1. CASE (\E p \in Clients, q \in Requests : Call(p, q)) \/ Close \/ Crash \/ Open
  BY <1>1, NodeKeeps
<1>2. ASSUME NEW p \in Clients, Step(p) \/ Fail(p)
      PROVE  SInv' /\ Kept
  <2>1. QuietStep(p) \/ (pc[p] = "commit" /\ CommitApplied(p))
    BY <1>2, StepForms DEF SInv, SnapshotInv
  <2>2. CASE QuietStep(p)
    BY <2>2, QuietKeeps
  <2>3. CASE pc[p] = "commit" /\ CommitApplied(p)
    BY <2>3, CommitKeeps, CommitIndexes, CommitCalls DEF SInv
  <2>4. QED
    BY <2>1, <2>2, <2>3
<1>3. QED
  BY <1>1, <1>2 DEF Next

LEMMA InitHolds == Init => SInv
  BY DEF Init, SInv, TypeOK, IsCall, SnapshotInv, IndexValues, IndexesAgree, RecordsIndexed,
         EntriesBacked, AckedMeansStored, ConflictMeansStored

LEMMA StutterKeeps ==
    ASSUME SInv, UNCHANGED vars
    PROVE  SInv'
  BY DEF vars, SInv, TypeOK, IsCall, SnapshotInv, IndexValues, IndexesAgree, RecordsIndexed,
         EntriesBacked, AckedMeansStored, ConflictMeansStored

LEMMA Invariance == Spec => []SInv
<1>1. SInv /\ [Next]_vars => SInv'
  BY NextKeeps, StutterKeeps
<1>2. QED
  BY InitHolds, <1>1, PTL DEF Spec

-----------------------------------------------------------------------------
\* In every interleaving, calls are where their methods can put them and have
\* returned an error of their method or valid records of its kind, and whatever
\* is stored has passed validation.
THEOREM TypeCorrect == Spec => []TypeOK
  BY Invariance, PTL DEF SInv

\* The secondary indexes and the records agree in every state of every
\* interleaving, with failures, closes and crashes.
THEOREM IndexesCorrect == Spec => []IndexesAgree
  BY Invariance, PTL DEF SInv

\* A WriteVote or WriteValidationRecord that returned nil has stored its record.
THEOREM AckedCorrect == Spec => []AckedMeansStored
  BY Invariance, PTL DEF SInv

\* An ErrConflict from either of them means the record is there.
THEOREM ConflictCorrect == Spec => []ConflictMeansStored
  BY Invariance, PTL DEF SInv

\* Stored votes, validations and index entries are never replaced or removed.
THEOREM WriteOnceCorrect == Spec => RecordsWriteOnce
<1>1. SInv /\ [Next]_vars => [Kept]_vars
  BY NextKeeps
<1>2. QED
  BY Invariance, <1>1, PTL DEF Spec, RecordsWriteOnce, Kept

-----------------------------------------------------------------------------
\* Two flat names, joined: the key can be taken apart again.
LEMMA JoinedNames ==
    ASSUME NEW a, NEW b, Flat(a), Flat(b)
    PROVE  a \o b = <<a[1], b[1]>>
<1>1. PICK x, y : a = <<x>> /\ b = <<y>>
  BY DEF Flat
<1> DEFINE S == {x, y}
           j == <<x>> \o <<y>>
           t == <<x, y>>
<1>2. <<x>> \in Seq(S) /\ <<y>> \in Seq(S) /\ t \in Seq(S) /\ Len(t) = 2
  OBVIOUS
<1>3. Len(<<x>>) = 1 /\ Len(<<y>>) = 1
  OBVIOUS
<1> HIDE DEF S
<1>4. j \in Seq(S) /\ Len(j) = 2 /\ \A i \in 1..2 : j[i] = IF i <= 1 THEN <<x>>[i] ELSE <<y>>[i - 1]
  BY <1>2, <1>3, ConcatProperties
<1> HIDE DEF j
<1>5. j[1] = x /\ j[2] = y
  BY <1>4
<1>6. \A i \in 1..Len(j) : j[i] = t[i]
  BY <1>4, <1>5
<1>7. j = t
  BY <1>2, <1>4, <1>6, SeqEqual
<1> QED
  BY <1>1, <1>7 DEF j

\* Two pairs of flat names that are joined to one key.
OneKey(a, b, c, d) == Flat(a) /\ Flat(b) /\ Flat(c) /\ Flat(d) /\ a \o b = c \o d

LEMMA NamesFromJoined ==
    ASSUME NEW a, NEW b, NEW c, NEW d, OneKey(a, b, c, d)
    PROVE  a = c /\ b = d
<1>1. Flat(a) /\ Flat(b) /\ Flat(c) /\ Flat(d) /\ a \o b = c \o d
  BY DEF OneKey
<1>2. <<a[1], b[1]>> = <<c[1], d[1]>>
  BY <1>1, JoinedNames
<1>3. a[1] = c[1] /\ b[1] = d[1]
  BY <1>2
<1> QED
  BY <1>1, <1>3 DEF Flat

LEMMA SegmentOf ==
    ASSUME NEW s, NEW S, s \in Seq(S), NEW i \in 1..Len(s)
    PROVE  SubSeq(s, i, i) = <<s[i]>>
<1> DEFINE r == SubSeq(s, i, i)
<1>1. i \in Int /\ \A j \in i..i : s[j] \in S
  OBVIOUS
<1>2. r \in Seq(S) /\ Len(r) = 1 /\ r[1] = s[i]
  <2>1. /\ r \in Seq(S) /\ Len(r) = IF i <= i THEN i - i + 1 ELSE 0
        /\ \A j \in 1..(i - i + 1) : r[j] = s[i + j - 1]
    BY <1>1, SubSeqProperties
  <2> HIDE DEF r
  <2> QED
    BY <2>1
<1> HIDE DEF r
<1>3. <<s[i]>> \in Seq(S) /\ Len(<<s[i]>>) = 1 /\ <<s[i]>>[1] = s[i]
  BY <1>2
<1>4. \A j \in 1..Len(r) : r[j] = <<s[i]>>[j]
  BY <1>2, <1>3
<1>5. r = <<s[i]>>
  BY <1>2, <1>3, <1>4, SeqEqual
<1> QED
  BY <1>5 DEF r

LEMMA PrefixOfJoined ==
    ASSUME NEW n, NEW a, NEW b, Flat(n), Flat(a), Flat(b)
    PROVE  /\ IsStrictPrefix(n, a \o b) <=> n = a
           /\ SubSeq(a \o b, Len(n) + 1, Len(a \o b)) = b
<1>1. PICK x, y, z : n = <<z>> /\ a = <<x>> /\ b = <<y>>
  BY DEF Flat
<1>2. a \o b = <<x, y>>
  BY <1>1, JoinedNames
<1>3. /\ <<x, y>> \in Seq({x, y}) /\ Len(<<x, y>>) = 2 /\ <<x, y>>[1] = x /\ <<x, y>>[2] = y
      /\ <<z>> \in Seq({z}) /\ Len(<<z>>) = 1 /\ <<z>>[1] = z
  OBVIOUS
<1>4. SubSeq(<<z>>, 1, 1) = <<z>> /\ SubSeq(<<x, y>>, 1, 1) = <<x>> /\ SubSeq(<<x, y>>, 2, 2) = <<y>>
  <2>1. 1 \in 1..1 /\ 1 \in 1..2 /\ 2 \in 1..2
    OBVIOUS
  <2> QED
    BY <1>3, <2>1, SegmentOf
<1>5. (<<z>> = <<x>> <=> z = x) /\ <<z>> # <<x, y>>
  BY <1>3
<1>6. SubSeq(a \o b, Len(n) + 1, Len(a \o b)) = b
  <2>1. Len(n) + 1 = 2 /\ Len(a \o b) = 2
    BY <1>1, <1>2, <1>3
  <2>2. SubSeq(a \o b, 2, 2) = b
    BY <1>1, <1>2, <1>4
  <2> QED
    BY <2>1, <2>2, Zenon
<1>7. IsStrictPrefix(n, a \o b) <=> n = a
  BY <1>1, <1>2, <1>3, <1>4, <1>5 DEF IsStrictPrefix, IsPrefix
<1> QED
  BY <1>6, <1>7

-----------------------------------------------------------------------------
\* A stored vote or validation is under the key its own names give, and those
\* names are flat.
RecordKeysIn(D) ==
    \A k \in DOMAIN D :
        /\ k[1] = "validation" =>
               /\ k = validationKey(D[k].ClaimID)
               /\ Flat(D[k].ClaimID) /\ Flat(D[k].Domain) /\ Flat(D[k].Epoch)
        /\ k[1] = "vote" =>
               /\ k = voteKey(D[k].ClaimID, D[k].ValidatorID)
               /\ Flat(D[k].ClaimID) /\ Flat(D[k].ValidatorID)

\* A transaction about to commit passed its checks, and the record a delete
\* found is still there if its snapshot is.
CommitReady ==
    \A p \in Clients :
        pc[p] = "commit" =>
            /\ validate(req[p])
            /\ ~stale[p] /\ req[p].op \in DeleteOps => pk(req[p]) \in DOMAIN db

\* What the second View of a query will read is there.
FetchReady == \A p \in Clients : pc[p] = "fetch" => fetchKeys(p) \subseteq DOMAIN db

\* The invariant for the queries and for the refinement.
RInv ==
    SInv /\ RecordKeysIn(db) /\ CommitReady /\ FetchReady /\ QueriesFindTheirRecords

LEMMA CommitKeepsKeys ==
    ASSUME FlatNames, RInv, NEW p \in Clients, pc[p] = "commit", CommitApplied(p)
    PROVE  RecordKeysIn(db')
<1> DEFINE q == req[p]
<1>1. q.op \in UpdateOps /\ q \in Requests
  BY DEF RInv, SInv, TypeOK, IsCall, UpdateOps
<1>2. /\ DOMAIN db' = (DOMAIN db \ dels(q)) \cup sets(q)
      /\ \A k \in DOMAIN db' : k \notin sets(q) => db'[k] = db[k]
      /\ q.op \in InsertOps => pk(q) \in DOMAIN db' /\ db'[pk(q)] = recordOf(q)
  BY CommitKeeps DEF RInv
<1> HIDE DEF q
<1>3. ASSUME NEW k \in DOMAIN db', k \notin sets(q)
      PROVE  k \in DOMAIN db /\ db'[k] = db[k]
  BY <1>2, <1>3
<1>4. ASSUME NEW k \in DOMAIN db', k \in sets(q), k[1] = "validation"
      PROVE  /\ k = validationKey(db'[k].ClaimID)
             /\ Flat(db'[k].ClaimID) /\ Flat(db'[k].Domain) /\ Flat(db'[k].Epoch)
  <2>1. k = pk(q) /\ q.op = "WriteValidationRecord"
    BY <1>1, <1>4, SetKeys
  <2>2. db'[k] = recordOf(q) /\ k = validationKey(q.arg.ClaimID)
    BY <1>2, <2>1 DEF InsertOps, pk
  <2>3. /\ recordOf(q).ClaimID = q.arg.ClaimID /\ recordOf(q).Epoch = q.arg.Epoch
        /\ recordOf(q).Domain = Normalise(q.arg.Domain)
    BY <1>1, <2>1, RequestsAssumption DEF recordOf
  <2>4. Flat(q.arg.ClaimID) /\ Flat(q.arg.Epoch) /\ Flat(Normalise(q.arg.Domain))
    BY <1>1, <2>1 DEF FlatNames, NamesOf
  <2> QED
    BY <2>2, <2>3, <2>4
<1>5. ASSUME NEW k \in DOMAIN db', k \in sets(q), k[1] = "vote"
      PROVE  /\ k = voteKey(db'[k].ClaimID, db'[k].ValidatorID)
             /\ Flat(db'[k].ClaimID) /\ Flat(db'[k].ValidatorID)
  <2>1. k = pk(q) /\ q.op = "WriteVote"
    BY <1>1, <1>5, SetKeys
  <2>2. db'[k] = q.arg /\ k = voteKey(q.arg.ClaimID, q.arg.ValidatorID)
    BY <1>2, <2>1 DEF InsertOps, pk, recordOf
  <2>3. Flat(q.arg.ClaimID) /\ Flat(q.arg.ValidatorID)
    BY <1>1, <2>1 DEF FlatNames, NamesOf
  <2> QED
    BY <2>2, <2>3
<1>6. RecordKeysIn(db)
  BY DEF RInv
<1> QED
  BY <1>3, <1>4, <1>5, <1>6 DEF RecordKeysIn

\* The keys of a namespace are the index entries of the records K: A[k] is the
\* indexed name and C[k] the claim of the record under k.
IsIndex(space, K, A, C) ==
    /\ \A k \in K : Flat(A[k]) /\ Flat(C[k]) /\ <<space, A[k] \o C[k]>> \in DOMAIN db
    /\ \A i \in DOMAIN db : i[1] = space => \E k \in K : i = <<space, A[k] \o C[k]>>

LEMMA ScanOf ==
    ASSUME NEW space, NEW name, NEW K, NEW A, NEW C, Flat(name), IsIndex(space, K, A, C)
    PROVE  prefixScanKeys(space, name) = {C[k] : k \in {j \in K : A[j] = name}}
<1>0. /\ \A k \in K : Flat(A[k]) /\ Flat(C[k]) /\ <<space, A[k] \o C[k]>> \in DOMAIN db
      /\ \A i \in DOMAIN db : i[1] = space => \E k \in K : i = <<space, A[k] \o C[k]>>
  BY DEF IsIndex
<1>1. ASSUME NEW k \in K
      PROVE  /\ <<space, A[k] \o C[k]>> \in keysUnder(space, name) <=> A[k] = name
             /\ claimIDFromIndex(<<space, A[k] \o C[k]>>, name) = C[k]
  <2>1. /\ IsStrictPrefix(name, A[k] \o C[k]) <=> name = A[k]
        /\ SubSeq(A[k] \o C[k], Len(name) + 1, Len(A[k] \o C[k])) = C[k]
    BY <1>0, PrefixOfJoined
  <2> DEFINE j == A[k] \o C[k]
  <2>2. <<space, j>>[1] = space /\ <<space, j>>[2] = j
    OBVIOUS
  <2>3. <<space, j>> \in DOMAIN db
    BY <1>0
  <2> HIDE DEF j
  <2>4. <<space, j>> \in keysUnder(space, name) <=> IsStrictPrefix(name, j)
    BY <2>2, <2>3 DEF keysUnder
  <2>5. claimIDFromIndex(<<space, j>>, name) = SubSeq(j, Len(name) + 1, Len(j))
    BY <2>2 DEF claimIDFromIndex
  <2> QED
    BY <2>1, <2>4, <2>5 DEF j
<1>2. \A i \in keysUnder(space, name) : \E k \in K : i = <<space, A[k] \o C[k]>>
  BY <1>0 DEF keysUnder
<1>3. \A x : x \in prefixScanKeys(space, name) <=>
                 \E i \in keysUnder(space, name) : x = claimIDFromIndex(i, name)
  BY DEF prefixScanKeys
<1>4. \A x : x \in {C[k] : k \in {j \in K : A[j] = name}} <=>
                 \E k \in K : A[k] = name /\ x = C[k]
  OBVIOUS
<1>5. ASSUME NEW x, x \in prefixScanKeys(space, name)
      PROVE  \E k \in K : A[k] = name /\ x = C[k]
  <2>1. PICK i \in keysUnder(space, name) : x = claimIDFromIndex(i, name)
    BY <1>3, <1>5
  <2>2. PICK k \in K : i = <<space, A[k] \o C[k]>>
    BY <1>2
  <2> QED
    BY <1>1, <2>1, <2>2, Zenon
<1>6. ASSUME NEW k \in K, A[k] = name PROVE C[k] \in prefixScanKeys(space, name)
  <2>1. <<space, A[k] \o C[k]>> \in keysUnder(space, name)
    BY <1>1, <1>6, Zenon
  <2>2. claimIDFromIndex(<<space, A[k] \o C[k]>>, name) = C[k]
    BY <1>1, Zenon
  <2> QED
    BY <1>3, <2>1, <2>2, Zenon
<1> QED
  BY <1>4, <1>5, <1>6

Validations == {k \in DOMAIN db : k[1] = "validation"}
Votes == {k \in DOMAIN db : k[1] = "vote"}

LEMMA DomainScan ==
    ASSUME RInv, NEW name, Flat(name)
    PROVE  prefixScanKeys("idx/domain", name) =
               {db[k].ClaimID : k \in {j \in Validations : db[j].Domain = name}}
<1> DEFINE A == [k \in Validations |-> db[k].Domain]
           C == [k \in Validations |-> db[k].ClaimID]
<1>1. RecordKeysIn(db) /\ RecordsIndexed /\ EntriesBacked
  BY DEF RInv, SInv, IndexesAgree
<1>2. \A k \in Validations : /\ Flat(A[k]) /\ Flat(C[k])
                             /\ <<"idx/domain", A[k] \o C[k]>> \in DOMAIN db
  BY <1>1 DEF Validations, RecordKeysIn, RecordsIndexed, idxDomainKey
<1>3. ASSUME NEW i \in DOMAIN db, i[1] = "idx/domain"
      PROVE  \E k \in Validations : i = <<"idx/domain", A[k] \o C[k]>>
  <2>1. PICK k \in DOMAIN db : /\ k[1] = "validation"
                               /\ i \in {idxDomainKey(db[k].Domain, db[k].ClaimID),
                                         idxEpochKey(db[k].Epoch, db[k].ClaimID)}
    BY <1>1, <1>3 DEF EntriesBacked
  <2>2. idxEpochKey(db[k].Epoch, db[k].ClaimID)[1] = "idx/epoch"
    BY DEF idxEpochKey
  <2>3. i = idxDomainKey(db[k].Domain, db[k].ClaimID) /\ k \in Validations
    BY <1>3, <2>1, <2>2 DEF Validations
  <2> QED
    BY <2>3 DEF idxDomainKey
<1>4. IsIndex("idx/domain", Validations, A, C)
  BY <1>2, <1>3 DEF IsIndex
<1>5. prefixScanKeys("idx/domain", name) = {C[k] : k \in {j \in Validations : A[j] = name}}
  <2> HIDE DEF A, C
  <2> QED
    BY <1>4, ScanOf
<1> QED
  BY <1>5

LEMMA EpochScan ==
    ASSUME RInv, NEW name, Flat(name)
    PROVE  prefixScanKeys("idx/epoch", name) =
               {db[k].ClaimID : k \in {j \in Validations : db[j].Epoch = name}}
<1> DEFINE A == [k \in Validations |-> db[k].Epoch]
           C == [k \in Validations |-> db[k].ClaimID]
<1>1. RecordKeysIn(db) /\ RecordsIndexed /\ EntriesBacked
  BY DEF RInv, SInv, IndexesAgree
<1>2. \A k \in Validations : /\ Flat(A[k]) /\ Flat(C[k])
                             /\ <<"idx/epoch", A[k] \o C[k]>> \in DOMAIN db
  BY <1>1 DEF Validations, RecordKeysIn, RecordsIndexed, idxEpochKey
<1>3. ASSUME NEW i \in DOMAIN db, i[1] = "idx/epoch"
      PROVE  \E k \in Validations : i = <<"idx/epoch", A[k] \o C[k]>>
  <2>1. PICK k \in DOMAIN db : /\ k[1] = "validation"
                               /\ i \in {idxDomainKey(db[k].Domain, db[k].ClaimID),
                                         idxEpochKey(db[k].Epoch, db[k].ClaimID)}
    BY <1>1, <1>3 DEF EntriesBacked
  <2>2. idxDomainKey(db[k].Domain, db[k].ClaimID)[1] = "idx/domain"
    BY DEF idxDomainKey
  <2>3. i = idxEpochKey(db[k].Epoch, db[k].ClaimID) /\ k \in Validations
    BY <1>3, <2>1, <2>2 DEF Validations
  <2> QED
    BY <2>3 DEF idxEpochKey
<1>4. IsIndex("idx/epoch", Validations, A, C)
  BY <1>2, <1>3 DEF IsIndex
<1>5. prefixScanKeys("idx/epoch", name) = {C[k] : k \in {j \in Validations : A[j] = name}}
  <2> HIDE DEF A, C
  <2> QED
    BY <1>4, ScanOf
<1> QED
  BY <1>5

LEMMA VoteScan ==
    ASSUME RInv, NEW name, Flat(name)
    PROVE  prefixScanKeys("idx/vote_by_validator", name) =
               {db[k].ClaimID : k \in {j \in Votes : db[j].ValidatorID = name}}
<1> DEFINE A == [k \in Votes |-> db[k].ValidatorID]
           C == [k \in Votes |-> db[k].ClaimID]
<1>1. RecordKeysIn(db) /\ RecordsIndexed /\ EntriesBacked
  BY DEF RInv, SInv, IndexesAgree
<1>2. \A k \in Votes : /\ Flat(A[k]) /\ Flat(C[k])
                       /\ <<"idx/vote_by_validator", A[k] \o C[k]>> \in DOMAIN db
  BY <1>1 DEF Votes, RecordKeysIn, RecordsIndexed, idxVoteByValidatorKey
<1>3. ASSUME NEW i \in DOMAIN db, i[1] = "idx/vote_by_validator"
      PROVE  \E k \in Votes : i = <<"idx/vote_by_validator", A[k] \o C[k]>>
  BY <1>1, <1>3 DEF EntriesBacked, Votes, idxVoteByValidatorKey
<1>4. IsIndex("idx/vote_by_validator", Votes, A, C)
  BY <1>2, <1>3 DEF IsIndex
<1>5. prefixScanKeys("idx/vote_by_validator", name) = {C[k] : k \in {j \in Votes : A[j] = name}}
  <2> HIDE DEF A, C
  <2> QED
    BY <1>4, ScanOf
<1> QED
  BY <1>5

\* The keys that the second View of a query reads are those of the records the
\* query asks for.
KeysAsked(q) ==
    CASE q.op = "ValidationsByDomain" -> {k \in Validations : db[k].Domain = Normalise(q.arg)}
      [] q.op = "ValidationsByEpoch" -> {k \in Validations : db[k].Epoch = q.arg}
      [] q.op = "VotesByValidator" -> {k \in Votes : db[k].ValidatorID = q.arg}
      [] q.op = "VotesForClaim" -> {k \in Votes : db[k].ClaimID = q.arg}

LEMMA ScannedKeys ==
    ASSUME FlatNames, RInv, NEW q \in Requests
    PROVE  /\ q.op = "ValidationsByDomain" =>
                  {validationKey(id) : id \in prefixScanKeys("idx/domain", Normalise(q.arg))} = KeysAsked(q)
           /\ q.op = "ValidationsByEpoch" =>
                  {validationKey(id) : id \in prefixScanKeys("idx/epoch", q.arg)} = KeysAsked(q)
           /\ q.op = "VotesByValidator" =>
                  {voteKey(id, q.arg) : id \in prefixScanKeys("idx/vote_by_validator", q.arg)} = KeysAsked(q)
           /\ q.op = "VotesForClaim" => keysUnder("vote", q.arg) = KeysAsked(q)
<1>1. RecordKeysIn(db)
  BY DEF RInv
<1>2. \A k \in Validations : validationKey(db[k].ClaimID) = k
  BY <1>1 DEF RecordKeysIn, Validations
<1>3. \A k \in Votes : voteKey(db[k].ClaimID, db[k].ValidatorID) = k
  BY <1>1 DEF RecordKeysIn, Votes
<1>4. ASSUME q.op = "ValidationsByDomain"
      PROVE  {validationKey(id) : id \in prefixScanKeys("idx/domain", Normalise(q.arg))} = KeysAsked(q)
  <2>1. Flat(Normalise(q.arg))
    BY <1>4 DEF FlatNames, NamesOf
  <2> QED
    BY <1>2, <1>4, <2>1, DomainScan DEF KeysAsked
<1>5. ASSUME q.op = "ValidationsByEpoch"
      PROVE  {validationKey(id) : id \in prefixScanKeys("idx/epoch", q.arg)} = KeysAsked(q)
  <2>1. Flat(q.arg)
    BY <1>5 DEF FlatNames, NamesOf
  <2> QED
    BY <1>2, <1>5, <2>1, EpochScan DEF KeysAsked
<1>6. ASSUME q.op = "VotesByValidator"
      PROVE  {voteKey(id, q.arg) : id \in prefixScanKeys("idx/vote_by_validator", q.arg)} = KeysAsked(q)
  <2>1. Flat(q.arg)
    BY <1>6 DEF FlatNames, NamesOf
  <2> QED
    BY <1>3, <1>6, <2>1, VoteScan DEF KeysAsked
<1>7. ASSUME q.op = "VotesForClaim" PROVE keysUnder("vote", q.arg) = KeysAsked(q)
  <2>1. Flat(q.arg)
    BY <1>7 DEF FlatNames, NamesOf
  <2>2. ASSUME NEW k \in Votes PROVE IsStrictPrefix(q.arg, k[2]) <=> db[k].ClaimID = q.arg
    <3>1. Flat(db[k].ClaimID) /\ Flat(db[k].ValidatorID) /\ k = voteKey(db[k].ClaimID, db[k].ValidatorID)
      BY <1>1 DEF RecordKeysIn, Votes
    <3>2. k[2] = db[k].ClaimID \o db[k].ValidatorID
      <4>1. \A c, v : voteKey(c, v)[2] = c \o v
        BY DEF voteKey
      <4> QED
        BY <3>1, <4>1, Zenon
    <3> QED
      BY <2>1, <3>1, <3>2, PrefixOfJoined
  <2> QED
    BY <1>7, <2>2 DEF KeysAsked, keysUnder, Votes
<1> QED
  BY <1>4, <1>5, <1>6, <1>7

\* fetchKeys, with the request and the scanned identifiers made explicit.
FetchKeysOf(q, S) ==
    IF q.op = "VotesByValidator" THEN {voteKey(id, q.arg) : id \in S} ELSE {validationKey(id) : id \in S}

LEMMA FetchKeysForm ==
    ASSUME NEW p
    PROVE  fetchKeys(p) = FetchKeysOf(req[p], ids[p]) /\ fetchKeys(p)' = FetchKeysOf(req'[p], ids'[p])
  BY DEF fetchKeys, FetchKeysOf, voteKey, validationKey

LEMMA FetchedArePermanent ==
    ASSUME NEW q, NEW S, NEW k \in FetchKeysOf(q, S)
    PROVE  k[1] \in Permanent
  BY DEF FetchKeysOf, voteKey, validationKey, Permanent, Namespaces

\* The steps of a call that leave the database alone, with what each knew when
\* it was taken.
InformedStep(p) ==
    \/ /\ Prepare(p)
       /\ validate(req[p])
       /\ req[p].op \in DeleteOps => pk(req[p]) \in DOMAIN db
    \/ \E err, val : Returns(p, err, val) /\ (req[p].op \in QueryOps => err # "NotFound")
    \/ /\ \E space, name : ScanTxn(p, space, name)
       /\ FetchKeysOf(req[p], ids'[p]) = KeysAsked(req[p])
       /\ req[p].op \in QueryOps

LEMMA ScanForms ==
    ASSUME FlatNames, RInv, NEW p \in Clients,
           ValidationsByDomain(p) \/ ValidationsByEpoch(p) \/ VotesByValidator(p)
    PROVE  /\ pc[p] = "called" /\ req[p].op \in QueryOps /\ validate(req[p]) /\ req[p] \in Requests
           /\ \E space, name : ScanTxn(p, space, name)
           /\ FetchKeysOf(req[p], ids'[p]) = KeysAsked(req[p])
<1> DEFINE q == req[p]
<1>1. pc[p] = "called" /\ q.op \in QueryOps /\ validate(q)
  BY DEF ValidationsByDomain, ValidationsByEpoch, VotesByValidator, Begins, QueryOps
<1>2. q \in Requests /\ DOMAIN ids = Clients
  BY <1>1 DEF RInv, SInv, TypeOK, IsCall
<1>3. CASE ValidationsByDomain(p)
  <2>1. q.op = "ValidationsByDomain" /\ ScanTxn(p, "idx/domain", Normalise(q.arg))
    BY <1>3 DEF ValidationsByDomain, Begins
  <2>2. ids'[p] = prefixScanKeys("idx/domain", Normalise(q.arg))
    BY <1>2, <2>1 DEF ScanTxn
  <2>3. {validationKey(id) : id \in prefixScanKeys("idx/domain", Normalise(q.arg))} = KeysAsked(q)
    BY <1>2, <2>1, ScannedKeys
  <2> QED
    BY <1>1, <1>2, <2>1, <2>2, <2>3 DEF FetchKeysOf
<1>4. CASE ValidationsByEpoch(p)
  <2>1. q.op = "ValidationsByEpoch" /\ ScanTxn(p, "idx/epoch", q.arg)
    BY <1>4 DEF ValidationsByEpoch, Begins
  <2>2. ids'[p] = prefixScanKeys("idx/epoch", q.arg)
    BY <1>2, <2>1 DEF ScanTxn
  <2>3. {validationKey(id) : id \in prefixScanKeys("idx/epoch", q.arg)} = KeysAsked(q)
    BY <1>2, <2>1, ScannedKeys
  <2> QED
    BY <1>1, <1>2, <2>1, <2>2, <2>3 DEF FetchKeysOf
<1>5. CASE VotesByValidator(p)
  <2>1. q.op = "VotesByValidator" /\ ScanTxn(p, "idx/vote_by_validator", q.arg)
    BY <1>5 DEF VotesByValidator, Begins
  <2>2. ids'[p] = prefixScanKeys("idx/vote_by_validator", q.arg)
    BY <1>2, <2>1 DEF ScanTxn
  <2>3. {voteKey(id, q.arg) : id \in prefixScanKeys("idx/vote_by_validator", q.arg)} = KeysAsked(q)
    BY <1>2, <2>1, ScannedKeys
  <2> QED
    BY <1>1, <1>2, <2>1, <2>2, <2>3 DEF FetchKeysOf
<1> QED
  BY <1>3, <1>4, <1>5

LEMMA InformedForms ==
    ASSUME FlatNames, RInv, NEW p \in Clients, Step(p) \/ Fail(p)
    PROVE  InformedStep(p) \/ (pc[p] = "commit" /\ CommitApplied(p))
<1> USE DEF InformedStep
<1>1. CASE WriteClaim(p) \/ WriteValidationRecord(p) \/ WriteVote(p)
  BY <1>1 DEF WriteClaim, WriteValidationRecord, WriteVote, Begins, InsertTxn, DeleteOps
<1>2. CASE DeleteClaim(p) \/ DeleteValidatorRecord(p)
  BY <1>2 DEF DeleteClaim, DeleteValidatorRecord, Begins, DeleteTxn, QueryOps
<1>3. CASE ReadClaim(p) \/ ReadValidatorRecord(p) \/ ReadValidationRecord(p) \/ ReadVote(p)
  BY <1>3 DEF ReadClaim, ReadValidatorRecord, ReadValidationRecord, ReadVote, Begins, ReadTxn, QueryOps
<1>4. CASE WriteValidatorRecord(p)
  BY <1>4 DEF WriteValidatorRecord, Begins, DeleteOps
<1>5. CASE ValidationsByDomain(p) \/ ValidationsByEpoch(p) \/ VotesByValidator(p)
  BY <1>5, ScanForms
<1>6. CASE VotesForClaim(p)
  BY <1>6 DEF VotesForClaim, Begins
<1>7. CASE fetchRecords(p)
  BY <1>7 DEF fetchRecords, RInv, FetchReady
<1>8. CASE Commit(p)
  BY <1>8 DEF Commit
<1>9. CASE Reject(p) \/ CallClosed(p) \/ Fail(p)
  BY <1>9 DEF Reject, CallClosed, Fail
<1> QED
  BY <1>1, <1>2, <1>3, <1>4, <1>5, <1>6, <1>7, <1>8, <1>9 DEF Step

\* A query that has scanned keeps the records it will fetch: they are permanent.
LEMMA OthersReady ==
    ASSUME RInv, Kept, NEW o \in Clients, pc[o] = "fetch", req'[o] = req[o], ids'[o] = ids[o]
    PROVE  fetchKeys(o)' \subseteq DOMAIN db'
<1>1. fetchKeys(o) = FetchKeysOf(req[o], ids[o]) /\ fetchKeys(o)' = FetchKeysOf(req[o], ids[o])
  BY FetchKeysForm
<1>2. fetchKeys(o) \subseteq DOMAIN db
  BY DEF RInv, FetchReady
<1> QED
  BY <1>1, <1>2, FetchedArePermanent DEF Kept

\* The parts of RInv that are about the calls.
CallsReady == CommitReady /\ FetchReady /\ QueriesFindTheirRecords

LEMMA InformedKeeps ==
    ASSUME RInv, Kept, NEW p \in Clients, InformedStep(p)
    PROVE  CallsReady'
<1>1. db' = db /\ req' = req
  BY DEF InformedStep, Prepare, Returns, ScanTxn
<1>2. /\ pc \in [Clients -> {"idle", "called", "commit", "fetch", "done"}]
      /\ DOMAIN ids = Clients /\ DOMAIN res = Clients /\ DOMAIN stale = Clients
      /\ CommitReady /\ FetchReady /\ QueriesFindTheirRecords
  BY DEF RInv, SInv, TypeOK, IsCall
<1>3. \A o \in Clients : o # p => /\ pc'[o] = pc[o] /\ ids'[o] = ids[o]
                                  /\ res'[o] = res[o] /\ stale'[o] = stale[o]
  BY <1>2 DEF InformedStep, Prepare, Returns, Finish, ScanTxn
<1>4. \A o \in Clients : o # p /\ pc[o] = "fetch" => fetchKeys(o)' \subseteq DOMAIN db'
  BY <1>1, <1>3, OthersReady
<1>5. CASE Prepare(p) /\ validate(req[p]) /\ (req[p].op \in DeleteOps => pk(req[p]) \in DOMAIN db)
  <2>1. pc'[p] = "commit"
    BY <1>2, <1>5 DEF Prepare
  <2>2. CommitReady'
    BY <1>1, <1>2, <1>3, <1>5, <2>1 DEF CommitReady
  <2>3. FetchReady'
    BY <1>3, <1>4, <2>1 DEF FetchReady
  <2>4. QueriesFindTheirRecords'
    BY <1>1, <1>2, <1>3, <2>1 DEF QueriesFindTheirRecords
  <2> QED
    BY <2>2, <2>3, <2>4 DEF CallsReady
<1>6. ASSUME NEW err, NEW val, Returns(p, err, val), req[p].op \in QueryOps => err # "NotFound"
      PROVE  CallsReady'
  <2>1. pc'[p] = "done" /\ res'[p].err = err
    BY <1>2, <1>6 DEF Returns, Finish
  <2>2. CommitReady'
    BY <1>1, <1>2, <1>3, <2>1 DEF CommitReady
  <2>3. FetchReady'
    BY <1>3, <1>4, <2>1 DEF FetchReady
  <2>4. QueriesFindTheirRecords'
    BY <1>1, <1>2, <1>3, <1>6, <2>1 DEF QueriesFindTheirRecords
  <2> QED
    BY <2>2, <2>3, <2>4 DEF CallsReady
<1>7. CASE (\E space, name : ScanTxn(p, space, name)) /\ FetchKeysOf(req[p], ids'[p]) = KeysAsked(req[p])
           /\ req[p].op \in QueryOps
  <2>1. pc'[p] = "fetch"
    BY <1>2, <1>7 DEF ScanTxn
  <2>2. CommitReady'
    BY <1>1, <1>2, <1>3, <2>1 DEF CommitReady
  <2>3. fetchKeys(p)' \subseteq DOMAIN db'
    <3>1. fetchKeys(p)' = KeysAsked(req[p])
      BY <1>1, <1>7, FetchKeysForm
    <3> QED
      BY <1>1, <1>7, <3>1 DEF KeysAsked, Validations, Votes, QueryOps
  <2>4. FetchReady'
    BY <1>3, <1>4, <2>1, <2>3 DEF FetchReady
  <2>5. QueriesFindTheirRecords'
    BY <1>1, <1>2, <1>3, <2>1 DEF QueriesFindTheirRecords
  <2> QED
    BY <2>2, <2>4, <2>5 DEF CallsReady
<1> QED
  BY <1>5, <1>6, <1>7 DEF InformedStep

LEMMA CommitKeepsReady ==
    ASSUME RInv, NEW p \in Clients, pc[p] = "commit", CommitApplied(p)
    PROVE  CallsReady'
<1> DEFINE q == req[p]
<1>1. Kept /\ DOMAIN db' = (DOMAIN db \ dels(q)) \cup sets(q)
  BY CommitKeeps DEF RInv
<1>2. /\ pc \in [Clients -> {"idle", "called", "commit", "fetch", "done"}]
      /\ DOMAIN ids = Clients /\ DOMAIN res = Clients
      /\ CommitReady /\ FetchReady /\ QueriesFindTheirRecords
  BY DEF RInv, SInv, TypeOK, IsCall
<1>3. /\ req' = req /\ pc'[p] = "done" /\ res'[p].err = "nil"
      /\ \A o \in Clients : o # p => /\ pc'[o] = pc[o] /\ ids'[o] = ids[o] /\ res'[o] = res[o]
      /\ stale' = [o \in Clients |->
                       IF o # p /\ pc[o] = "commit" /\ reads(req[o]) \cap (sets(q) \cup dels(q)) # {}
                       THEN TRUE ELSE stale[o]]
  BY <1>2 DEF CommitApplied, Finish
<1> HIDE DEF q
<1>4. \A o \in Clients : o # p /\ pc[o] = "fetch" => fetchKeys(o)' \subseteq DOMAIN db'
  BY <1>1, <1>3, OthersReady
<1>5. ASSUME NEW o \in Clients, pc'[o] = "commit", ~stale'[o], req[o].op \in DeleteOps
      PROVE  pk(req[o]) \in DOMAIN db'
  <2>1. o # p /\ pc[o] = "commit"
    BY <1>3, <1>5
  <2>2. ~stale[o] /\ pk(req[o]) \notin dels(q)
    BY <1>3, <1>5, <2>1 DEF reads
  <2> QED
    BY <1>1, <1>2, <1>5, <2>1, <2>2 DEF CommitReady
<1>6. \A o \in Clients : pc'[o] = "commit" => validate(req[o])
  BY <1>2, <1>3 DEF CommitReady
<1>7. CommitReady'
  BY <1>3, <1>5, <1>6 DEF CommitReady
<1>8. FetchReady'
  BY <1>3, <1>4 DEF FetchReady
<1>9. QueriesFindTheirRecords'
  BY <1>2, <1>3 DEF QueriesFindTheirRecords
<1> QED
  BY <1>7, <1>8, <1>9 DEF CallsReady

LEMMA NodeKeepsReady ==
    ASSUME RInv, (\E p \in Clients, q \in Requests : Call(p, q)) \/ Close \/ Crash \/ Open
    PROVE  CallsReady'
<1>1. db' = db
  BY DEF Call, Close, Crash, Open
<1>2. /\ pc \in [Clients -> {"idle", "called", "commit", "fetch", "done"}]
      /\ DOMAIN req = Clients /\ DOMAIN ids = Clients /\ DOMAIN res = Clients
      /\ CommitReady /\ FetchReady /\ QueriesFindTheirRecords
  BY DEF RInv, SInv, TypeOK, IsCall
<1>3. ASSUME NEW p \in Clients, NEW q \in Requests, Call(p, q)
      PROVE  CallsReady'
  <2>1. /\ pc'[p] = "called" /\ stale' = stale
        /\ \A o \in Clients : o # p => /\ pc'[o] = pc[o] /\ ids'[o] = ids[o] /\ req'[o] = req[o]
                                      /\ res'[o] = res[o]
    BY <1>2, <1>3 DEF Call
  <2>2. CommitReady'
    BY <1>1, <1>2, <2>1 DEF CommitReady
  <2>3. \A o \in Clients : o # p /\ pc[o] = "fetch" => fetchKeys(o)' \subseteq DOMAIN db'
    <3>1. Kept
      BY <1>1 DEF Kept
    <3> QED
      BY <2>1, <3>1, OthersReady
  <2>4. FetchReady'
    BY <2>1, <2>3 DEF FetchReady
  <2>5. QueriesFindTheirRecords'
    BY <1>2, <2>1 DEF QueriesFindTheirRecords
  <2> QED
    BY <2>2, <2>4, <2>5 DEF CallsReady
<1>4. CASE Close
  <2>1. /\ req' = req
        /\ \A o \in Clients : \/ pc'[o] = "done" /\ res'[o].err = "ErrDBClosed"
                              \/ pc'[o] = pc[o] /\ res'[o] = res[o] /\ pc[o] \in {"idle", "called", "done"}
    <3>1. \A o \in Clients : pc[o] \in {"commit", "fetch"} => validate(req[o])
      BY DEF RInv, SInv, TypeOK, IsCall
    <3> QED
      BY <1>2, <1>4, <3>1 DEF Close
  <2> QED
    BY <1>2, <2>1 DEF CallsReady, CommitReady, FetchReady, QueriesFindTheirRecords
<1>5. CASE Crash
  <2>1. \A o \in Clients : pc'[o] = "idle"
    BY <1>5 DEF Crash
  <2> QED
    BY <2>1 DEF CallsReady, CommitReady, FetchReady, QueriesFindTheirRecords
<1>6. CASE Open
  BY <1>2, <1>6 DEF Open, CallsReady, CommitReady, FetchReady, QueriesFindTheirRecords, fetchKeys
<1> QED
  BY <1>3, <1>4, <1>5, <1>6

LEMMA QuietRecordKeys ==
    ASSUME RInv, db' = db
    PROVE  RecordKeysIn(db')
  BY DEF RInv

LEMMA RNextKeeps ==
    ASSUME FlatNames, RInv, [Next]_vars
    PROVE  RInv'
<1>1. CASE UNCHANGED vars
  <2>1. SInv'
    BY <1>1, StutterKeeps DEF RInv
  <2>2. CallsReady'
    BY <1>1 DEF RInv, vars, CallsReady, CommitReady, FetchReady, QueriesFindTheirRecords, fetchKeys
  <2>3. RecordKeysIn(db')
    BY <1>1, QuietRecordKeys DEF vars
  <2> QED
    BY <2>1, <2>2, <2>3 DEF RInv, CallsReady
<1>2. CASE Next
  <2>1. SInv' /\ Kept
    BY <1>2, NextKeeps DEF RInv
  <2>2. CASE (\E p \in Clients, q \in Requests : Call(p, q)) \/ Close \/ Crash \/ Open
    <3>1. CallsReady'
      BY <2>2, NodeKeepsReady
    <3>2. db' = db
      BY <2>2 DEF Call, Close, Crash, Open
    <3> QED
      BY <2>1, <3>1, <3>2, QuietRecordKeys DEF RInv, CallsReady
  <2>3. ASSUME NEW p \in Clients, Step(p) \/ Fail(p) PROVE RInv'
    <3>1. CASE InformedStep(p)
      <4>1. CallsReady'
        BY <2>1, <3>1, InformedKeeps
      <4>2. db' = db
        BY <3>1 DEF InformedStep, Prepare, Returns, ScanTxn
      <4> QED
        BY <2>1, <4>1, <4>2, QuietRecordKeys DEF RInv, CallsReady
    <3>2. CASE pc[p] = "commit" /\ CommitApplied(p)
      BY <2>1, <3>2, CommitKeepsReady, CommitKeepsKeys DEF RInv, CallsReady
    <3> QED
      BY <2>3, <3>1, <3>2, InformedForms
  <2> QED
    BY <1>2, <2>2, <2>3 DEF Next
<1> QED
  BY <1>1, <1>2

LEMMA RInit == Init => RInv
<1> SUFFICES ASSUME Init PROVE RInv
  OBVIOUS
<1>1. SInv
  BY InitHolds
<1>2. DOMAIN db = {} /\ \A p \in Clients : pc[p] = "idle"
  BY DEF Init
<1> QED
  BY <1>1, <1>2 DEF RInv, RecordKeysIn, CommitReady, FetchReady, QueriesFindTheirRecords

LEMMA RInvariance == ASSUME FlatNames PROVE Spec => []RInv
<1>1. RInv /\ [Next]_vars => RInv'
  BY RNextKeeps
<1> QED
  BY <1>1, RInit, PTL DEF Spec

\* Where no name contains "/", an index entry that the first View of a query
\* found leads its second View to a record, whatever was committed, closed or
\* lost in between.
THEOREM QueriesCorrect == ASSUME FlatNames PROVE Spec => []QueriesFindTheirRecords
  BY RInvariance, PTL DEF RInv

-----------------------------------------------------------------------------
\* The refinement mapping of the table, with the database made explicit.
PrimarySpaces == {"claim", "validator", "validation", "vote"}

PrimaryIn(D) == {k \in DOMAIN D : k[1] \in PrimarySpaces}

IdentityIn(D, k) == IF k[1] = "vote" THEN <<"vote", D[k].ClaimID, D[k].ValidatorID>> ELSE k

RecordsIn(D) == [i \in {IdentityIn(D, k) : k \in PrimaryIn(D)} |-> D[keyOf(i)]]

LEMMA MappingForm == specRecords = RecordsIn(db) /\ specRecords' = RecordsIn(db')
  BY DEF specRecords, RecordsIn, primary, PrimaryIn, PrimarySpaces, identity, IdentityIn, keyOf, voteKey

\* Identities are faithful: each leads back to the key it comes from.
KeysBack(D) == \A k \in PrimaryIn(D) : keyOf(IdentityIn(D, k)) = k

LEMMA IdentitiesFaithful ==
    ASSUME NEW D, RecordKeysIn(D)
    PROVE  KeysBack(D)
<1> SUFFICES ASSUME NEW k \in PrimaryIn(D) PROVE keyOf(IdentityIn(D, k)) = k
  BY DEF KeysBack
<1>1. CASE k[1] = "vote"
  <2>1. k = voteKey(D[k].ClaimID, D[k].ValidatorID)
    BY <1>1 DEF RecordKeysIn, PrimaryIn
  <2>2. \A c, v : keyOf(<<"vote", c, v>>) = voteKey(c, v)
    BY DEF keyOf
  <2>3. IdentityIn(D, k) = <<"vote", D[k].ClaimID, D[k].ValidatorID>>
    BY <1>1 DEF IdentityIn
  <2> QED
    BY <2>1, <2>2, <2>3, Zenon
<1>2. CASE k[1] # "vote"
  BY <1>2 DEF keyOf, IdentityIn
<1> QED
  BY <1>1, <1>2

LEMMA TableDomain ==
    ASSUME NEW D, KeysBack(D)
    PROVE  /\ \A k \in PrimaryIn(D) : /\ IdentityIn(D, k) \in DOMAIN RecordsIn(D)
                                      /\ RecordsIn(D)[IdentityIn(D, k)] = D[k]
           /\ \A i \in DOMAIN RecordsIn(D) : \E k \in PrimaryIn(D) : i = IdentityIn(D, k)
<1>1. DOMAIN RecordsIn(D) = {IdentityIn(D, k) : k \in PrimaryIn(D)}
  BY DEF RecordsIn
<1>2. \A i \in DOMAIN RecordsIn(D) : RecordsIn(D)[i] = D[keyOf(i)]
  BY DEF RecordsIn
<1> QED
  BY <1>1, <1>2 DEF KeysBack

\* A table with the record r under i, and one without what is under i.
TableWith(T, i, r) == [x \in DOMAIN T \cup {i} |-> IF x = i THEN r ELSE T[x]]
TableWithout(T, i) == [x \in DOMAIN T \ {i} |-> T[x]]

\* D and E are the same but for the record r under k, of identity i, which E has.
Sets(D, E, k, i, r) ==
    /\ KeysBack(D) /\ KeysBack(E)
    /\ PrimaryIn(E) = PrimaryIn(D) \cup {k}
    /\ \A j \in PrimaryIn(D) : j # k => E[j] = D[j]
    /\ E[k] = r
    /\ IdentityIn(E, k) = i
    /\ k \in PrimaryIn(D) => IdentityIn(D, k) = i

\* E is D without the record under k, of identity i.
Deletes(D, E, k, i) ==
    /\ KeysBack(D)
    /\ k \in PrimaryIn(D) /\ IdentityIn(D, k) = i
    /\ PrimaryIn(E) = PrimaryIn(D) \ {k}
    /\ \A j \in PrimaryIn(E) : E[j] = D[j]

LEMMA TableSet ==
    ASSUME NEW D, NEW E, NEW k, NEW i, NEW r, Sets(D, E, k, i, r)
    PROVE  RecordsIn(E) = TableWith(RecordsIn(D), i, r)
<1>1. /\ PrimaryIn(E) = PrimaryIn(D) \cup {k} /\ E[k] = r /\ \A j \in PrimaryIn(D) : j # k => E[j] = D[j]
      /\ KeysBack(D) /\ KeysBack(E)
      /\ IdentityIn(E, k) = i /\ (k \in PrimaryIn(D) => IdentityIn(D, k) = i)
  BY DEF Sets
<1>2. \A j \in PrimaryIn(D) : j # k => IdentityIn(E, j) = IdentityIn(D, j)
  BY <1>1 DEF IdentityIn
<1>3. keyOf(i) = k
  BY <1>1 DEF KeysBack
<1>4. \A j \in PrimaryIn(D) : j # k => IdentityIn(D, j) # i /\ keyOf(IdentityIn(D, j)) = j
  BY <1>1, <1>3 DEF KeysBack
<1>5. DOMAIN RecordsIn(D) = {IdentityIn(D, j) : j \in PrimaryIn(D)}
  BY DEF RecordsIn
<1>6. {IdentityIn(E, j) : j \in PrimaryIn(E)} = DOMAIN RecordsIn(D) \cup {i}
  BY <1>1, <1>2, <1>5
<1>7. ASSUME NEW x \in DOMAIN RecordsIn(D) \cup {i}
      PROVE  E[keyOf(x)] = IF x = i THEN r ELSE RecordsIn(D)[x]
  <2>1. CASE x = i
    BY <1>1, <1>3, <2>1
  <2>2. CASE x # i
    <3>1. PICK j \in PrimaryIn(D) : x = IdentityIn(D, j)
      BY <1>5, <1>7, <2>2
    <3>2. j # k
      BY <1>1, <2>2, <3>1
    <3>3. keyOf(x) = j /\ E[j] = D[j] /\ RecordsIn(D)[x] = D[j]
      BY <1>1, <1>4, <3>1, <3>2, TableDomain
    <3> QED
      BY <2>2, <3>3
  <2> QED
    BY <2>1, <2>2
<1>8. RecordsIn(E) = [x \in DOMAIN RecordsIn(D) \cup {i} |-> E[keyOf(x)]]
  BY <1>6 DEF RecordsIn
<1> QED
  BY <1>7, <1>8 DEF TableWith

LEMMA TableDelete ==
    ASSUME NEW D, NEW E, NEW k, NEW i, Deletes(D, E, k, i)
    PROVE  RecordsIn(E) = TableWithout(RecordsIn(D), i)
<1>0. /\ KeysBack(D) /\ k \in PrimaryIn(D) /\ IdentityIn(D, k) = i
      /\ PrimaryIn(E) = PrimaryIn(D) \ {k} /\ \A j \in PrimaryIn(E) : E[j] = D[j]
  BY DEF Deletes
<1>1. \A j \in PrimaryIn(E) : IdentityIn(E, j) = IdentityIn(D, j)
  BY <1>0 DEF IdentityIn
<1>2. \A j \in PrimaryIn(D) : keyOf(IdentityIn(D, j)) = j
  BY <1>0 DEF KeysBack
<1>3. DOMAIN RecordsIn(D) = {IdentityIn(D, j) : j \in PrimaryIn(D)}
  BY DEF RecordsIn
<1>4. {IdentityIn(E, j) : j \in PrimaryIn(E)} = DOMAIN RecordsIn(D) \ {i}
  <2>1. {IdentityIn(E, j) : j \in PrimaryIn(E)} = {IdentityIn(D, j) : j \in PrimaryIn(E)}
    BY <1>1
  <2>2. \A j \in PrimaryIn(D) : IdentityIn(D, j) = i => j = k
    BY <1>0, <1>2
  <2> QED
    BY <1>0, <1>3, <2>1, <2>2
<1>5. ASSUME NEW x \in DOMAIN RecordsIn(D) \ {i} PROVE E[keyOf(x)] = RecordsIn(D)[x]
  <2>1. PICK j \in PrimaryIn(D) : x = IdentityIn(D, j)
    BY <1>3, <1>5
  <2>2. j \in PrimaryIn(E) /\ keyOf(x) = j
    BY <1>0, <1>2, <1>5, <2>1
  <2>3. RecordsIn(D)[x] = D[j]
    BY <1>0, <2>1, TableDomain
  <2> QED
    BY <1>0, <2>2, <2>3
<1>6. RecordsIn(E) = [x \in DOMAIN RecordsIn(D) \ {i} |-> E[keyOf(x)]]
  BY <1>4 DEF RecordsIn
<1> QED
  BY <1>5, <1>6 DEF TableWithout

\* The methods that are about one record.
RecordOps == UpdateOps \cup ReadOps

LEMMA RequestKey ==
    ASSUME NEW q, q.op \in RecordOps
    PROVE  pk(q)[1] \in PrimarySpaces /\ keyOf(Abstract!Id(q)) = pk(q)
<1> USE DEF pk, Abstract!Id, keyOf, PrimarySpaces, claimKey, validatorKey, validationKey, voteKey
<1>1. CASE q.op \in {"WriteClaim", "ReadClaim", "DeleteClaim"}
  BY <1>1
<1>2. CASE q.op \in {"WriteValidatorRecord", "ReadValidatorRecord", "DeleteValidatorRecord"}
  BY <1>2
<1>3. CASE q.op \in {"WriteValidationRecord", "ReadValidationRecord"}
  BY <1>3
<1>4. CASE q.op \in {"WriteVote", "ReadVote"}
  BY <1>4
<1> QED
  BY <1>1, <1>2, <1>3, <1>4 DEF RecordOps, UpdateOps, InsertOps, DeleteOps, ReadOps

\* The record under the key of a call has the identity the call is about: for
\* votes, because two flat names are known from their joined key.
LEMMA RequestIdentity ==
    ASSUME FlatNames, NEW D, RecordKeysIn(D), NEW q \in Requests, q.op \in RecordOps, pk(q) \in DOMAIN D
    PROVE  IdentityIn(D, pk(q)) = Abstract!Id(q)
<1>1. CASE q.op \in {"WriteVote", "ReadVote"}
  <2> DEFINE k == pk(q)
             c == q.arg.ClaimID
             v == q.arg.ValidatorID
  <2>1. k = voteKey(c, v) /\ Abstract!Id(q) = <<"vote", c, v>>
    BY <1>1 DEF pk, Abstract!Id
  <2>2. Flat(c) /\ Flat(v)
    BY <1>1 DEF FlatNames, NamesOf
  <2> HIDE DEF k, c, v
  <2>0. \A a, b : voteKey(a, b)[1] = "vote" /\ voteKey(a, b)[2] = a \o b
    BY DEF voteKey
  <2>3. k[1] = "vote" /\ k[2] = c \o v
    BY <2>0, <2>1, Zenon
  <2>4. /\ k = voteKey(D[k].ClaimID, D[k].ValidatorID)
        /\ Flat(D[k].ClaimID) /\ Flat(D[k].ValidatorID)
    BY <2>3 DEF RecordKeysIn, k
  <2>5. k[2] = D[k].ClaimID \o D[k].ValidatorID
    BY <2>0, <2>4, Zenon
  <2>6. D[k].ClaimID = c /\ D[k].ValidatorID = v
    <3>1. PICK a, b : a = D[k].ClaimID /\ b = D[k].ValidatorID
      OBVIOUS
    <3>2. Flat(a) /\ Flat(b) /\ a \o b = c \o v
      BY <2>3, <2>4, <2>5, <3>1, Zenon
    <3>3. OneKey(a, b, c, v)
      BY <2>2, <3>2, Zenon DEF OneKey
    <3>4. a = c /\ b = v
      BY ONLY <3>3, NamesFromJoined, Zenon
    <3> QED
      BY <3>1, <3>4
  <2>7. IdentityIn(D, k) = <<"vote", c, v>>
    BY <2>3, <2>6 DEF IdentityIn
  <2> QED
    BY <2>1, <2>7 DEF k
<1>2. CASE q.op \notin {"WriteVote", "ReadVote"}
  <2>1. pk(q) = Abstract!Id(q) /\ pk(q)[1] # "vote"
    BY <1>2 DEF pk, Abstract!Id, claimKey, validatorKey, validationKey,
                RecordOps, UpdateOps, InsertOps, DeleteOps, ReadOps
  <2> QED
    BY <2>1 DEF IdentityIn
<1> QED
  BY <1>1, <1>2

\* A call finds its key exactly when the table has the record.
LEMMA RequestFound ==
    ASSUME FlatNames, RInv, NEW q \in Requests, q.op \in RecordOps
    PROVE  /\ Abstract!Id(q) \in DOMAIN specRecords <=> pk(q) \in DOMAIN db
           /\ pk(q) \in DOMAIN db => specRecords[Abstract!Id(q)] = db[pk(q)]
<1>1. RecordKeysIn(db) /\ specRecords = RecordsIn(db)
  BY MappingForm DEF RInv
<1>2. KeysBack(db)
  BY <1>1, IdentitiesFaithful
<1>3. ASSUME pk(q) \in DOMAIN db
      PROVE  Abstract!Id(q) \in DOMAIN specRecords /\ specRecords[Abstract!Id(q)] = db[pk(q)]
  <2>1. pk(q) \in PrimaryIn(db) /\ IdentityIn(db, pk(q)) = Abstract!Id(q)
    BY <1>1, <1>3, RequestKey, RequestIdentity DEF PrimaryIn
  <2>2. IdentityIn(db, pk(q)) \in DOMAIN RecordsIn(db) /\ RecordsIn(db)[IdentityIn(db, pk(q))] = db[pk(q)]
    BY <1>2, <2>1, TableDomain
  <2> QED
    BY <1>1, <2>1, <2>2, Zenon
<1>4. ASSUME Abstract!Id(q) \in DOMAIN specRecords PROVE pk(q) \in DOMAIN db
  <2>1. PICK k \in PrimaryIn(db) : Abstract!Id(q) = IdentityIn(db, k)
    BY <1>1, <1>2, <1>4, TableDomain
  <2>2. keyOf(Abstract!Id(q)) = k /\ keyOf(Abstract!Id(q)) = pk(q)
    BY <1>2, <2>1, RequestKey DEF KeysBack
  <2> QED
    BY <2>2 DEF PrimaryIn
<1> QED
  BY <1>3, <1>4

-----------------------------------------------------------------------------
\* What a client sees of its call, seen through the mapping.
LEMMA OthersSame ==
    ASSUME RInv, Kept, NEW o \in Clients, pc'[o] = pc[o], req'[o] = req[o], ids'[o] = ids[o],
           res'[o] = res[o]
    PROVE  specPhase'[o] = specPhase[o] /\ specResult'[o] = specResult[o]
<1>1. specPhase'[o] = specPhase[o]
  BY DEF specPhase
<1>2. CASE pc[o] # "fetch"
  BY <1>1, <1>2 DEF specResult
<1>3. CASE pc[o] = "fetch"
  <2>1. fetchKeys(o) = FetchKeysOf(req[o], ids[o]) /\ fetchKeys(o)' = FetchKeysOf(req[o], ids[o])
    BY FetchKeysForm
  <2>2. fetchKeys(o) \subseteq DOMAIN db
    BY <1>3 DEF RInv, FetchReady
  <2>3. \A k \in FetchKeysOf(req[o], ids[o]) : k \in DOMAIN db /\ k \in DOMAIN db' /\ db'[k] = db[k]
    BY <2>1, <2>2, FetchedArePermanent DEF Kept
  <2>4. specResult[o] = [err |-> "nil", val |-> {db[k] : k \in fetchKeys(o) \cap DOMAIN db}]
    BY <1>3 DEF specResult
  <2>5. specResult'[o] = [err |-> "nil", val |-> {db'[k] : k \in fetchKeys(o)' \cap DOMAIN db'}]
    BY <1>3 DEF specResult
  <2>6. {db'[k] : k \in fetchKeys(o)' \cap DOMAIN db'} = {db[k] : k \in fetchKeys(o) \cap DOMAIN db}
    BY <2>1, <2>3
  <2> QED
    BY <1>1, <2>4, <2>5, <2>6
<1> QED
  BY <1>2, <1>3

LEMMA SameTable ==
    ASSUME db' = db
    PROVE  specRecords' = specRecords /\ Kept
  BY MappingForm DEF Kept

\* A call that returns is done in the abstract store.
LEMMA FinishMaps ==
    ASSUME RInv, Kept, NEW p \in Clients, NEW err, NEW val, Finish(p, err, val), req' = req
    PROVE  Abstract!Done(p, err, val)
<1>1. /\ pc' = [pc EXCEPT ![p] = "done"] /\ res' = [res EXCEPT ![p] = [err |-> err, val |-> val]]
      /\ ids' = [ids EXCEPT ![p] = {}]
  BY DEF Finish
<1>2. DOMAIN pc = Clients /\ DOMAIN ids = Clients /\ DOMAIN res = Clients
  BY DEF RInv, SInv, TypeOK, IsCall
<1>3. pc'[p] = "done" /\ res'[p] = [err |-> err, val |-> val]
  BY <1>1, <1>2
<1>4. ASSUME NEW o \in Clients, o # p
      PROVE  specPhase'[o] = specPhase[o] /\ specResult'[o] = specResult[o]
  <2>1. pc'[o] = pc[o] /\ req'[o] = req[o] /\ ids'[o] = ids[o] /\ res'[o] = res[o]
    BY <1>1, <1>2, <1>4
  <2> QED
    BY <2>1, OthersSame
<1>5. specPhase'[p] = "done" /\ specResult'[p] = [err |-> err, val |-> val]
  BY <1>3 DEF specPhase, specResult
<1>6. /\ specPhase = [o \in Clients |-> specPhase[o]] /\ specPhase' = [o \in Clients |-> specPhase'[o]]
      /\ specResult = [o \in Clients |-> specResult[o]] /\ specResult' = [o \in Clients |-> specResult'[o]]
  BY DEF specPhase, specResult
<1>7. specPhase' = [specPhase EXCEPT ![p] = "done"]
  BY <1>4, <1>5, <1>6
<1>8. specResult' = [specResult EXCEPT ![p] = [err |-> err, val |-> val]]
  BY <1>4, <1>5, <1>6
<1> QED
  BY <1>7, <1>8 DEF Abstract!Done

LEMMA ReturnMaps ==
    ASSUME RInv, NEW p \in Clients, NEW err, NEW val, Returns(p, err, val)
    PROVE  Abstract!Done(p, err, val) /\ specRecords' = specRecords
<1>1. Finish(p, err, val) /\ req' = req /\ db' = db
  BY DEF Returns
<1> QED
  BY <1>1, SameTable, FinishMaps

\* Until its commit an update is pending.
LEMMA PrepareMaps ==
    ASSUME RInv, NEW p \in Clients, Prepare(p), pc[p] = "called"
    PROVE  UNCHANGED Abstract!svars
<1>1. pc' = [pc EXCEPT ![p] = "commit"] /\ UNCHANGED <<db, req, ids, res>>
  BY DEF Prepare
<1>2. DOMAIN pc = Clients
  BY DEF RInv, SInv, TypeOK, IsCall
<1>3. specRecords' = specRecords /\ Kept
  BY <1>1, SameTable
<1>4. ASSUME NEW o \in Clients, o # p
      PROVE  specPhase'[o] = specPhase[o] /\ specResult'[o] = specResult[o]
  <2>1. pc'[o] = pc[o]
    BY <1>1, <1>2, <1>4
  <2> QED
    BY <1>1, <1>3, <2>1, OthersSame
<1>5. specPhase'[p] = specPhase[p] /\ specResult'[p] = specResult[p]
  <2>1. pc'[p] = "commit"
    BY <1>1, <1>2
  <2> QED
    BY <1>1, <2>1 DEF specPhase, specResult
<1>6. /\ specPhase = [o \in Clients |-> specPhase[o]] /\ specPhase' = [o \in Clients |-> specPhase'[o]]
      /\ specResult = [o \in Clients |-> specResult[o]] /\ specResult' = [o \in Clients |-> specResult'[o]]
  BY DEF specPhase, specResult
<1>7. specPhase' = specPhase
  BY <1>4, <1>5, <1>6
<1>8. specResult' = specResult
  BY <1>4, <1>5, <1>6
<1> QED
  BY <1>1, <1>3, <1>7, <1>8 DEF Abstract!svars

\* The records a query asks for, in the table and under their keys.
LEMMA MatchesAsked ==
    ASSUME RInv, NEW q, q.op \in QueryOps \cup {"VotesForClaim"}
    PROVE  Abstract!Matches(q) = {db[k] : k \in KeysAsked(q)}
<1> DEFINE T == specRecords
<1>1. T = RecordsIn(db) /\ KeysBack(db)
  BY MappingForm, IdentitiesFaithful DEF RInv
<1>2. \A k \in PrimaryIn(db) : /\ IdentityIn(db, k) \in DOMAIN T
                               /\ T[IdentityIn(db, k)] = db[k]
                               /\ IdentityIn(db, k)[1] = k[1]
  BY <1>1, TableDomain DEF IdentityIn
<1>3. \A i \in DOMAIN T : \E k \in PrimaryIn(db) : i = IdentityIn(db, k)
  BY <1>1, TableDomain
<1>4. Validations \subseteq PrimaryIn(db) /\ Votes \subseteq PrimaryIn(db)
  BY DEF Validations, Votes, PrimaryIn, PrimarySpaces
<1>5. \A k \in PrimaryIn(db) : (k[1] = "validation" <=> k \in Validations) /\ (k[1] = "vote" <=> k \in Votes)
  BY DEF Validations, Votes, PrimaryIn
<1> HIDE DEF T
<1>6. CASE q.op = "ValidationsByDomain"
  <2>1. Abstract!Matches(q) = {T[i] : i \in {x \in DOMAIN T : x[1] = "validation" /\ T[x].Domain = Normalise(q.arg)}}
    BY <1>6 DEF Abstract!Matches, T
  <2>2. KeysAsked(q) = {k \in Validations : db[k].Domain = Normalise(q.arg)}
    BY <1>6 DEF KeysAsked
  <2> QED
    BY <1>2, <1>3, <1>4, <1>5, <2>1, <2>2
<1>7. CASE q.op = "ValidationsByEpoch"
  <2>1. Abstract!Matches(q) = {T[i] : i \in {x \in DOMAIN T : x[1] = "validation" /\ T[x].Epoch = q.arg}}
    BY <1>7 DEF Abstract!Matches, T
  <2>2. KeysAsked(q) = {k \in Validations : db[k].Epoch = q.arg}
    BY <1>7 DEF KeysAsked
  <2> QED
    BY <1>2, <1>3, <1>4, <1>5, <2>1, <2>2
<1>8. CASE q.op = "VotesForClaim"
  <2>1. Abstract!Matches(q) = {T[i] : i \in {x \in DOMAIN T : x[1] = "vote" /\ T[x].ClaimID = q.arg}}
    BY <1>8 DEF Abstract!Matches, T
  <2>2. KeysAsked(q) = {k \in Votes : db[k].ClaimID = q.arg}
    BY <1>8 DEF KeysAsked
  <2> QED
    BY <1>2, <1>3, <1>4, <1>5, <2>1, <2>2
<1>9. CASE q.op = "VotesByValidator"
  <2>1. Abstract!Matches(q) = {T[i] : i \in {x \in DOMAIN T : x[1] = "vote" /\ T[x].ValidatorID = q.arg}}
    BY <1>9 DEF Abstract!Matches, T
  <2>2. KeysAsked(q) = {k \in Votes : db[k].ValidatorID = q.arg}
    BY <1>9 DEF KeysAsked
  <2> QED
    BY <1>2, <1>3, <1>4, <1>5, <2>1, <2>2
<1> QED
  BY <1>6, <1>7, <1>8, <1>9 DEF QueryOps

-----------------------------------------------------------------------------
\* Each step of the store is a step of the table of records, or none.
Simulated == Abstract!Next \/ UNCHANGED Abstract!svars

LEMMA PendingMaps ==
    ASSUME RInv, NEW p \in Clients, NEW ops, pc[p] \in {"called", "commit"}, req[p].op \in ops,
           validate(req[p])
    PROVE  Abstract!Pending(p, ops)
<1>1. specPhase[p] = "pending"
  BY DEF specPhase
<1> QED
  BY <1>1 DEF Abstract!Pending

LEMMA InsertMaps ==
    ASSUME FlatNames, RInv, NEW p \in Clients, WriteClaim(p) \/ WriteValidationRecord(p) \/ WriteVote(p)
    PROVE  Simulated
<1>1. /\ pc[p] = "called" /\ req[p].op \in InsertOps /\ validate(req[p]) /\ InsertTxn(p)
  BY DEF WriteClaim, WriteValidationRecord, WriteVote, Begins, InsertOps
<1>2. req[p] \in Requests /\ req[p].op \in RecordOps
  BY <1>1 DEF RInv, SInv, TypeOK, IsCall, RecordOps, UpdateOps
<1>3. CASE pk(req[p]) \in DOMAIN db /\ Returns(p, "ErrAlreadyExists", {})
  <2>1. Abstract!Id(req[p]) \in DOMAIN specRecords
    BY <1>2, <1>3, RequestFound
  <2>2. Abstract!Done(p, "ErrAlreadyExists", {}) /\ specRecords' = specRecords
    BY <1>3, ReturnMaps
  <2>3. Abstract!Pending(p, {"WriteClaim", "WriteValidationRecord", "WriteVote"})
    BY <1>1, PendingMaps DEF InsertOps
  <2> QED
    BY <2>1, <2>2, <2>3 DEF Simulated, Abstract!Next, Abstract!Insert
<1>4. CASE Prepare(p)
  BY <1>1, <1>4, PrepareMaps DEF Simulated
<1> QED
  BY <1>1, <1>3, <1>4 DEF InsertTxn

LEMMA DeleteMaps ==
    ASSUME FlatNames, RInv, NEW p \in Clients, DeleteClaim(p) \/ DeleteValidatorRecord(p)
    PROVE  Simulated
<1>1. /\ pc[p] = "called" /\ req[p].op \in DeleteOps /\ validate(req[p]) /\ DeleteTxn(p)
  BY DEF DeleteClaim, DeleteValidatorRecord, Begins, DeleteOps
<1>2. req[p] \in Requests /\ req[p].op \in RecordOps
  BY <1>1 DEF RInv, SInv, TypeOK, IsCall, RecordOps, UpdateOps
<1>3. CASE pk(req[p]) \notin DOMAIN db /\ Returns(p, "NotFound", {})
  <2>1. Abstract!Id(req[p]) \notin DOMAIN specRecords
    BY <1>2, <1>3, RequestFound
  <2>2. Abstract!Done(p, "NotFound", {}) /\ specRecords' = specRecords
    BY <1>3, ReturnMaps
  <2>3. Abstract!Pending(p, {"DeleteClaim", "DeleteValidatorRecord"})
    BY <1>1, PendingMaps DEF DeleteOps
  <2> QED
    BY <2>1, <2>2, <2>3 DEF Simulated, Abstract!Next, Abstract!Delete
<1>4. CASE Prepare(p)
  BY <1>1, <1>4, PrepareMaps DEF Simulated
<1> QED
  BY <1>1, <1>3, <1>4 DEF DeleteTxn

LEMMA ReadMaps ==
    ASSUME FlatNames, RInv, NEW p \in Clients,
           ReadClaim(p) \/ ReadValidatorRecord(p) \/ ReadValidationRecord(p) \/ ReadVote(p)
    PROVE  Simulated
<1>1. /\ pc[p] = "called" /\ req[p].op \in ReadOps /\ validate(req[p]) /\ ReadTxn(p)
  BY DEF ReadClaim, ReadValidatorRecord, ReadValidationRecord, ReadVote, Begins, ReadOps
<1>2. req[p] \in Requests /\ req[p].op \in RecordOps
  BY <1>1 DEF RInv, SInv, TypeOK, IsCall, RecordOps
<1>3. Abstract!Pending(p, {"ReadClaim", "ReadValidatorRecord", "ReadValidationRecord", "ReadVote"})
  BY <1>1, PendingMaps DEF ReadOps
<1>4. CASE pk(req[p]) \notin DOMAIN db /\ Returns(p, "NotFound", {})
  <2>1. Abstract!Id(req[p]) \notin DOMAIN specRecords
    BY <1>2, <1>4, RequestFound
  <2>2. Abstract!Done(p, "NotFound", {}) /\ specRecords' = specRecords
    BY <1>4, ReturnMaps
  <2> QED
    BY <1>3, <2>1, <2>2 DEF Simulated, Abstract!Next, Abstract!Read
<1>5. CASE pk(req[p]) \in DOMAIN db /\ Returns(p, "nil", {db[pk(req[p])]})
  <2>1. Abstract!Id(req[p]) \in DOMAIN specRecords /\ specRecords[Abstract!Id(req[p])] = db[pk(req[p])]
    BY <1>2, <1>5, RequestFound
  <2>2. Abstract!Done(p, "nil", {db[pk(req[p])]}) /\ specRecords' = specRecords
    BY <1>5, ReturnMaps
  <2> QED
    BY <1>3, <2>1, <2>2 DEF Simulated, Abstract!Next, Abstract!Read
<1> QED
  BY <1>1, <1>4, <1>5 DEF ReadTxn

\* A query by index takes its answer at its first View.
LEMMA ScanMaps ==
    ASSUME FlatNames, RInv, NEW p \in Clients,
           ValidationsByDomain(p) \/ ValidationsByEpoch(p) \/ VotesByValidator(p)
    PROVE  Simulated
<1>1. /\ pc[p] = "called" /\ req[p].op \in QueryOps /\ validate(req[p]) /\ req[p] \in Requests
      /\ \E space, name : ScanTxn(p, space, name)
      /\ FetchKeysOf(req[p], ids'[p]) = KeysAsked(req[p])
  BY ScanForms
<1>2. /\ pc' = [pc EXCEPT ![p] = "fetch"] /\ UNCHANGED <<db, req, res>>
      /\ \E S : ids' = [ids EXCEPT ![p] = S]
  BY <1>1 DEF ScanTxn
<1>3. DOMAIN pc = Clients /\ DOMAIN ids = Clients
  BY DEF RInv, SInv, TypeOK, IsCall
<1>4. specRecords' = specRecords /\ Kept
  BY <1>2, SameTable
<1>5. ASSUME NEW o \in Clients, o # p
      PROVE  specPhase'[o] = specPhase[o] /\ specResult'[o] = specResult[o]
  <2>1. pc'[o] = pc[o] /\ ids'[o] = ids[o]
    BY <1>2, <1>3, <1>5
  <2> QED
    BY <1>2, <1>4, <2>1, OthersSame
<1>6. pc'[p] = "fetch"
  BY <1>2, <1>3
<1>7. specPhase'[p] = "answered"
  BY <1>6 DEF specPhase
<1>8. specResult'[p] = [err |-> "nil", val |-> Abstract!Matches(req[p])]
  <2>1. specResult'[p] = [err |-> "nil", val |-> {db'[k] : k \in fetchKeys(p)' \cap DOMAIN db'}]
    BY <1>6 DEF specResult
  <2>2. fetchKeys(p)' = KeysAsked(req[p])
    BY <1>1, <1>2, FetchKeysForm
  <2>3. KeysAsked(req[p]) \subseteq DOMAIN db
    BY <1>1 DEF KeysAsked, Validations, Votes, QueryOps
  <2>4. {db'[k] : k \in fetchKeys(p)' \cap DOMAIN db'} = {db[k] : k \in KeysAsked(req[p])}
    BY <1>2, <2>2, <2>3
  <2>5. Abstract!Matches(req[p]) = {db[k] : k \in KeysAsked(req[p])}
    BY <1>1, MatchesAsked
  <2> QED
    BY <2>1, <2>4, <2>5
<1>9. /\ specPhase = [o \in Clients |-> specPhase[o]] /\ specPhase' = [o \in Clients |-> specPhase'[o]]
      /\ specResult = [o \in Clients |-> specResult[o]] /\ specResult' = [o \in Clients |-> specResult'[o]]
  BY DEF specPhase, specResult
<1>10. specPhase' = [specPhase EXCEPT ![p] = "answered"]
  BY <1>5, <1>7, <1>9
<1>11. specResult' = [specResult EXCEPT ![p] = [err |-> "nil", val |-> Abstract!Matches(req[p])]]
  BY <1>5, <1>8, <1>9
<1>12. Abstract!Pending(p, {"ValidationsByDomain", "ValidationsByEpoch", "VotesForClaim", "VotesByValidator"})
  BY <1>1, PendingMaps DEF QueryOps
<1> QED
  BY <1>2, <1>4, <1>10, <1>11, <1>12 DEF Simulated, Abstract!Next, Abstract!Answer

\* VotesForClaim needs one View, and answers and returns there.
LEMMA VotesForClaimMaps ==
    ASSUME FlatNames, RInv, NEW p \in Clients, VotesForClaim(p)
    PROVE  Simulated
<1>1. /\ pc[p] = "called" /\ req[p].op = "VotesForClaim" /\ validate(req[p])
      /\ Returns(p, "nil", {db[k] : k \in keysUnder("vote", req[p].arg)})
  BY DEF VotesForClaim, Begins
<1>2. req[p] \in Requests
  BY <1>1 DEF RInv, SInv, TypeOK, IsCall
<1>3. keysUnder("vote", req[p].arg) = KeysAsked(req[p])
  BY <1>1, <1>2, ScannedKeys
<1>4. Abstract!Matches(req[p]) = {db[k] : k \in KeysAsked(req[p])}
  BY <1>1, MatchesAsked
<1>5. Returns(p, "nil", Abstract!Matches(req[p]))
  BY <1>1, <1>3, <1>4
<1>6. Abstract!Done(p, "nil", Abstract!Matches(req[p])) /\ specRecords' = specRecords
  BY <1>5, ReturnMaps
<1>7. Abstract!Pending(p, {"ValidationsByDomain", "ValidationsByEpoch", "VotesForClaim", "VotesByValidator"})
  BY <1>1, PendingMaps
<1> QED
  BY <1>6, <1>7 DEF Simulated, Abstract!Next, Abstract!Answer, Abstract!Done

\* The second View of a query only delivers the answer.
LEMMA FetchMaps ==
    ASSUME RInv, NEW p \in Clients, fetchRecords(p)
    PROVE  Simulated
<1>1. /\ pc[p] = "fetch" /\ fetchKeys(p) \subseteq DOMAIN db
      /\ Returns(p, "nil", {db[k] : k \in fetchKeys(p)})
  BY DEF fetchRecords, RInv, FetchReady
<1>2. Abstract!Done(p, "nil", {db[k] : k \in fetchKeys(p)}) /\ specRecords' = specRecords
  BY <1>1, ReturnMaps
<1>3. specPhase[p] = "answered"
  BY <1>1 DEF specPhase
<1>4. specResult[p] = [err |-> "nil", val |-> {db[k] : k \in fetchKeys(p)}]
  <2>1. {db[k] : k \in fetchKeys(p) \cap DOMAIN db} = {db[k] : k \in fetchKeys(p)}
    BY <1>1
  <2>2. specResult[p] = [err |-> "nil", val |-> {db[k] : k \in fetchKeys(p) \cap DOMAIN db}]
    BY <1>1 DEF specResult
  <2> QED
    BY <2>1, <2>2
<1>5. specResult = [o \in Clients |-> specResult[o]]
  BY DEF specResult
<1>6. specResult' = specResult
  BY <1>2, <1>4, <1>5 DEF Abstract!Done
<1> QED
  BY <1>2, <1>3, <1>6 DEF Simulated, Abstract!Next, Abstract!Deliver, Abstract!Done

LEMMA CommitSets ==
    ASSUME FlatNames, RInv, NEW p \in Clients, pc[p] = "commit", CommitApplied(p), req[p].op \notin DeleteOps
    PROVE  Abstract!SetRecord(req[p])
<1> DEFINE q == req[p]
<1>1. q.op \in UpdateOps /\ q \in Requests /\ q.op \in RecordOps
  BY DEF RInv, SInv, TypeOK, IsCall, UpdateOps, RecordOps
<1>2. db' = [k \in (DOMAIN db \ dels(q)) \cup sets(q) |->
                 IF k \notin sets(q) THEN db[k] ELSE IF k = pk(q) THEN recordOf(q) ELSE Empty]
  BY DEF CommitApplied
<1>3. dels(q) = {} /\ sets(q) = {pk(q)} \cup indexKeys(q)
  BY DEF dels, sets
<1>4. \A k \in indexKeys(q) : k[1] \notin PrimarySpaces
  BY IndexSpace DEF IndexSpaces, PrimarySpaces
<1> HIDE DEF q
<1>5. pk(q)[1] \in PrimarySpaces
  BY <1>1, RequestKey
<1>6. DOMAIN db' = DOMAIN db \cup {pk(q)} \cup indexKeys(q)
  BY <1>2, <1>3
<1>7. PrimaryIn(db') = PrimaryIn(db) \cup {pk(q)}
  BY <1>4, <1>5, <1>6 DEF PrimaryIn
<1>8. db'[pk(q)] = recordOf(q) /\ \A j \in PrimaryIn(db) : j # pk(q) => db'[j] = db[j]
  BY <1>2, <1>3, <1>4 DEF PrimaryIn
<1>9. RecordKeysIn(db) /\ RecordKeysIn(db')
  BY CommitKeepsKeys DEF RInv
<1>10. KeysBack(db) /\ KeysBack(db')
  BY <1>9, IdentitiesFaithful
<1>11. IdentityIn(db', pk(q)) = Abstract!Id(q)
  BY <1>1, <1>6, <1>9, RequestIdentity
<1>12. pk(q) \in PrimaryIn(db) => IdentityIn(db, pk(q)) = Abstract!Id(q)
  BY <1>1, <1>9, RequestIdentity DEF PrimaryIn
<1>13. Sets(db, db', pk(q), Abstract!Id(q), recordOf(q))
  BY <1>7, <1>8, <1>10, <1>11, <1>12 DEF Sets
<1>14. RecordsIn(db') = TableWith(RecordsIn(db), Abstract!Id(q), recordOf(q))
  BY ONLY <1>13, TableSet
<1>15. recordOf(q) = Abstract!Stored(q)
  BY DEF recordOf, Abstract!Stored
<1> QED
  BY <1>14, <1>15, MappingForm DEF Abstract!SetRecord, TableWith, q

LEMMA CommitDeletes ==
    ASSUME FlatNames, RInv, NEW p \in Clients, pc[p] = "commit", CommitApplied(p), req[p].op \in DeleteOps
    PROVE  /\ Abstract!Id(req[p]) \in DOMAIN specRecords
           /\ specRecords' = [i \in DOMAIN specRecords \ {Abstract!Id(req[p])} |-> specRecords[i]]
<1> DEFINE q == req[p]
<1>1. q.op \in UpdateOps /\ q \in Requests /\ q.op \in RecordOps
  BY DEF RInv, SInv, TypeOK, IsCall, UpdateOps, RecordOps
<1>2. db' = [k \in (DOMAIN db \ dels(q)) \cup sets(q) |->
                 IF k \notin sets(q) THEN db[k] ELSE IF k = pk(q) THEN recordOf(q) ELSE Empty]
  BY DEF CommitApplied
<1>3. dels(q) = {pk(q)} /\ sets(q) = {}
  BY DEF dels, sets
<1>4. pk(q) \in DOMAIN db
  BY DEF RInv, CommitReady, CommitApplied
<1> HIDE DEF q
<1>5. pk(q)[1] \in PrimarySpaces
  BY <1>1, RequestKey
<1>6. DOMAIN db' = DOMAIN db \ {pk(q)} /\ \A k \in DOMAIN db' : db'[k] = db[k]
  BY <1>2, <1>3
<1>7. /\ PrimaryIn(db') = PrimaryIn(db) \ {pk(q)} /\ pk(q) \in PrimaryIn(db)
      /\ \A j \in PrimaryIn(db') : db'[j] = db[j]
  BY <1>4, <1>5, <1>6 DEF PrimaryIn
<1>8. RecordKeysIn(db)
  BY DEF RInv
<1>9. KeysBack(db)
  BY <1>8, IdentitiesFaithful
<1>10. IdentityIn(db, pk(q)) = Abstract!Id(q)
  BY <1>1, <1>4, <1>8, RequestIdentity
<1>11. Deletes(db, db', pk(q), Abstract!Id(q))
  BY <1>7, <1>9, <1>10 DEF Deletes
<1>12. RecordsIn(db') = TableWithout(RecordsIn(db), Abstract!Id(q))
  BY ONLY <1>11, TableDelete
<1>13. Abstract!Id(q) \in DOMAIN specRecords
  BY <1>1, <1>4, RequestFound
<1> QED
  BY <1>12, <1>13, MappingForm DEF TableWithout, q

\* A write takes effect in the table when its transaction commits.
LEMMA CommitMaps ==
    ASSUME FlatNames, RInv, NEW p \in Clients, pc[p] = "commit", CommitApplied(p)
    PROVE  Simulated
<1>1. req[p].op \in UpdateOps /\ req[p] \in Requests /\ req[p].op \in RecordOps
  BY DEF RInv, SInv, TypeOK, IsCall, UpdateOps, RecordOps
<1>2. validate(req[p]) /\ Finish(p, "nil", {}) /\ req' = req /\ ~stale[p]
  BY DEF RInv, CommitReady, CommitApplied
<1>3. Kept
  BY CommitKeeps DEF RInv
<1>4. Abstract!Done(p, "nil", {})
  BY <1>2, <1>3, FinishMaps
<1>5. CASE req[p].op \in InsertOps
  <2>1. pk(req[p]) \notin DOMAIN db
    BY <1>2, <1>5 DEF RInv, SInv, SnapshotInv
  <2>2. Abstract!Id(req[p]) \notin DOMAIN specRecords
    BY <1>1, <2>1, RequestFound
  <2>3. Abstract!SetRecord(req[p])
    BY <1>5, CommitSets DEF InsertOps, DeleteOps
  <2>4. Abstract!Pending(p, {"WriteClaim", "WriteValidationRecord", "WriteVote"})
    BY <1>2, <1>5, PendingMaps DEF InsertOps
  <2> QED
    BY <1>4, <2>2, <2>3, <2>4 DEF Simulated, Abstract!Next, Abstract!Insert
<1>6. CASE req[p].op = "WriteValidatorRecord"
  <2>1. Abstract!SetRecord(req[p])
    BY <1>6, CommitSets DEF DeleteOps
  <2>2. Abstract!Pending(p, {"WriteValidatorRecord"})
    BY <1>2, <1>6, PendingMaps
  <2> QED
    BY <1>4, <2>1, <2>2 DEF Simulated, Abstract!Next, Abstract!Upsert
<1>7. CASE req[p].op \in DeleteOps
  <2>1. /\ Abstract!Id(req[p]) \in DOMAIN specRecords
        /\ specRecords' = [i \in DOMAIN specRecords \ {Abstract!Id(req[p])} |-> specRecords[i]]
    BY <1>7, CommitDeletes
  <2>2. Abstract!Pending(p, {"DeleteClaim", "DeleteValidatorRecord"})
    BY <1>2, <1>7, PendingMaps DEF DeleteOps
  <2> QED
    BY <1>4, <2>1, <2>2 DEF Simulated, Abstract!Next, Abstract!Delete
<1> QED
  BY <1>1, <1>5, <1>6, <1>7 DEF UpdateOps

AbortErrors == {"ErrConflict", "ErrDBClosed", "error"}

\* A transaction that fails has had no effect.
LEMMA AbortMaps ==
    ASSUME RInv, NEW p \in Clients, NEW err \in AbortErrors, Returns(p, err, {}),
           pc[p] \in {"called", "commit", "fetch"}
    PROVE  Simulated
<1>1. Abstract!Done(p, err, {}) /\ specRecords' = specRecords
  BY ReturnMaps
<1>2. specPhase[p] \in {"pending", "answered"}
  BY DEF specPhase
<1>3. specPhase = [o \in Clients |-> specPhase[o]] /\ specResult = [o \in Clients |-> specResult[o]]
  BY DEF specPhase, specResult
<1>4. specPhase' = [o \in Clients |-> IF o \in {p} THEN "done" ELSE specPhase[o]]
  BY <1>1, <1>3 DEF Abstract!Done
<1>5. specResult' = [o \in Clients |-> IF o \in {p} THEN [err |-> err, val |-> {}] ELSE specResult[o]]
  BY <1>1, <1>3 DEF Abstract!Done
<1>6. Abstract!Abort({p}, err)
  BY <1>1, <1>2, <1>4, <1>5 DEF Abstract!Abort, Abstract!Done
<1>7. {p} \in SUBSET Clients
  OBVIOUS
<1> QED
  BY <1>6, <1>7 DEF Simulated, Abstract!Next, AbortErrors

LEMMA RejectMaps ==
    ASSUME RInv, NEW p \in Clients, Reject(p)
    PROVE  Simulated
<1>1. pc[p] = "called" /\ ~validate(req[p]) /\ Returns(p, "invalid", {})
  BY DEF Reject
<1>2. Abstract!Done(p, "invalid", {}) /\ specRecords' = specRecords
  BY <1>1, ReturnMaps
<1>3. specPhase[p] = "pending"
  BY <1>1 DEF specPhase
<1> QED
  BY <1>1, <1>2, <1>3 DEF Simulated, Abstract!Next, Abstract!Invalid

LEMMA CloseMaps ==
    ASSUME RInv, Close
    PROVE  Simulated
<1> DEFINE S == {p \in Clients : pc[p] \in {"called", "commit", "fetch"} /\ validate(req[p])}
<1>1. /\ pc' = [p \in Clients |-> IF p \in S THEN "done" ELSE pc[p]]
      /\ res' = [p \in Clients |-> IF p \in S THEN [err |-> "ErrDBClosed", val |-> {}] ELSE res[p]]
      /\ db' = db /\ req' = req
  BY DEF Close
<1>2. \A p \in Clients : /\ pc[p] \in {"idle", "called", "commit", "fetch", "done"}
                          /\ pc[p] \in {"commit", "fetch"} => p \in S
  BY DEF RInv, SInv, TypeOK, IsCall
<1>3. specRecords' = specRecords
  BY <1>1, SameTable
<1>4. \A p \in S : specPhase[p] \in {"pending", "answered"}
  BY DEF specPhase
<1>5. specPhase' = [p \in Clients |-> IF p \in S THEN "done" ELSE specPhase[p]]
  BY <1>1, <1>2 DEF specPhase
<1>6. specResult' = [p \in Clients |-> IF p \in S THEN [err |-> "ErrDBClosed", val |-> {}] ELSE specResult[p]]
  <2>1. \A p \in Clients : pc'[p] # "fetch"
    BY <1>1, <1>2
  <2>2. specResult' = res'
    BY <1>1, <2>1 DEF specResult
  <2>3. \A p \in Clients : p \notin S => specResult[p] = res[p]
    BY <1>2 DEF specResult
  <2> HIDE DEF S
  <2> QED
    BY <1>1, <2>2, <2>3
<1>7. Abstract!Abort(S, "ErrDBClosed")
  BY <1>1, <1>3, <1>4, <1>5, <1>6 DEF Abstract!Abort
<1>8. S \in SUBSET Clients
  OBVIOUS
<1> HIDE DEF S
<1> QED
  BY <1>7, <1>8 DEF Simulated, Abstract!Next

LEMMA CrashMaps ==
    ASSUME RInv, Crash
    PROVE  Simulated
<1>1. /\ pc' = [p \in Clients |-> "idle"] /\ req' = [p \in Clients |-> NoRequest]
      /\ res' = [p \in Clients |-> NoResult] /\ db' = db
  BY DEF Crash
<1>2. specRecords' = specRecords
  BY <1>1, SameTable
<1>3. specPhase' = [p \in Clients |-> "idle"]
  BY <1>1 DEF specPhase
<1>4. specResult' = [p \in Clients |-> Abstract!NoResult]
  BY <1>1 DEF specResult, NoResult, Abstract!NoResult
<1>5. req' = [p \in Clients |-> Abstract!NoRequest]
  BY <1>1 DEF NoRequest, Abstract!NoRequest, Blank
<1> QED
  BY <1>2, <1>3, <1>4, <1>5 DEF Simulated, Abstract!Next, Abstract!Restart

LEMMA UnchangedMaps ==
    ASSUME UNCHANGED <<db, pc, req, ids, res>>
    PROVE  UNCHANGED Abstract!svars
<1>1. specRecords' = specRecords
  BY SameTable
<1>2. specPhase' = specPhase
  BY DEF specPhase
<1>3. specResult' = specResult
  BY DEF specResult, fetchKeys
<1> QED
  BY <1>1, <1>2, <1>3 DEF Abstract!svars

LEMMA CallMaps ==
    ASSUME RInv, NEW p \in Clients, NEW q \in Requests, Call(p, q)
    PROVE  Simulated
<1>1. /\ pc[p] \in {"idle", "done"} /\ pc' = [pc EXCEPT ![p] = "called"]
      /\ req' = [req EXCEPT ![p] = q] /\ res' = [res EXCEPT ![p] = NoResult]
      /\ UNCHANGED <<db, ids>>
  BY DEF Call
<1>2. DOMAIN pc = Clients /\ DOMAIN req = Clients /\ DOMAIN res = Clients
  BY DEF RInv, SInv, TypeOK, IsCall
<1>3. specRecords' = specRecords /\ Kept
  BY <1>1, SameTable
<1>4. ASSUME NEW o \in Clients, o # p
      PROVE  specPhase'[o] = specPhase[o] /\ specResult'[o] = specResult[o]
  <2>1. pc'[o] = pc[o] /\ req'[o] = req[o] /\ res'[o] = res[o]
    BY <1>1, <1>2, <1>4
  <2> QED
    BY <1>1, <1>3, <2>1, OthersSame
<1>5. specPhase[p] \in {"idle", "done"}
  BY <1>1 DEF specPhase
<1>6. specPhase'[p] = "pending" /\ specResult'[p] = Abstract!NoResult
  <2>1. pc'[p] = "called" /\ res'[p] = NoResult
    BY <1>1, <1>2
  <2> QED
    BY <2>1 DEF specPhase, specResult, NoResult, Abstract!NoResult
<1>7. /\ specPhase = [o \in Clients |-> specPhase[o]] /\ specPhase' = [o \in Clients |-> specPhase'[o]]
      /\ specResult = [o \in Clients |-> specResult[o]] /\ specResult' = [o \in Clients |-> specResult'[o]]
  BY DEF specPhase, specResult
<1>8. specPhase' = [specPhase EXCEPT ![p] = "pending"]
  BY <1>4, <1>6, <1>7
<1>9. specResult' = [specResult EXCEPT ![p] = Abstract!NoResult]
  BY <1>4, <1>6, <1>7
<1>10. Abstract!Invoke(p, q)
  BY <1>1, <1>3, <1>5, <1>8, <1>9 DEF Abstract!Invoke
<1> QED
  BY <1>10 DEF Simulated, Abstract!Next

LEMMA StepMaps ==
    ASSUME FlatNames, RInv, NEW p \in Clients, Step(p) \/ Fail(p)
    PROVE  Simulated
<1>1. CASE WriteClaim(p) \/ WriteValidationRecord(p) \/ WriteVote(p)
  BY <1>1, InsertMaps
<1>2. CASE DeleteClaim(p) \/ DeleteValidatorRecord(p)
  BY <1>2, DeleteMaps
<1>3. CASE ReadClaim(p) \/ ReadValidatorRecord(p) \/ ReadValidationRecord(p) \/ ReadVote(p)
  BY <1>3, ReadMaps
<1>4. CASE WriteValidatorRecord(p)
  <2>1. Prepare(p) /\ pc[p] = "called"
    BY <1>4 DEF WriteValidatorRecord, Begins
  <2> QED
    BY <2>1, PrepareMaps DEF Simulated
<1>5. CASE ValidationsByDomain(p) \/ ValidationsByEpoch(p) \/ VotesByValidator(p)
  BY <1>5, ScanMaps
<1>6. CASE VotesForClaim(p)
  BY <1>6, VotesForClaimMaps
<1>7. CASE fetchRecords(p)
  BY <1>7, FetchMaps
<1>8. CASE Commit(p)
  <2>1. CASE CommitApplied(p) /\ pc[p] = "commit"
    BY <2>1, CommitMaps
  <2>2. CASE Returns(p, "ErrConflict", {}) /\ pc[p] = "commit"
    BY <2>2, AbortMaps DEF AbortErrors
  <2> QED
    BY <1>8, <2>1, <2>2 DEF Commit
<1>9. CASE Reject(p)
  BY <1>9, RejectMaps
<1>10. CASE CallClosed(p)
  <2>1. Returns(p, "ErrDBClosed", {}) /\ pc[p] = "called"
    BY <1>10 DEF CallClosed
  <2> QED
    BY <2>1, AbortMaps DEF AbortErrors
<1>11. CASE Fail(p)
  <2>1. Returns(p, "error", {}) /\ pc[p] \in {"called", "commit", "fetch"}
    BY <1>11 DEF Fail
  <2> QED
    BY <2>1, AbortMaps DEF AbortErrors
<1> QED
  BY <1>1, <1>2, <1>3, <1>4, <1>5, <1>6, <1>7, <1>8, <1>9, <1>10, <1>11 DEF Step

LEMMA NextMaps ==
    ASSUME FlatNames, RInv, [Next]_vars
    PROVE  Simulated
<1>1. CASE UNCHANGED vars \/ Open
  <2>1. UNCHANGED <<db, pc, req, ids, res>>
    BY <1>1 DEF vars, Open
  <2> QED
    BY <2>1, UnchangedMaps DEF Simulated
<1>2. ASSUME NEW p \in Clients, NEW q \in Requests, Call(p, q) PROVE Simulated
  BY <1>2, CallMaps
<1>3. ASSUME NEW p \in Clients, Step(p) \/ Fail(p) PROVE Simulated
  BY <1>3, StepMaps
<1>4. CASE Close
  BY <1>4, CloseMaps
<1>5. CASE Crash
  BY <1>5, CrashMaps
<1> QED
  BY <1>1, <1>2, <1>3, <1>4, <1>5 DEF Next

LEMMA InitMaps ==
    ASSUME Init
    PROVE  Abstract!Init
<1>1. specPhase = [p \in Clients |-> "idle"]
  BY DEF Init, specPhase
<1>2. specResult = [p \in Clients |-> Abstract!NoResult]
  BY DEF Init, specResult, NoResult, Abstract!NoResult
<1>3. specRecords = [i \in {} |-> Abstract!NoRequest]
  BY DEF Init, specRecords, primary
<1>4. req = [p \in Clients |-> Abstract!NoRequest]
  BY DEF Init, NoRequest, Abstract!NoRequest, Blank
<1> QED
  BY <1>1, <1>2, <1>3, <1>4 DEF Abstract!Init

\* Where no name contains "/", every behaviour of the store, with its keys, its
\* indexes, its optimistic transactions and its two-step queries, closes and
\* crashes included, is a behaviour of one table of records in which each call
\* takes effect at one instant or returns an error and has no effect.
THEOREM Implements == ASSUME FlatNames PROVE Spec => Refines
<1>1. Init => Abstract!Init
  BY InitMaps
<1>2. RInv /\ [Next]_vars => [Abstract!Next]_(Abstract!svars)
  BY NextMaps DEF Simulated
<1> QED
  BY <1>1, <1>2, RInvariance, PTL DEF Spec, Refines, Abstract!Spec
=============================================================================

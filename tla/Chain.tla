------------------------------- MODULE Chain -------------------------------
(***************************************************************************)
(* chain: the contracts ClaimRegistry, ValidationRegistry and              *)
(* ReputationStore.                                                        *)
(*                                                                         *)
(* A transaction is atomic and one that reverts changes nothing.  Any      *)
(* record may arrive at any time and again: the contracts know no caller   *)
(* and no order, so lost, repeated and reordered transactions are all      *)
(* behaviours of this module.  Nor do they check a field: the Validate     *)
(* methods beside the Adapter interface have no caller, so no guard here   *)
(* stands for them.  keccak256 is ideal, and a string is a sequence of     *)
(* pieces, so that encodePacked is concatenation.                          *)
(***************************************************************************)
EXTENDS Integers, Sequences, SequencesExt

CONSTANTS
    ClaimRecords,        \* arguments of registerClaim
    ValidationRecords,   \* arguments of recordValidation
    ReputationRecords,   \* arguments of updateReputation
    MaxEvents            \* bound on the events of a behaviour

ASSUME TimesAssumption ==
    /\ \A r \in ClaimRecords : r.submittedAt \in Nat
    /\ \A r \in ValidationRecords : r.finalizedAt \in Nat

ASSUME EventsBound == MaxEvents \in Nat

VARIABLES
    claims,        \* ClaimRegistry._claims, where it was written
    validations,   \* ValidationRegistry._validations
    reputation,    \* ReputationStore._reputation
    events         \* the events emitted by all contracts, in order

chainVars == <<claims, validations, reputation, events>>

-----------------------------------------------------------------------------
keccak256(bytes) == <<"keccak256", bytes>>

\* Mutant of reputationKey: one record for all domains of a validator.
reputationKeyOfValidator(validatorID, domain) == keccak256(validatorID)

\* keccak256(abi.encodePacked(validatorID, domain))
reputationKey(validatorID, domain) == keccak256(validatorID \o domain)

\* The map f with key k set to x.
Put(f, k, x) == [j \in DOMAIN f \cup {k} |-> IF j = k THEN x ELSE f[j]]

\* exists of the two registries: the timestamp of a key never written is 0.
claimExists(key) == key \in DOMAIN claims /\ claims[key].submittedAt # 0

validationExists(key) == key \in DOMAIN validations /\ validations[key].finalizedAt # 0

\* The score of _reputation[key]: 0 for a key never written.
score(key) == IF key \in DOMAIN reputation THEN reputation[key].score ELSE 0

getScore(validatorID, domain) == score(reputationKey(validatorID, domain))

-----------------------------------------------------------------------------
ChainInit ==
    /\ claims = [k \in {} |-> {}]
    /\ validations = [k \in {} |-> {}]
    /\ reputation = [k \in {} |-> {}]
    /\ events = <<>>

emit(event) ==
    /\ Len(events) < MaxEvents
    /\ events' = Append(events, event)

\* Mutant of registerClaim: what is stored is taken for registered only if it
\* is of the same submitter.
registerClaimOfSubmitter(r) ==
    LET key == keccak256(r.claimID)
    IN  /\ ~(claimExists(key) /\ claims[key].submitterID = r.submitterID)
        /\ claims' = Put(claims, key, r)
        /\ emit([event |-> "ClaimRegistered", key |-> key, epoch |-> r.epoch,
                 claimType |-> r.claimType])
        /\ UNCHANGED <<validations, reputation>>

registerClaim(r) ==
    LET key == keccak256(r.claimID)
    IN  /\ ~claimExists(key)
        /\ claims' = Put(claims, key, r)
        /\ emit([event |-> "ClaimRegistered", key |-> key, epoch |-> r.epoch,
                 claimType |-> r.claimType])
        /\ UNCHANGED <<validations, reputation>>

recordValidation(r) ==
    LET key == keccak256(r.claimID)
    IN  /\ ~validationExists(key)
        /\ validations' = Put(validations, key, r)
        /\ emit([event |-> "ValidationFinalized", key |-> key, verdict |-> r.verdict,
                 epoch |-> r.epoch])
        /\ UNCHANGED <<claims, reputation>>

\* Mutant of updateReputation: the old score is read after the new one is stored.
updateReputationThenRead(r) ==
    LET key == reputationKey(r.validatorID, r.domain)
    IN  /\ reputation' = Put(reputation, key, r)
        /\ emit([event |-> "ReputationUpdated", key |-> key, validatorID |-> r.validatorID,
                 domain |-> r.domain, oldScore |-> reputation'[key].score,
                 newScore |-> r.score, epoch |-> r.epoch])
        /\ UNCHANGED <<claims, validations>>

updateReputation(r) ==
    LET key == reputationKey(r.validatorID, r.domain)
    IN  /\ reputation' = Put(reputation, key, r)
        /\ emit([event |-> "ReputationUpdated", key |-> key, validatorID |-> r.validatorID,
                 domain |-> r.domain, oldScore |-> score(key),
                 newScore |-> r.score, epoch |-> r.epoch])
        /\ UNCHANGED <<claims, validations>>

ChainNext ==
    \/ \E r \in ClaimRecords : registerClaim(r)
    \/ \E r \in ValidationRecords : recordValidation(r)
    \/ \E r \in ReputationRecords : updateReputation(r)

ChainSpec == ChainInit /\ [][ChainNext]_chainVars

-----------------------------------------------------------------------------
\* What is on the chain was sent, field for field, and is under the hash of
\* its own ids.  A claim has that place to itself; a validator's record does
\* not: encodePacked sets no boundary, so all pairs of validator and domain
\* with one concatenation share a record (EventsReplay says what they read).
ChainTypeOK ==
    /\ \A k \in DOMAIN claims :
           claims[k] \in ClaimRecords /\ k = <<"keccak256", claims[k].claimID>>
    /\ \A k \in DOMAIN validations :
           validations[k] \in ValidationRecords /\ k = <<"keccak256", validations[k].claimID>>
    /\ \A k \in DOMAIN reputation :
           /\ reputation[k] \in ReputationRecords
           /\ k = <<"keccak256", reputation[k].validatorID \o reputation[k].domain>>
    /\ Len(events) \in 0..MaxEvents

\* What exists() has once confirmed to anyone stays on the chain, unchanged,
\* whatever is sent for the same claim afterwards: the verdict, the Merkle root
\* and the claim that validators were shown.
RegisteredIsPermanent ==
    [][/\ \A k \in DOMAIN claims :
              claimExists(k) => k \in DOMAIN claims' /\ claims'[k] = claims[k]
       /\ \A k \in DOMAIN validations :
              validationExists(k) => k \in DOMAIN validations' /\ validations'[k] = validations[k]]_chainVars

\* The position of the last of the first n events that is of this kind and
\* about this key, and 0 when there is none.
Latest(kind, key, n) ==
    Max({0} \cup {i \in 1..n : events[i].event = kind /\ events[i].key = key})

\* The score of a key for a reader of the first n events.
ReplayedScore(key, n) ==
    LET i == Latest("ReputationUpdated", key, n)
    IN  IF i = 0 THEN 0 ELSE events[i].newScore

\* Two updates that encodePacked does not tell apart.
SamePlace(e, f) == e.validatorID \o e.domain = f.validatorID \o f.domain

\* The events are an audit trail: replaying them gives the present verdict of
\* every claim and the present score of every key, and the score an update
\* says it replaced is the one the update before it announced.  For a pair of
\* validator and domain, getScore answers the score of its last update unless
\* a pair with the same concatenation was updated since.  No other transaction
\* can take it away, but that one can, where ReputationStore promises the
\* latest score per pair.
EventsReplay ==
    /\ \A k \in DOMAIN validations :
           LET i == Latest("ValidationFinalized", k, Len(events))
           IN  i # 0 /\ events[i].verdict = validations[k].verdict
    /\ \A k \in DOMAIN reputation :
           /\ Latest("ReputationUpdated", k, Len(events)) # 0
           /\ ReplayedScore(k, Len(events)) = score(k)
    /\ \A i \in 1..Len(events) :
           events[i].event = "ReputationUpdated" =>
               /\ events[i].oldScore = ReplayedScore(events[i].key, i - 1)
               /\ \/ getScore(events[i].validatorID, events[i].domain) = events[i].newScore
                  \/ \E j \in i + 1..Len(events) :
                         /\ events[j].event = "ReputationUpdated"
                         /\ SamePlace(events[i], events[j])
=============================================================================

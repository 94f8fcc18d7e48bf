# A TLA+ model of PulseSyn

PulseSyn is a Go library for "Proof of Validation": validators vote on claims,
their votes are weighted by reputation and bias and aggregated into a verdict,
and the results are kept in a local store. This directory holds TLA+ modules
that model its core packages, the TLC configurations that check them on small
instances, and TLAPS proofs. `PROJECT.json` maps every definition to the lines
it models.

## Inventory

| part | state | operations | modelled by |
|---|---|---|---|
| `core/reputation` | one `ValidatorRecord` per validator: scores by domain, global average, counter | `NewValidatorRecord`, `NewGenesisValidatorRecord`, `ApplyPostFinalizationUpdate`, `ApplyDecay`, `IsEligibleForDomain` | `Reputation`, `ReputationHistory`, `ReputationProofs` |
| `store` | BadgerDB: claims, validator records, validations, votes and three secondary indexes | write, read, delete and query methods, `Open`, `Close`, `RunGC` | `Store`, `StoreSpec`, `StoreRefinement`, `StoreProofs` |
| `core/consensus` | none (a function of the votes) | `ComputeConsensus` | `Consensus`, `ConsensusProofs` |
| `core/bias` | a sliding window of observations per validator and domain | `Window.Add`, `ComputeBias`, `Tracker.Record`, `BiasFor` | `Bias`, `BiasProofs` |
| `core/claim` | claims, copied on every transition | `NewClaim`, `Transition`, `IsTerminal` | `Claim`, `ClaimProofs` |
| `merkle` | the tree's layers | `Build`, `Root`, `GenerateProof`, `VerifyProof`, `HashVote` | `Merkle`, `IntegrityProofs` |
| `chain` | three contracts: two write-once registries, a reputation table, and their events | `registerClaim`, `recordValidation`, `updateReputation`, `exists`, `getScore` | `Chain`, `IntegrityProofs` |
| `simulation` | a pool of validators, a bias tracker, a report | `Run`, `simulateRound`, `Config.Validate` | `Simulation`, which composes `Consensus`, `Reputation` and `Bias`; `SimulationProofs` |
| `api`, `network`, `sdk`, `selector`, `session` | - | only a `doc.go` each | nothing to model |

How the parts meet. A round (today only `simulation/round.go`) takes each
validator's score from `core/reputation`, builds votes, gives them to
`core/consensus`, feeds the outcome back to `core/reputation` as `VoteOutcome`s
and the votes to `core/bias`. `store` keeps claims, votes, validations and
validator records; it knows `core/claim` and `core/reputation` as data only.
`merkle` commits to the votes of a claim; its root is a field of the validation
record of `chain`, whose writes are sent by nodes in no agreed order. Nothing
calls `store`, `merkle` and `chain` together yet. The packages of `core` are
sequential and return new values; the store is called by concurrent goroutines.

What is hard. In the store: every write is check-then-act inside a snapshot
transaction, queries read twice from two snapshots, keys are strings joined
with `/`, and calls race with each other, with `Close` and with a crash. In
`core/reputation`: long mixes of operations, and clamping at both ends. In
`core/consensus`: ties, empty masses, thresholds and sums of floats in the
order of the votes. In
`core/bias`: a window at its limit and refused observations in between. In
`core/claim`: copies of one claim that are advanced independently, and an id
computed apart from the fields it identifies. In `merkle`: odd layers, and
hashes that could stand for one another. In `chain`: repeated and reordered
transactions and a zero timestamp as sentinel. In `simulation`: long runs
through three packages. The list, at the lines where it bites, is `hazards` in `PROJECT.json`.

## Modules

### Reputation

`records` maps the validators that have a record to it, so each action is a
caller that replaces the record it holds by the one the package returned.
Scores are integers in units of 1/10000, in which all of the package's
constants are exact. Products and quotients (decay, the average) are truncated
where float64 rounds. Domain strings are `Spellings`, and `Normalise` is
lower-casing and trimming. An operation that returns an error, or the same
record (decay within 30 days), changes nothing. `math.Pow` is the constant
`DecayPower`, of which only the range is assumed. Left out are the
`UpdateResult` and `DecayResult` returned beside the record, the reason
strings, `RegistrationEpoch`, and `Status`, which no code changes from
`ACTIVE`. `MaxValidations` bounds the updates of a record.

`ReputationHistory` adds history variables (genesis grants and correct votes)
to state what a score may depend on.

### Store, StoreSpec, StoreRefinement

`db` is the set of committed keys. A goroutine `p` calls a method (`Call`),
and the method runs in the steps that other goroutines can see: the argument
check and the closure of an `Update` or `View`, which reads the snapshot of its
begin, and for an `Update` that wrote something the commit. `stale[p]` is
Badger's conflict detection: some key `p` read was committed since its begin,
so the commit fails with `ErrConflict`; `db.Update` does not retry. The index
queries (`ValidationsByDomain`, `ValidationsByEpoch`, `VotesByValidator`) run
two `View`s, with anything in between. `Fail` is any other error of Badger.
`Close` fails the calls in flight, `Crash` ends the process at any point and
`Open` starts again with what was committed.

A name is the sequence of its segments between slashes and a key is its prefix
and the concatenation of the names, so that two keys are equal, or one lies
under the prefix of another, exactly when the strings are so. JSON encoding
round-trips. `TypeOK` says of every call where its method can be and, when it
has returned, that the error is one of that method and that a record or list it
returns holds valid records of the kind that was asked for. The numeric ranges that the `validate...` functions test are one
flag. Badger itself is external: snapshot isolation with conflict detection on
read keys, atomic commits, and commits that survive the end of the process
(loss of the machine with `SyncWrites` off is not modelled). `RunGC` moves
values and changes no record. A commit in flight during `Close` is taken to
fail: Badger refuses writes once it is closing.

No method checks that a name is free of slashes. `FlatNames` says so of the
requests; it is assumed in the two runs that pass and not in the third.

`StoreSpec` is what the store promises: one table of records in which every
call takes effect at one instant, or returns an error and has none.
`StoreRefinement` maps `Store` to it: a write happens at its commit, a read and
an error about a record at the snapshot, an index query at its first `View`.

### Consensus

`votes` is the slice of votes revealed so far, in any order, one per
validator. `Compute` calls `ComputeConsensus` on them. Confidence, reputation
and bias are integers in units of 1/`Scale`. The running sums of
`aggregateWeights` are rounded at each addition as float64 sums are: a number is
one of the spacings `Ulps` times at most `Significand`, and `Round` takes the
nearest, on a tie the one with the even significand. This is the one place where
the order of the votes can enter the result, and it does: with weights 0.1 and
0.2 for a verdict and 0.3 against it, one order finds exactly a half and another
0.5000000000000001. `NearTie` is the condition under which that can happen (some
sum was rounded, and the lead of a verdict over all others is within the error
of as many additions), and the properties about the verdict say that outside it
the votes alone decide. A weight is exact: its rounding depends on one vote and
not on the others. So are the confidence, and the two tests on a quotient, which
are exact in float64 too, as division is correctly rounded. The result's
`ParticipationRate` and `ValidatorCount` follow from the inputs and are left
out.

### Bias

`windows` is the tracker's map and `log`, a history variable, all observations
accepted for each validator and domain. Scores are integers in units of 1/100,
and the mean is truncated, which leaves it on the same side of every threshold;
the clamp of the mean to [0, 1] only undoes float rounding and has no
counterpart. A string is the sequence of its segments between colons, so that
two keys of the map are equal exactly when the strings are. A window is created
before the observation is checked, as in the code. Windows are made by the
tracker only, the one way other packages use them. `MaxObservations` bounds the
observations of a behaviour.

### Claim

`held[h]` is the copy of a claim that party `h` holds. `Transition(h, g, next)`
is a call on the copy of `h` whose result `g` keeps: with `g = h` the old copy
is dropped, otherwise both live on, as `Transition` does not change its
receiver. `validateInput` gives the error of the first check that fails, in the
code's order; the answer to the HEAD request is an input. A string is a
sequence of pieces, so that writing four strings to a hasher is concatenation;
SHA-256 is ideal. `TypeOK` lists the limits a stored claim meets. It does not
say that a claim has a tag, as the schema asks: `validateInput` counts the tags
that were submitted, blank ones included, and those are dropped afterwards, so
the instance holds a claim without any. A time is an instant and a zone, of which the id takes the
instant only. `passed` is a history variable. `MaxClaims` bounds the claims
constructed; `SubmissionEpoch`, copied and never read, is left out.

### Merkle

One action per iteration of the package's three loops, so that proof
generation and verification are followed level by level. A byte string is a
sequence of tokens, and sha256 is ideal: `sha256(b)` is one token that holds
`b`. A validator id is the sequence of its parts between `|`, so two votes
write the same bytes exactly when the strings would. `VerifyProof` is called
with the generated proof or with a foreign one, any path of hashes of the tree
up to `MaxNodes` long, and with the hash of any vote or the bytes below an
internal node as leaf data. Refused arguments (no leaves, an index out of
range, a nil proof) end a call before anything is computed. `LeafCount` is
`Len(votes)`.

### Chain

The three mappings and the log of events. A transaction is atomic, and one that
reverts changes nothing, so it is a guard. Any record may be sent at any time
and any number of times: lost, repeated and reordered transactions need no
actions of their own. `keccak256` is ideal and a string is a sequence of
pieces, so `encodePacked` is concatenation, and two pairs of validator and
domain can have one key: the instance has such pairs, `ChainTypeOK` says that
the record under a key is of some pair with that concatenation, and
`EventsReplay` that `getScore` answers the last update of its pair unless such
another pair was updated since. No field is checked by a contract, so none is
here. The `Validate` methods beside the `Adapter` interface have no caller, and
`NullAdapter`, the only implementation, neither calls them nor keeps anything;
both are left out, and so is `updatedAt`, which nothing reads. A timestamp is
what the contract gets, 0 included. `MaxEvents` bounds the transactions. The
specification is `ChainSpec`, as its proofs share a module with those of `Merkle`.

### Simulation

One call of `Run`: `Start` (validation and the pool), `simulateRound` per
iteration of its loop with the `accumulate` that follows, `Finish`. A round
uses `ComputeConsensus` of `Consensus`, `UpdatedRecord` of `Reputation` and
`recordIn` and `biasIn` of `Bias`, through INSTANCE, so that what is checked is
the composition of the three models. Random numbers are arguments of the
actions, in units of 1/100; the reputations drawn for the pool are `Targets`.
Reputation enters a vote in units of 1/100, in which all scores of these runs
are whole. A round fails on an error of any of the three: of
`ComputeConsensus`, of `ApplyPostFinalizationUpdate`, or of `Tracker.Record`,
which refuses a blank id or domain and an average out of range. When it fails,
what it had changed is unreachable, as `Run` returns no report, and the model
leaves it as it was. `targets`, `truths` (how often each verdict was the truth)
and `flagged` are history variables. The named assumptions say what the actions draw from:
a target lies between the eligibility threshold and 1.0 (the mean of two such
numbers), a random number is below 1.0, an id is not empty, and normalising a
name twice is normalising it once. `RunScenarios` (four calls of `Run`) and `Summary`
(formatting) are left out.

## Runs

| run | instance | shows |
|---|---|---|
| `reputation` | 1 validator, 2 domains, one under two spellings, 6 updates, any number of decays | `TypeOK`, `GlobalReputationIsAverage`, `EligibleIffScored`, `ReputationIsEarned`, `EligibilityNeverLost` |
| `store_votes` | 2 goroutines, 8 calls on votes, failures, close, crash | `TypeOK`, `AckedMeansStored`, `ConflictMeansStored`, `QueriesFindTheirRecords`, `RecordsWriteOnce`, `CallsReturn`, `Refines` |
| `store_records` | 2 goroutines, calls on validations, claims and validator records | `IndexesAgree`, `QueriesFindTheirRecords`, `Refines` (the other properties of `store_votes` are proved for all records) |
| `consensus` | 3 validators, 18 ballots, set sizes 0, 3, 4, 5, sums rounded to a significand of at most 128 | `TypeOK`, `VerdictIsMajority`, `OrderDecidesOnlyTies`, `ConfidenceIsAverage`, `LateVoteKeepsVerdict` |
| `bias` | 1 validator, 2 domains, one under two spellings, 7 observations, window sizes 5 and 50 | `TypeOK`, `BiasFollowsRecent`, `BiasMovesSlowly`, `AgreementNeverExcludes` |
| `merkle` | trees of 1 to 6 of 4 votes, foreign paths of up to 3 nodes | `TypeOK`, `ProofFitsItsLeaf`, `AcceptedIsLeaf`, `AcceptedVoteWasCast` |
| `chain` | 3 claims, one of them from 2 submitters, 4 results for one, 5 updates, 2 pairs of names with one key, 5 transactions | `ChainTypeOK`, `EventsReplay`, `RegisteredIsPermanent` |
| `claim` | 2 holders, 8 accepted inputs, one with blank tags only, and 12 refused ones, 2 claims | `TypeOK`, `IdIffContent`, `NoVerdictWithoutVotes` |
| `simulation` | 11 validators, 5 per round, the honest, colluding and biased scenarios, up to 5 rounds with a truth of any verdict, a blank domain, refused configs | `TypeOK`, `ReportAddsUp`, `PoolNearTarget`, `HonestNetworkIsRight`, `RoundsSucceed`, `HonestNeverFalls` |

Bounds. Validators do not interact in `core/reputation`, so one is enough; two
domains are needed for the average. From the genesis score 0.75, six updates
reach the ceiling, a decay of 1000 days the floor. Two goroutines are enough
for every conflict of the store, since a conflict is between two transactions
(the proofs cover any number); the calls of each run contain two different
records for one key, a second key under the same index entry, and every query.
Three votes reach a tie, a majority against two, and both sides of the quorum.
Their weights are 128, 126, 1 and 0: with a significand of 128 and the spacings
1, 2 and 4 the total of the first three is 254 or 256, depending on their order,
so the small float format shows at three votes what 53 bits show at three others;
each spacing occurs, and no sum leaves them. The simulation takes a significand
of 2^20 and the spacings 1 to 8, which hold every sum of five weights.
Seven observations fill a window of five, the smallest the code allows, and
evict two; a window of 50 never fills. Trees of one to six leaves have heights
0 to 3, an odd layer at the bottom (3, 5), further up (6) and at two levels
(5), and the votes contain a repeated one, one whose id has a separator and two
that differ in the bias coefficient only; paths of three nodes are as long as
the highest tree. Five transactions are enough for a registration, two
attempts to replace it, and two updates of a key. Two claims and two holders
are enough for two copies of one claim in any two states, or of two claims. In
a simulation five rounds are what a bias window needs to have a coefficient at
all; three rounds of collusion contain one that the colluders win, one they
lose and one that is undecided. The pool has the smallest size `Validate`
accepts.

`CHECK_DEADLOCK FALSE` is set where a bound (on updates, observations, events)
or the end of a single call ends a behaviour: `reputation`, `bias`, `chain` and
`merkle`. In `simulation` deadlock is checked, so every run of `Run` comes to
one of its returns.

Fairness. `FairSpec` of `Store` assumes weak fairness of each goroutine's steps
in its call: the Go scheduler runs every runnable goroutine, and none of the
store's methods waits for another. Calls, failures, `Close`, `Crash` and `Open`
are not fair. `Close` ends the calls in flight in its own step, so of these
`CallsReturn` adds nothing to the model of `Close`. No other module states liveness: the other packages are
sequential functions, and a contract runs when somebody sends a transaction.

What three of the properties mean for the design. `HonestNeverFalls` holds
because the simulation measures votes against the ground truth; measured
against the verdict, as `VoteOutcome` describes it, honest validators lose
reputation in rounds that colluders win (the mutant `agreesWithVerdict`).
`RegisteredIsPermanent` is about what `exists()` has confirmed; a record sent
with timestamp 0 is stored, is not confirmed and may be replaced.
`OrderDecidesOnlyTies` says that nodes which collect the same votes in different
orders agree unless the vote is as close as the rounding of a float sum; there
they may not agree, and the model shows it.

Three runs are expected to be violated; they state what a comment or a decision
record says and show that the code does something else:

| run | the code |
|---|---|
| `eligibility_is_earned` | lifts a score of 0.0 to the eligibility threshold on a penalty or a decay |
| `store_nested_domain` | fails `ValidationsByDomain("sci")` once a validation in `sci/phys` is stored |
| `simulation_flagged` | counts the validators that are over the bias threshold at the end of a run, not those that were during it |

More disagreements between the code and its comments, which the modules show
when read and for which there is no run:

- `updates.go:86`: `TotalValidations` also counts the rounds a validator was
  absent from, against `reputation.go:99`.
- `decay.go:73`: decay applied twice in one spell of inactivity charges the
  days of the first call again (`decay.go:9`).
- `consensus.go:164`: the masses are float64 sums in the order of the slice, so
  at an exact half the order of the votes can decide between a verdict and
  `INDETERMINATE` (`OrderDecidesOnlyTies` bounds where).
- `consensus.go:45`: no code returns `ErrQuorumNotMet`; below the quorum the
  result is `INDETERMINATE` and the error nil.
- `vote.go:86`: the loser of two concurrent writes of one vote gets Badger's
  `ErrConflict`, not `ErrAlreadyExists` (`vote.go:73`, `store.go:22`).
- `bias.go:360`: names are joined with `:` unescaped, so validator `a` in
  domain `b:c` and validator `a:b` in domain `c` share a window (`bias.go:321`).
- `claim.go:182`: tags are counted before blank ones are dropped, so a list of
  blank tags gives a claim without tags, against "At least one tag is required"
  (`claim.go:92`); the case "domain tags only
  whitespace" of a test (`claim_test.go:170`) expects `ErrDomainTagsEmpty` and does not notice, as it calls a constructor of
  its own (`newClaimSkipURL`, `claim_test.go:52`). The content hash is
  never compared with the content (`claim.go:136`), and `ErrContentHashMismatch`
  never returned. The id takes the time the claim is about, not that of its
  submission (`claim.go:247`), and concatenates text, hash and submitter
  without separators. Two copies of a provisional claim can become final and
  disputed.
- `ClaimRegistry.sol:42`, `ValidationRegistry.sol:45`: records with timestamp
  0 can be overwritten, against "Records are permanent". `ReputationStore.sol:45`:
  `encodePacked` gives pairs with one concatenation one record, against the
  "per (validatorID, domain) pair" of line 5, and a delayed older update replaces a newer one, whatever its epoch.
- `merkle.go:149`: `VerifyProof` ignores `LeafIndex`, and the votes `[a, b, c]`
  and `[a, b, c, c]` have one root.
- `round.go:76`: the population average includes the validator's own vote,
  where `bias.go:109` speaks of the others. `config.go:110`: a domain of blanks
  passes `Validate` and fails in the first round, where `simulation.go:17`
  takes such an error for a bug in the core packages (`RoundsSucceed` says that
  exactly these configs fail).

Definitions commented "Mutant of" are variants of a definition with a
plausible mistake. For each property there is one under which TLC finds the
property violated; no specification uses them.

## Proofs

All theorems hold for every value of the constants that satisfies the named
assumptions of the modules, which TLC evaluates on every run. Bounds on
counters (`MaxEvents`, `MaxClaims`, ...) are arbitrary there, so behaviours of
any length are covered. Four theorems have a hypothesis besides, a contract
that the code relies on and does not check. Each is a definition of its module
that the instances of the passing runs are assumed to satisfy:

| contract | says | without it |
|---|---|---|
| `FlatNames` of `Store` | no name that is joined into a key contains `/` | `store_nested_domain` shows a query that fails |
| `KeysAreUnique` of `Bias` | no two pairs of validator and domain share a key | pairs share a window (`bias.go:360`) |
| `FixedLengths` of `Claim` | content hashes have one length, and so have submitter ids | two contents can have one concatenation |

| module | theorem | property |
|---|---|---|
| `ReputationProofs` | `TypeCorrect`, `GlobalReputationCorrect`, `EligibilityCharacterised`, `EligibilityKept`, `MeritBound` | `TypeOK`, `GlobalReputationIsAverage`, `EligibleIffScored`, `EligibilityNeverLost`, `ReputationIsEarned` |
| `StoreProofs` | `TypeCorrect`, `WriteOnceCorrect`, `IndexesCorrect`, `AckedCorrect`, `ConflictCorrect`; with `FlatNames` `QueriesCorrect`, `Implements` | `TypeOK`, `RecordsWriteOnce`, `IndexesAgree`, `AckedMeansStored`, `ConflictMeansStored`; `QueriesFindTheirRecords`, `Refines` |
| `ConsensusProofs` | `TypeCorrect`, `MajorityRule`, `ConfidenceInRange`, `OrderDecidesOnlyNearTies`, `LateVotesKeepVerdict` | `TypeOK`, `VerdictIsMajority`, `ConfidenceIsAverage`, `OrderDecidesOnlyTies`, `LateVoteKeepsVerdict` |
| `BiasProofs` | `TypeCorrect`, `SlowBias`, `AgreementIsSafe`; with `KeysAreUnique` `RecentBias` | `TypeOK`, `BiasMovesSlowly`, `AgreementNeverExcludes`; `BiasFollowsRecent` |
| `IntegrityProofs` (`Merkle`) | `TypeCorrect`, `Soundness`, `Completeness`, `Commitment` | `TypeOK`, `AcceptedIsLeaf`, `ProofFitsItsLeaf`, `AcceptedVoteWasCast` |
| `IntegrityProofs` (`Chain`) | `ChainTypeCorrect`, `TrailReplays`, `Permanence` | `ChainTypeOK`, `EventsReplay`, `RegisteredIsPermanent` |
| `ClaimProofs` | `TypeCorrect`, `VerdictsAreValidated`; with `FixedLengths` `IdentityIsContent` | `TypeOK`, `NoVerdictWithoutVotes`; `IdIffContent` |
| `SimulationProofs` | `TypeCorrect`, `ReportIsOfTheRounds`, `PoolIsNearTarget`, `HonestNetwork`, `NoRoundFails`, `HonestReputation` | `TypeOK`, `ReportAddsUp`, `PoolNearTarget`, `HonestNetworkIsRight`, `RoundsSucceed`, `HonestNeverFalls` |

### Sums

The lemmas about sums on which four of the modules rest. The library's
induction theorems are about a predicate and cannot be used here; stated about
a set (`SetInduction`: a set with 0 and all successors contains `Nat`;
`SubsetInduction`, the same for finite sets) induction is first-order and
within the provers' reach. From it follow that the sum of the community module
over a finite set obeys its recursion, that it does not depend on the order of
its arguments, is monotone, distributes over unions, can be re-indexed, and
that a truncated mean lies between the least and the greatest summand.

### ReputationProofs

`EligibleIffScored` alone is not inductive: it does not say that scores are
integers under canonical names in active records, on which its comparison
rests. The invariant `IInv` is `TypeOK` and that every stored score is at least
the floor, which holds as genesis scores are above it and both `UpdatedScore`
and `DecayedScore` clamp to it; the later clamp to [0, 1] does not undo that.
`GlobalReputationIsAverage` follows from `IInv`, as the stored value is the
mean of the scores, and a mean is between the extremes. For `ReputationIsEarned`
the invariant `HInv` adds the types of the histories: one outcome adds at most
`DeltaHigh`, and only a correct one adds anything; decay lowers a score or
lifts it to the floor, which the bound contains. Assumed: `Normalise` is
idempotent on canonical names, a blank name is no domain, domains are finite in
number, a decay factor is in [0, 1].

### StoreProofs

For any number of goroutines and any calls. The invariant `SInv` ties a
transaction to the database: an insert that waits to commit and is not stale
still finds its key absent (so its commit replaces nothing), a stale insert of
a vote or a validation finds it present (so its conflict is no false alarm),
and index entries have the empty value. With these, `TypeOK` and the three
state properties are inductive together, names with slashes included. The part
of `TypeOK` about answers needs the part about the database: what a method
returns is a valid record because whatever is stored under a key of its kind is
one.
`RequestsAssumption` says that the requests call methods of the store, and that
a validation to be written has its fields.

`RInv`, for flat names, adds that a vote or validation is stored under the key
of its own names, that a delete that waits to commit and is not stale still
finds its record, that a call about to commit passed its checks, and that what
a query has scanned can be fetched. The last is the heart of it: two flat names
are known from their concatenation, so the scan of an index lists exactly the
records asked for (`ScannedKeys`), and these are permanent.

`Implements` shows step by step that `Store` implements `StoreSpec` under the
mapping of `StoreRefinement`. Prepared transactions stutter, a commit is
`Insert`, `Upsert` or `Delete`, the first `View` of a query is `Answer` and the
second `Deliver`, an error or a conflict is `Abort` of one call, `Close` that
of all in flight, `Crash` is `Restart`. It rests on `KeysBack` (each identity in
the table leads back to its key, so a lookup by key is one by identity) and on
`OthersSame` (no step changes the answer that another query has taken).

### ConsensusProofs

`MajorityDecides` is about the decision rule alone: a verdict passes the
majority test on `findWinner`'s answer exactly when it outweighs all others
together, for every breakdown of non-negative masses. The other theorems hold
for any precision: `Significand` is even and at least twice the number of
validators, the spacings are powers of two (`SignificandAssumption`,
`UlpsAssumption`), which float64 satisfies. They rest on one fact about one
addition, that its rounding moves a sum by at most a `Significand`-th of it
(`RoundError`), and one about the loop: after `i` votes each mass is within `2i`
such parts of the exact sum (`LoopIsNear`), where the loop is followed as a
function of the index (`LoopExists`), over which `SetInduction` of `Sums` runs. A
verdict whose exact lead is beyond the error is therefore seen to have the
majority, or seen not to have it (`MajorityIsSeen`). Exact sums can be
re-indexed (`MassReordered`), so on two orders of the same votes both decisions
follow from the same leads. A vote without weight adds 0, which rounding leaves
alone, and a further vote for the winner raises its lead. The invariant `CInv`
says that the votes are revealed ballots, one per validator.
`BallotsAssumption` says that a ballot has a validator id.

### BiasProofs

`BInv`: every window holds valid observations, no more than fit, so every
deviation and every mean is in [0, 1]. `SlowBias` compares the sums before and
after an observation that was appended, or appended with the eviction of
another. `RecentBias` needs `History`: each window is the recent end of the
log of its pair. That is inductive only if a step on another pair leaves the
window alone, which is `KeysAreUnique`.

### IntegrityProofs

Of `Merkle`. `MInv` has the shape of the tree while it is built (`Tree`: each layer is the
one computed from the layer below), where the hash of a verification can occur
in it (`Climb`) and the path of a generated proof (`Ascent`). `Climb` is what
makes soundness inductive: if the hash computed so far equals a node of layer
`k`, then the data it started from is a leaf and `k - 1` steps were made. It is
kept as hashing is ideal and leaf and node hashes have different prefixes: a
hash that equals an inner node was computed from its two children.
`Commitment` adds that `HashVote` is injective on votes (`VotesAssumption`: an
id is a string, a verdict has no separator).

Of `Chain`. `ChainTypeCorrect` follows each written key to the ids it was
computed from. `Permanence` needs no invariant: a step that writes a registry writes one key,
and the guard says that this key does not exist yet. `TrailReplays` has the
invariant `AInv`, in which the replay of the scores is stated for every key,
those without an entry too: the first update of a key has to find 0. That
`getScore` answers the last update of a pair then follows, as the last update of
a key is of a pair with the same concatenation (`OnePlace`, `PairReads`).

### ClaimProofs

`CInv`: every copy anyone holds came from an input that `validateInput`
accepted, and all states before its own were passed. The sets of states before
each state are closed under `validTransitions`, however copies multiply.
`IdIffContent` adds that four concatenated strings can be taken apart when two
of them have known lengths.

### SimulationProofs

For any config that `Validate` sees, any pool size, selections and random
numbers, and runs of any length. The theorems are about the composition: a
round is taken apart into its votes, its verdict, the outcomes and the
observations (`RoundParts`), and each part is handed to the package that
processes it. What `Consensus` and `Bias` guarantee comes from the lemmas of
their own proof modules, by `INSTANCE ConsensusProofs` and `INSTANCE
BiasProofs`: the votes of a round are valid, so `ComputeConsensus` returns no
error, and unanimous votes with any weight decide for their verdict, as all
masses but one are 0 and the total is that one, rounded alike (`UnanimousWins`);
observations of votes are valid, as an average of scores is a score, so
`Tracker.Record` refuses nothing but a blank domain; observations that do not deviate
have the coefficient 0.

The invariant `SInv` adds to the six properties: every validator of the pool has
a record with scores in range, and is a colluder only if the config has
colluders (whose verdict `Validate` checked); until `Finish` the participation
and detection fields of the report are sums, 100 per round and at most one per
round; and, in a pool of honest validators, every observation in every window
has as population average the score of its own verdict (`Agreeing`). The last is
what makes `HonestNetworkIsRight` inductive: votes that all are the truth have
the truth as their mean, so nobody deviates, the windows stay free of deviation
and nobody is flagged; and the only verdict with any mass is the truth, so
it wins every round, and a round is undecided exactly when its truth is.
`NoRoundFails` says which rounds fail: with a blank domain every one, so the run
ends at its first, and with any other none.

`HonestReputation`: an honest vote is the truth, an outcome that was correct and
in time has a positive delta, and the clamp at 1.0 does not take it below the
old score, which is no higher.

`PoolIsNearTarget` is about `injectDomainReputation`. The first outcome lifts a
score of 0 to the floor of 0.15, every other one adds 0.05 while the score is
more than that below the target. After `i` iterations a score is therefore at
most 0.05 below its target or at least 0.10 + 0.05 `i` (`Approaching`), and never
above the target; with 40 iterations the second is impossible, as scores end at
1.0. The loop is a function on numbers, over which `SetInduction` of `Sums` runs.
The one exception is a blank domain, where the first outcome is refused and the
score stays 0.

### Only model-checked

`CallsReturn`, which is liveness under fairness. All other properties of the
passing runs are proved. What `math.Pow`, the hash functions and Badger do is
assumed, not proved.

## Not modelled

Float rounding other than in the sums of `aggregateWeights`, and NaN; JSON and its errors (part of `Fail`); wording of errors
and reports; Badger's own files, garbage collection and durability against loss
of the machine; a second `Close`; collisions of hash functions; gas, accounts
and access control of the chain (the contracts have none); `NullAdapter`, which
accepts everything and keeps nothing; the probability distributions of the
simulation. `api`, `network`, `sdk`, `selector` and `session` are a `doc.go`
each. Every package that has code has a module.

## Plan

When `session` is written: `Finalization`, a validation written through `Store`
with the reputation records of its voters, two finalizers and a crash between
the writes (the lost update of `WriteValidatorRecord`).

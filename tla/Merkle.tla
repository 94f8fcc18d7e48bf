------------------------------- MODULE Merkle -------------------------------
(***************************************************************************)
(* merkle: the tree over a claim's votes, inclusion proofs and their       *)
(* verification.  Each loop of the package is a step that is repeated, so  *)
(* that an invariant can speak about it for trees of any size.             *)
(*                                                                         *)
(* A byte string is a sequence of tokens, of which a hash is one; writing  *)
(* to a hasher is concatenation.  sha256 is ideal: two byte strings have   *)
(* one hash only if they are equal.                                        *)
(***************************************************************************)
EXTENDS Integers, Sequences, SequencesExt, FiniteSetsExt

CONSTANTS
    Votes,       \* the votes a validator could have cast
    VoteLists,   \* the lists of votes a tree is built from
    MaxNodes     \* bound on the nodes of a proof that no tree produced

\* A validator id is the sequence of its parts between "|"; a verdict has none.
ASSUME VotesAssumption ==
    \A v \in Votes :
        /\ v = [validatorID |-> v.validatorID, verdict |-> v.verdict, confidence |-> v.confidence,
                domainReputation |-> v.domainReputation, biasCoefficient |-> v.biasCoefficient]
        /\ v.validatorID \in Seq(STRING)
        /\ v.validatorID # <<>>
        /\ v.verdict \in STRING

ASSUME VoteListsAssumption == VoteLists \subseteq Seq(Votes)

ASSUME BoundAssumption == MaxNodes \in Nat

VARIABLES
    pc,         \* "new", "build", "built", "prove", "proved", "verify" or "verified"
    votes,      \* the votes the tree is for, in the order of its leaves
    layers,     \* the tree's layers, leaves first
    current,    \* Build: the layer that is stored next
    idx,        \* GenerateProof: the position in the present layer
    proof,      \* the proof that is generated or verified
    leafData,   \* VerifyProof: its argument
    hash,       \* VerifyProof: the hash computed so far
    level,      \* VerifyProof: the nodes of the proof consumed so far
    accepted    \* VerifyProof: what the last call returned

vars == <<pc, votes, layers, current, idx, proof, leafData, hash, level, accepted>>

-----------------------------------------------------------------------------
sha256(bytes) == << <<"sha256", bytes>> >>

x00 == <<"00">>
x01 == <<"01">>

\* Mutant of HashVote: the bias coefficient is not committed to.
HashVoteWithoutBias(v) ==
    sha256([i \in 1..Len(v.validatorID) |-> <<"text", v.validatorID[i]>>]
               \o << <<"text", v.verdict>>, <<"float64", v.confidence>>,
                     <<"float64", v.domainReputation>> >>)

HashVote(v) ==
    sha256([i \in 1..Len(v.validatorID) |-> <<"text", v.validatorID[i]>>]
               \o << <<"text", v.verdict>>, <<"float64", v.confidence>>,
                     <<"float64", v.domainReputation>>, <<"float64", v.biasCoefficient>> >>)

\* Mutant of hashLeaf: leaves have the prefix of internal nodes.
hashLeafAsInternal(data) == sha256(<<x01>> \o data)

hashLeaf(data) == sha256(<<x00>> \o data)

hashInternal(left, right) == sha256(<<x01>> \o left \o right)

\* Mutant of nextLayer: the last of an odd layer is left out.
nextLayerOfPairs(layer) ==
    [i \in 1..(Len(layer) \div 2) |-> hashInternal(layer[2 * i - 1], layer[2 * i])]

\* The layer above: pairs are hashed, and the last of an odd layer with itself.
nextLayer(layer) ==
    [i \in 1..((Len(layer) + 1) \div 2) |->
        hashInternal(layer[2 * i - 1],
                     IF 2 * i <= Len(layer) THEN layer[2 * i] ELSE layer[2 * i - 1])]

Root == layers[Len(layers)][1]

\* Mutant of siblingOf: an odd layer's last node has no right sibling but its left one.
siblingBefore(layer, i) ==
    IF i % 2 = 0
    THEN [Hash |-> IF i + 1 < Len(layer) THEN layer[i + 2] ELSE layer[IF i = 0 THEN 1 ELSE i],
          IsLeft |-> FALSE]
    ELSE [Hash |-> layer[i], IsLeft |-> TRUE]

\* The proof node for position i (from 0) of a layer.
siblingOf(layer, i) ==
    IF i % 2 = 0
    THEN [Hash |-> IF i + 1 < Len(layer) THEN layer[i + 2] ELSE layer[i + 1], IsLeft |-> FALSE]
    ELSE [Hash |-> layer[i], IsLeft |-> TRUE]

-----------------------------------------------------------------------------
NoProof == [LeafIndex |-> -1, Nodes |-> <<>>]

Init ==
    /\ pc = "new"
    /\ votes = <<>> /\ layers = <<>> /\ current = <<>>
    /\ idx = 0 /\ proof = NoProof
    /\ leafData = <<>> /\ hash = <<>> /\ level = 0 /\ accepted = FALSE

\* Build of the hashes of a list of votes; an empty list is refused.
Build(vs) ==
    /\ pc = "new"
    /\ vs # <<>>
    /\ pc' = "build"
    /\ votes' = vs
    /\ current' = [i \in 1..Len(vs) |-> hashLeaf(HashVote(vs[i]))]
    /\ UNCHANGED <<layers, idx, proof, leafData, hash, level, accepted>>

\* One iteration of Build's loop.
BuildLayer ==
    /\ pc = "build"
    /\ layers' = Append(layers, current)
    /\ \/ Len(current) = 1 /\ pc' = "built" /\ UNCHANGED current
       \/ Len(current) # 1 /\ current' = nextLayer(current) /\ UNCHANGED pc
    /\ UNCHANGED <<votes, idx, proof, leafData, hash, level, accepted>>

\* GenerateProof of a leaf; an index out of range is refused.
GenerateProof(leafIndex) ==
    /\ pc = "built"
    /\ leafIndex \in 0..(Len(votes) - 1)
    /\ pc' = "prove"
    /\ idx' = leafIndex
    /\ proof' = [LeafIndex |-> leafIndex, Nodes |-> <<>>]
    /\ UNCHANGED <<votes, layers, current, leafData, hash, level, accepted>>

\* One iteration of GenerateProof's loop, or its end: no sibling for the root.
GenerateNode ==
    /\ pc = "prove"
    /\ \/ /\ Len(proof.Nodes) < Len(layers) - 1
          /\ proof' = [proof EXCEPT !.Nodes = Append(@, siblingOf(layers[Len(@) + 1], idx))]
          /\ idx' = idx \div 2
          /\ UNCHANGED pc
       \/ /\ Len(proof.Nodes) >= Len(layers) - 1
          /\ pc' = "proved"
          /\ UNCHANGED <<proof, idx>>
    /\ UNCHANGED <<votes, layers, current, leafData, hash, level, accepted>>

\* The hashes of the tree: what anyone who holds all votes can put in a proof.
TreeHashes == UNION {Range(layers[k]) : k \in 1..Len(layers)}

\* Proofs that did not come from GenerateProof: any path of hashes of the tree.
ForeignProofs ==
    [LeafIndex : {-1}, Nodes : BoundedSeq([Hash : TreeHashes, IsLeft : BOOLEAN], MaxNodes)]

\* Leaf data a verifier may be given: the hash of any vote, in the tree or not,
\* and the bytes below an internal node.
LeafCandidates ==
    {HashVote(v) : v \in Votes}
        \cup UNION {{layers[k][j] \o layers[k][j + 1] : j \in 1..(Len(layers[k]) - 1)} :
                        k \in 1..Len(layers)}

\* VerifyProof(Root, data, p), where p is the generated proof or a foreign one.
VerifyProof(data, p) ==
    /\ \/ pc = "proved" /\ p = proof
       \/ pc = "built" /\ p \in ForeignProofs
    /\ pc' = "verify"
    /\ proof' = p
    /\ leafData' = data
    /\ hash' = hashLeaf(data)
    /\ level' = 0
    /\ UNCHANGED <<votes, layers, current, idx, accepted>>

\* One iteration of VerifyProof's loop, or the comparison at its end.
VerifyNode ==
    /\ pc = "verify"
    /\ \/ /\ level < Len(proof.Nodes)
          /\ LET node == proof.Nodes[level + 1]
             IN  hash' = IF node.IsLeft THEN hashInternal(node.Hash, hash)
                                        ELSE hashInternal(hash, node.Hash)
          /\ level' = level + 1
          /\ UNCHANGED <<pc, accepted>>
       \/ /\ level = Len(proof.Nodes)
          /\ accepted' = (hash = Root)
          /\ pc' = "verified"
          /\ UNCHANGED <<hash, level>>
    /\ UNCHANGED <<votes, layers, current, idx, proof, leafData>>

Next ==
    \/ \E vs \in VoteLists : Build(vs)
    \/ BuildLayer
    \/ \E i \in 0..(Len(votes) - 1) : GenerateProof(i)
    \/ GenerateNode
    \/ pc \in {"built", "proved"} /\ \E data \in LeafCandidates, p \in ForeignProofs \cup {proof} :
           VerifyProof(data, p)
    \/ VerifyNode

Spec == Init /\ [][Next]_vars

-----------------------------------------------------------------------------
Verified == pc = "verified"

\* The leaves of the tree, as given to Build.
Leaves == {HashVote(votes[i]) : i \in 1..Len(votes)}

\* The layers are the leaves and then half of the layer below each, rounded up,
\* down to a single root; a generated proof never reaches the root's layer.
TypeOK ==
    /\ pc \in {"new", "build", "built", "prove", "proved", "verify", "verified"}
    /\ votes \in Seq(Votes)
    /\ \A k \in 1..Len(layers) :
           /\ k = 1 => Len(layers[k]) = Len(votes)
           /\ k > 1 => Len(layers[k]) = (Len(layers[k - 1]) + 1) \div 2
           /\ k < Len(layers) => Len(layers[k]) > 1
    /\ pc \notin {"new", "build"} => Len(layers[Len(layers)]) = 1
    /\ pc \in {"prove", "proved"} => Len(proof.Nodes) <= Len(layers) - 1
    /\ level \in 0..Len(proof.Nodes)
    /\ accepted \in BOOLEAN

\* A proof made by GenerateProof is accepted for the leaf it was made for and
\* for nothing else, in trees of even and odd layers.
ProofFitsItsLeaf ==
    Verified /\ proof.LeafIndex >= 0 =>
        (accepted <=> leafData = HashVote(votes[proof.LeafIndex + 1]))

\* Whatever hashes a proof is put together from, VerifyProof accepts only leaf
\* data that Build was given, along a path of the tree's full height: an
\* internal node never passes for a leaf nor a leaf for an internal node.
AcceptedIsLeaf ==
    Verified /\ accepted => leafData \in Leaves /\ Len(proof.Nodes) = Len(layers) - 1

\* The root commits to the votes: one that differs from every vote of the tree
\* in any field that has weight in consensus has no proof.
AcceptedVoteWasCast ==
    Verified /\ accepted =>
        \A v \in Votes : leafData = HashVote(v) => v \in Range(votes)
=============================================================================

-------------------------- MODULE IntegrityProofs --------------------------
(***************************************************************************)
(* Proofs about what makes a validation verifiable afterwards: the Merkle  *)
(* tree over its votes, and the contracts that keep its verdict and the    *)
(* root of that tree.                                                      *)
(*                                                                         *)
(* About Merkle, for any votes, trees of any size and proofs of any        *)
(* length: the argument rests on what a tree is while it is built (Tree),  *)
(* on where the hash computed by VerifyProof can occur in it (Climb), and  *)
(* on the path that GenerateProof follows (Ascent).  About Chain, for any  *)
(* records and any order and number of transactions.                       *)
(***************************************************************************)
EXTENDS Merkle, Chain, Sums, SequenceTheorems, TLAPS

\* A sequence, of whatever elements it has.
IsSeq(s) == s \in Seq({s[i] : i \in 1..Len(s)})

\* A hash is one token.
IsHash(h) == h = <<h[1]>>

\* A layer of a tree: one hash or more.
IsLayer(l) == IsSeq(l) /\ l # <<>> /\ \A j \in 1..Len(l) : IsHash(l[j])

\* The leaf layer of a list of votes.
leafLayer(vs) == [i \in 1..Len(vs) |-> hashLeaf(HashVote(vs[i]))]

Verifying == pc \in {"verify", "verified"}

Types ==
    /\ pc \in {"new", "build", "built", "prove", "proved", "verify", "verified"}
    /\ votes \in Seq(Votes)
    /\ IsSeq(layers)
    /\ idx \in Nat /\ accepted \in BOOLEAN
    /\ proof = [LeafIndex |-> proof.LeafIndex, Nodes |-> proof.Nodes]
    /\ proof.LeafIndex \in Int /\ IsSeq(proof.Nodes)
    /\ level \in 0..Len(proof.Nodes)
    /\ ~Verifying => level = 0

\* Every layer is the one Build computes from the layer below, and current is
\* the one after the last stored layer.
Tree ==
    /\ pc = "new" => layers = <<>>
    /\ pc # "new" => votes # <<>>
    /\ pc = "build" =>
           /\ IsLayer(current)
           /\ layers = <<>> => current = leafLayer(votes)
           /\ layers # <<>> => /\ Len(layers[Len(layers)]) > 1
                               /\ current = nextLayer(layers[Len(layers)])
    /\ pc \notin {"new", "build"} => layers # <<>> /\ Len(layers[Len(layers)]) = 1
    /\ \A k \in 1..Len(layers) :
           /\ IsLayer(layers[k])
           /\ k = 1 => layers[k] = leafLayer(votes)
           /\ k > 1 => layers[k] = nextLayer(layers[k - 1])
           /\ k < Len(layers) => Len(layers[k]) > 1

\* When the hash that VerifyProof has computed is a node of the tree, the data
\* it started from is a leaf and it has climbed exactly to that node's layer.
Climb ==
    Verifying =>
        /\ IsHash(hash)
        /\ \A i \in 1..Len(proof.Nodes) : IsHash(proof.Nodes[i].Hash)
        /\ \A k \in 1..Len(layers) : \A j \in 1..Len(layers[k]) :
               hash = layers[k][j] => leafData \in Leaves /\ level = k - 1

\* path is the way up from the leaf of the proof, by the position in each layer,
\* and the nodes of the proof are the siblings along it.
IsPath(path) ==
    /\ path[1] = proof.LeafIndex
    /\ \A k \in 1..Len(proof.Nodes) :
           /\ proof.Nodes[k] = siblingOf(layers[k], path[k])
           /\ path[k + 1] = path[k] \div 2
    /\ \A k \in 1..(Len(proof.Nodes) + 1) : path[k] < Len(layers[k])

\* The positions a path may take in the layers next to the nodes of the proof.
Paths == [1..(Len(proof.Nodes) + 1) -> 0..(Len(votes) - 1)]

\* A generated proof follows the path of its leaf; a verification of it is on
\* that path exactly when it started from that leaf.
Ascent ==
    /\ pc = "prove" =>
           /\ Len(proof.Nodes) < Len(layers)
           /\ \E path \in Paths : IsPath(path) /\ path[Len(proof.Nodes) + 1] = idx
    /\ pc = "proved" =>
           /\ Len(proof.Nodes) = Len(layers) - 1
           /\ \E path \in Paths : IsPath(path)
    /\ Verifying /\ proof.LeafIndex >= 0 =>
           /\ Len(proof.Nodes) = Len(layers) - 1
           /\ \E path \in Paths :
                  /\ IsPath(path)
                  /\ hash = layers[level + 1][path[level + 1] + 1]
                         <=> leafData = HashVote(votes[proof.LeafIndex + 1])

\* What the last comparison decided.
Verdict == Verified => level = Len(proof.Nodes) /\ (accepted <=> hash = Root)

MInv == Types /\ Tree /\ Climb /\ Ascent /\ Verdict

-----------------------------------------------------------------------------
\* Sequences of any elements.
LEMMA AppendIsSeq ==
    ASSUME NEW s, NEW x, IsSeq(s)
    PROVE  /\ IsSeq(Append(s, x))
           /\ Len(Append(s, x)) = Len(s) + 1
           /\ \A i \in 1..Len(s) : Append(s, x)[i] = s[i]
           /\ Append(s, x)[Len(s) + 1] = x
<1> DEFINE S == {s[i] : i \in 1..Len(s)} \cup {x}
           t == Append(s, x)
<1>1. s \in Seq(S) /\ x \in S
  BY DEF IsSeq
<1>2. /\ t \in Seq(S)
      /\ Len(t) = Len(s) + 1 /\ Len(s) \in Nat
      /\ \A i \in 1..Len(s) : t[i] = s[i]
      /\ t[Len(s) + 1] = x
  BY <1>1
<1>3. t \in Seq({t[i] : i \in 1..Len(t)})
  BY <1>2
<1> QED
  BY <1>2, <1>3 DEF IsSeq

LEMMA ConcatIsSeq ==
    ASSUME NEW s, NEW t, IsSeq(s), IsSeq(t)
    PROVE  /\ IsSeq(s \o t)
           /\ Len(s \o t) = Len(s) + Len(t)
           /\ \A i \in 1..Len(s) : (s \o t)[i] = s[i]
           /\ \A i \in 1..Len(t) : (s \o t)[Len(s) + i] = t[i]
<1> DEFINE S == {s[i] : i \in 1..Len(s)} \cup {t[i] : i \in 1..Len(t)}
           u == s \o t
<1>1. s \in Seq(S) /\ t \in Seq(S)
  BY DEF IsSeq
<1>2. /\ u \in Seq(S)
      /\ Len(u) = Len(s) + Len(t) /\ Len(s) \in Nat /\ Len(t) \in Nat
      /\ \A i \in 1..Len(s) : u[i] = s[i]
      /\ \A i \in 1..Len(t) : u[Len(s) + i] = t[i]
  BY <1>1
<1>3. u \in Seq({u[i] : i \in 1..Len(u)})
  <2> HIDE DEF u
  <2> QED
    BY <1>2, SMTT(30)
<1> QED
  BY <1>2, <1>3 DEF IsSeq

LEMMA TupleIsSeq == \A a : IsSeq(<<a>>) /\ Len(<<a>>) = 1
BY DEF IsSeq

\* Two sequences are equal when they have one length and the same elements.
LEMMA SameElements ==
    ASSUME NEW s, NEW t, IsSeq(s), IsSeq(t), Len(s) = Len(t),
           \A i \in 1..Len(s) : s[i] = t[i]
    PROVE  s = t
<1> DEFINE S == {s[i] : i \in 1..Len(s)}
<1>1. s \in Seq(S) /\ {t[i] : i \in 1..Len(t)} = S
  BY DEF IsSeq
<1>2. t \in Seq(S)
  BY <1>1 DEF IsSeq
<1> QED
  BY <1>1, <1>2, SeqEqual

-----------------------------------------------------------------------------
\* What hashing to an ideal SHA-256 with a prefix keeps apart.
LEMMA InternalOfHashes ==
    ASSUME NEW a, NEW b, IsHash(a), IsHash(b)
    PROVE  hashInternal(a, b) = sha256(<<x01, a[1], b[1]>>)
<1>1. ASSUME NEW x, NEW y, NEW z
      PROVE  <<x>> \o <<y>> \o <<z>> = <<x, y, z>>
  <2> DEFINE S == {x, y, z}
             u == <<x>> \o <<y>>
             w == <<x, y, z>>
  <2>1. <<x>> \in Seq(S) /\ <<y>> \in Seq(S) /\ <<z>> \in Seq(S)
    OBVIOUS
  <2>2. u \in Seq(S) /\ Len(u) = 2 /\ u[1] = x /\ u[2] = y
    BY <2>1, ConcatProperties
  <2>3. w \in Seq(S) /\ Len(w) = 3 /\ w[1] = x /\ w[2] = y /\ w[3] = z
    OBVIOUS
  <2> HIDE DEF S, u, w
  <2>4. <<z>>[1] = z /\ Len(<<z>>) = 1
    OBVIOUS
  <2> DEFINE t == u \o <<z>>
  <2>5. t \in Seq(S) /\ Len(t) = 3 /\ t[1] = x /\ t[2] = y /\ t[3] = z
    BY <2>1, <2>2, <2>4, ConcatProperties
  <2>6. t = w
    <3> HIDE DEF t
    <3>1. \A i \in 1..3 : i = 1 \/ i = 2 \/ i = 3
      OBVIOUS
    <3> QED
      BY <2>3, <2>5, <3>1, SeqEqual
  <2> QED
    BY <2>6 DEF u, w
<1> QED
  BY <1>1 DEF hashInternal, IsHash

LEMMA InternalInjective ==
    ASSUME NEW a, NEW b, NEW c, NEW d, IsHash(a), IsHash(b), IsHash(c), IsHash(d),
           hashInternal(a, b) = hashInternal(c, d)
    PROVE  a = c /\ b = d
<1>1. sha256(<<x01, a[1], b[1]>>) = sha256(<<x01, c[1], d[1]>>)
  BY InternalOfHashes
<1>2. <<x01, a[1], b[1]>> = <<x01, c[1], d[1]>>
  BY <1>1 DEF sha256
<1> QED
  BY <1>2 DEF IsHash

LEMMA LeafInjective ==
    ASSUME NEW a, NEW b, IsSeq(a), IsSeq(b), hashLeaf(a) = hashLeaf(b)
    PROVE  a = b
<1>1. <<x00>> \o a = <<x00>> \o b
  BY DEF hashLeaf, sha256
<1>2. /\ Len(a) = Len(b) /\ Len(a) \in Nat
      /\ \A i \in 1..Len(a) : a[i] = b[i]
  <2>1. Len(a) \in Nat /\ Len(b) \in Nat
    BY DEF IsSeq
  <2> QED
    BY <1>1, <2>1, ConcatIsSeq, TupleIsSeq
<1> QED
  BY <1>2, SameElements

LEMMA LeafIsNotInternal ==
    ASSUME NEW a, NEW b, NEW c, IsSeq(a), IsHash(b), IsHash(c)
    PROVE  hashLeaf(a) # hashInternal(b, c)
<1>1. (<<x00>> \o a)[1] = x00
  <2>1. <<x00>>[1] = x00 /\ 1 \in 1..Len(<<x00>>)
    OBVIOUS
  <2> QED
    BY <2>1, ConcatIsSeq, TupleIsSeq
<1>2. <<x01, b[1], c[1]>>[1] = x01
  OBVIOUS
<1>3. x00 # x01
  BY DEF x00, x01
<1>4. <<x00>> \o a # <<x01, b[1], c[1]>>
  BY <1>1, <1>2, <1>3
<1>5. sha256(<<x00>> \o a) # sha256(<<x01, b[1], c[1]>>)
  BY <1>4 DEF sha256
<1> QED
  BY <1>5, InternalOfHashes DEF hashLeaf

LEMMA Sha256IsHash == \A b : IsHash(sha256(b)) /\ IsSeq(sha256(b))
BY TupleIsSeq DEF IsHash, sha256

LEMMA HashIsSeq ==
    ASSUME NEW h, IsHash(h)
    PROVE  IsSeq(h)
<1>1. IsSeq(<<h[1]>>)
  BY TupleIsSeq
<1> QED
  BY <1>1 DEF IsHash

LEMMA HashesAreHashes ==
    /\ \A a : IsHash(hashLeaf(a))
    /\ \A a, b : IsHash(hashInternal(a, b))
    /\ \A v : IsSeq(HashVote(v))
BY Sha256IsHash DEF hashLeaf, hashInternal, HashVote

-----------------------------------------------------------------------------
\* Layers.
LEMMA LeafLayerIsLayer ==
    ASSUME NEW vs \in Seq(Votes), vs # <<>>
    PROVE  IsLayer(leafLayer(vs)) /\ Len(leafLayer(vs)) = Len(vs)
<1> DEFINE l == leafLayer(vs)
           m == Len(vs)
<1>1. m \in Nat \ {0}
  BY EmptySeq
<1>2. Len(l) = m /\ l = [i \in 1..m |-> l[i]]
  <2> HIDE DEF m
  <2> QED
    BY <1>1 DEF leafLayer, m
<1>3. \A j \in 1..m : IsHash(l[j])
  BY HashesAreHashes DEF leafLayer
<1> HIDE DEF l, m
<1>4. l \in Seq({l[i] : i \in 1..Len(l)}) /\ l # <<>>
  BY <1>1, <1>2
<1> QED
  BY <1>1, <1>2, <1>3, <1>4 DEF l, m, IsLayer, IsSeq

LEMMA NextLayerIsLayer ==
    ASSUME NEW l, IsLayer(l)
    PROVE  /\ IsLayer(nextLayer(l))
           /\ Len(l) \in Nat \ {0}
           /\ Len(nextLayer(l)) = (Len(l) + 1) \div 2
<1> DEFINE n == nextLayer(l)
           m == (Len(l) + 1) \div 2
<1>1. Len(l) \in Nat \ {0}
  BY EmptySeq DEF IsLayer, IsSeq
<1>2. m \in Nat \ {0}
  BY <1>1
<1>3. Len(n) = m /\ n = [i \in 1..m |-> n[i]]
  <2> HIDE DEF m
  <2> QED
    BY <1>2 DEF nextLayer, m
<1>4. \A j \in 1..m : IsHash(n[j])
  BY HashesAreHashes DEF nextLayer
<1> HIDE DEF n, m
<1>5. n \in Seq({n[i] : i \in 1..Len(n)}) /\ n # <<>>
  BY <1>2, <1>3
<1> QED
  BY <1>1, <1>2, <1>3, <1>4, <1>5 DEF n, m, IsLayer, IsSeq

\* Every node of the layer above is the hash of two nodes of the layer.
LEMMA ChildrenOf ==
    ASSUME NEW l, IsLayer(l), NEW j \in 1..Len(nextLayer(l))
    PROVE  \E a, b \in 1..Len(l) : nextLayer(l)[j] = hashInternal(l[a], l[b])
<1>1. Len(l) \in Nat \ {0} /\ Len(nextLayer(l)) = (Len(l) + 1) \div 2
  BY NextLayerIsLayer
<1>2. j \in Nat \ {0} /\ 2 * j - 1 \in 1..Len(l)
  BY <1>1
<1> DEFINE b == IF 2 * j <= Len(l) THEN 2 * j ELSE 2 * j - 1
<1>3. b \in 1..Len(l)
  BY <1>1, <1>2
<1>4. nextLayer(l)[j] = hashInternal(l[2 * j - 1], l[b])
  BY <1>1 DEF nextLayer
<1> QED
  BY <1>2, <1>3, <1>4

\* The hash VerifyProof computes from h and a proof node.
Combine(node, h) ==
    IF node.IsLeft THEN hashInternal(node.Hash, h) ELSE hashInternal(h, node.Hash)

\* The sibling GenerateProof gives for a position leads from that position's
\* node, and from no other hash, to the node above it: also for the last node of
\* an odd layer, which nextLayer hashes with itself.
LEMMA SiblingLeadsUp ==
    ASSUME NEW l, IsLayer(l), NEW i \in Nat, i < Len(l), NEW h, IsHash(h)
    PROVE  /\ IsHash(siblingOf(l, i).Hash)
           /\ i \div 2 \in Nat /\ i \div 2 < Len(nextLayer(l))
           /\ Combine(siblingOf(l, i), h) = nextLayer(l)[i \div 2 + 1] <=> h = l[i + 1]
<1>1. Len(l) \in Nat \ {0} /\ Len(nextLayer(l)) = (Len(l) + 1) \div 2
  BY NextLayerIsLayer
<1>2. i \div 2 \in Nat /\ i \div 2 < Len(nextLayer(l)) /\ i \div 2 + 1 \in 1..((Len(l) + 1) \div 2)
  BY <1>1
<1> DEFINE j == i \div 2 + 1
           r == IF 2 * j <= Len(l) THEN 2 * j ELSE 2 * j - 1
<1>3. nextLayer(l)[j] = hashInternal(l[2 * j - 1], l[r])
  BY <1>2 DEF nextLayer
<1>4. CASE i % 2 = 0
  <2>1. 2 * j - 1 = i + 1 /\ i + 1 \in 1..Len(l)
    BY <1>1, <1>4
  <2>2. r \in 1..Len(l) /\ r = IF i + 1 < Len(l) THEN i + 2 ELSE i + 1
    BY <1>1, <1>4
  <2> HIDE DEF r, j
  <2>3. siblingOf(l, i) = [Hash |-> l[r], IsLeft |-> FALSE]
    BY <1>4, <2>2 DEF siblingOf
  <2>4. IsHash(l[r]) /\ IsHash(l[i + 1])
    BY <2>1, <2>2 DEF IsLayer
  <2>5. Combine(siblingOf(l, i), h) = hashInternal(h, l[r])
    BY <2>3 DEF Combine
  <2>6. nextLayer(l)[j] = hashInternal(l[i + 1], l[r])
    BY <1>3, <2>1
  <2>7. hashInternal(h, l[r]) = hashInternal(l[i + 1], l[r]) <=> h = l[i + 1]
    BY <2>4, InternalInjective
  <2> QED
    BY <1>2, <2>3, <2>4, <2>5, <2>6, <2>7 DEF j
<1>5. CASE i % 2 = 1
  <2>1. 2 * j - 1 = i /\ i \in 1..Len(l) /\ r = i + 1 /\ i + 1 \in 1..Len(l)
    BY <1>1, <1>5
  <2> HIDE DEF r, j
  <2>2. siblingOf(l, i) = [Hash |-> l[i], IsLeft |-> TRUE]
    BY <1>5 DEF siblingOf
  <2>3. IsHash(l[i]) /\ IsHash(l[i + 1])
    BY <2>1 DEF IsLayer
  <2>4. Combine(siblingOf(l, i), h) = hashInternal(l[i], h)
    BY <2>2 DEF Combine
  <2>5. nextLayer(l)[j] = hashInternal(l[i], l[i + 1])
    BY <1>3, <2>1
  <2>6. hashInternal(l[i], h) = hashInternal(l[i], l[i + 1]) <=> h = l[i + 1]
    BY <2>3, InternalInjective
  <2> QED
    BY <1>2, <2>2, <2>3, <2>4, <2>5, <2>6 DEF j
<1> QED
  BY <1>4, <1>5

-----------------------------------------------------------------------------
\* The invariant holds initially.
LEMMA InitMInv == Init => MInv
<1> SUFFICES ASSUME Init PROVE MInv
  OBVIOUS
<1> USE DEF Init, NoProof
<1>1. IsSeq(<<>>)
  BY DEF IsSeq
<1>2. Types
  <2>1. /\ proof.Nodes = <<>> /\ proof.LeafIndex = -1
        /\ proof = [LeafIndex |-> proof.LeafIndex, Nodes |-> proof.Nodes]
    OBVIOUS
  <2>2. Len(<<>>) = 0 /\ <<>> \in Seq(Votes)
    OBVIOUS
  <2>3. accepted \in BOOLEAN
    OBVIOUS
  <2> QED
    BY <1>1, <2>1, <2>2, <2>3 DEF Types
<1>3. Tree
  BY DEF Tree
<1>4. Climb /\ Ascent /\ Verdict
  BY DEF Climb, Ascent, Verdict, Verifying, Verified
<1> QED
  BY <1>2, <1>3, <1>4 DEF MInv

\* Building keeps it: a stored layer is the layer above the one stored before.
LEMMA BuildKeepsMInv ==
    ASSUME MInv, NEW vs \in VoteLists, Build(vs)
    PROVE  MInv'
<1> USE DEF Build
<1>1. vs \in Seq(Votes)
  BY VoteListsAssumption
<1>2. Types'
  BY <1>1 DEF MInv, Types, Verifying
<1>3. IsLayer(leafLayer(vs)) /\ current' = leafLayer(vs)
  BY <1>1, LeafLayerIsLayer DEF leafLayer
<1>4. layers' = <<>> /\ votes' = vs
  BY DEF MInv, Tree
<1>5. Tree'
  BY <1>3, <1>4 DEF Tree
<1>6. Climb' /\ Ascent' /\ Verdict'
  BY DEF Climb, Ascent, Verdict, Verifying, Verified
<1> QED
  BY <1>2, <1>5, <1>6 DEF MInv

LEMMA BuildLayerKeepsMInv ==
    ASSUME MInv, BuildLayer
    PROVE  MInv'
<1> USE DEF BuildLayer
<1> DEFINE n == Len(layers)
<1>1. /\ IsSeq(layers') /\ Len(layers') = n + 1 /\ n \in Nat
      /\ \A k \in 1..n : layers'[k] = layers[k]
      /\ layers'[n + 1] = current
  <2>1. IsSeq(layers)
    BY DEF MInv, Types, Verifying
  <2> QED
    BY <2>1, AppendIsSeq DEF IsSeq
<1>2. IsLayer(current) /\ Len(current) \in Nat \ {0}
  <2>1. IsLayer(current)
    BY DEF MInv, Tree
  <2> QED
    BY <2>1, NextLayerIsLayer
<1>3. Types'
  BY <1>1 DEF MInv, Types, Verifying
<1>4. layers' # <<>>
  BY <1>1
<1>5. /\ pc' = "build" => IsLayer(current') /\ current' = nextLayer(current) /\ Len(current) > 1
      /\ pc' # "build" => pc' = "built" /\ Len(current) = 1
  <2>1. IsLayer(nextLayer(current))
    BY <1>2, NextLayerIsLayer
  <2>2. pc = "build"
    OBVIOUS
  <2>3. CASE Len(current) = 1 /\ pc' = "built" /\ UNCHANGED current
    BY <2>3
  <2>4. CASE Len(current) # 1 /\ current' = nextLayer(current) /\ UNCHANGED pc
    <3>1. IsLayer(current') /\ pc' = "build"
      BY <2>1, <2>2, <2>4
    <3>2. \A c \in Nat \ {0} : c # 1 => c > 1
      OBVIOUS
    <3>3. Len(current) > 1
      BY ONLY <1>2, <2>4, <3>2
    <3> QED
      BY <2>4, <3>1, <3>3
  <2> QED
    BY <2>3, <2>4
<1>6. ASSUME NEW k \in 1..Len(layers')
      PROVE  /\ IsLayer(layers'[k])
             /\ k = 1 => layers'[k] = leafLayer(votes)
             /\ k > 1 => layers'[k] = nextLayer(layers'[k - 1])
             /\ k < Len(layers') => Len(layers'[k]) > 1
  <2>1. CASE k = n + 1
    <3>1. n = 0 => layers = <<>>
      BY DEF MInv, Types, IsSeq
    <3>2. n > 0 => layers # <<>> /\ n \in 1..n /\ n + 1 - 1 = n
      BY <1>1
    <3>3. n > 0 => layers'[k] = nextLayer(layers'[k - 1])
      BY <1>1, <2>1, <3>2 DEF MInv, Tree
    <3> QED
      BY <1>1, <1>2, <2>1, <3>1, <3>3 DEF MInv, Tree
  <2>2. CASE k \in 1..n
    <3>1. /\ IsLayer(layers[k])
          /\ k = 1 => layers[k] = leafLayer(votes)
          /\ k > 1 => layers[k] = nextLayer(layers[k - 1])
          /\ k < n => Len(layers[k]) > 1
      BY <2>2 DEF MInv, Tree
    <3>2. k = n => Len(layers[k]) > 1
      <4>1. layers # <<>>
        BY <1>1, <2>2
      <4> QED
        BY <4>1 DEF MInv, Tree
    <3>3. k > 1 => k - 1 \in 1..n
      BY <1>1, <2>2
    <3> QED
      BY <1>1, <2>2, <3>1, <3>2, <3>3
  <2> QED
    BY <1>1, <2>1, <2>2
<1>7. Tree'
  <2>1. votes' = votes /\ votes # <<>>
    BY DEF MInv, Tree
  <2>2. Len(layers') = n + 1 /\ n + 1 \in 1..Len(layers') /\ layers'[Len(layers')] = current
    BY <1>1
  <2> QED
    BY <1>4, <1>5, <1>6, <2>1, <2>2 DEF Tree
<1>8. Climb' /\ Ascent' /\ Verdict'
  BY DEF Climb, Ascent, Verdict, Verifying, Verified
<1> QED
  BY <1>3, <1>7, <1>8 DEF MInv

\* GenerateProof keeps it: the path is extended by one position for each node.
LEMMA GenerateProofKeepsMInv ==
    ASSUME MInv, NEW i \in 0..(Len(votes) - 1), GenerateProof(i)
    PROVE  MInv'
<1> USE DEF GenerateProof
<1>1. /\ proof'.LeafIndex = i /\ proof'.Nodes = <<>> /\ IsSeq(<<>>) /\ Len(<<>>) = 0
      /\ proof' = [LeafIndex |-> proof'.LeafIndex, Nodes |-> proof'.Nodes]
  BY DEF IsSeq
<1>2. votes \in Seq(Votes) /\ Len(votes) \in Nat /\ i \in Nat
  BY DEF MInv, Types, Verifying
<1>3. Types'
  <2>1. level = 0
    BY DEF MInv, Types, Verifying
  <2> QED
    BY <1>1, <1>2, <2>1 DEF MInv, Types, Verifying
<1>4. Tree'
  BY DEF MInv, Tree
<1>5. Ascent'
  <2> DEFINE path == [k \in 1..1 |-> i]
  <2>1. Len(layers) \in Nat \ {0} /\ Len(layers[1]) = Len(votes)
    <3>1. IsSeq(layers) /\ layers # <<>> /\ votes # <<>>
      BY DEF MInv, Types, Tree
    <3>2. Len(layers) \in Nat \ {0}
      BY <3>1 DEF IsSeq
    <3>3. layers[1] = leafLayer(votes)
      BY <3>2 DEF MInv, Tree
    <3> QED
      BY <1>2, <3>1, <3>2, <3>3, LeafLayerIsLayer
  <2>2. path \in Paths' /\ path[1] = i
    BY <1>1 DEF Paths
  <2>3. IsPath(path)'
    BY <1>1, <1>2, <2>1, <2>2 DEF IsPath
  <2>4. path[Len(proof'.Nodes) + 1] = idx' /\ Len(proof'.Nodes) < Len(layers')
    BY <1>1, <2>1, <2>2
  <2> HIDE DEF path
  <2> QED
    BY <2>2, <2>3, <2>4 DEF Ascent, Verifying
<1>6. Climb' /\ Verdict'
  BY DEF Climb, Verdict, Verifying, Verified
<1> QED
  BY <1>3, <1>4, <1>5, <1>6 DEF MInv

LEMMA GenerateNodeKeepsMInv ==
    ASSUME MInv, GenerateNode
    PROVE  MInv'
<1> USE DEF GenerateNode
<1> DEFINE n == Len(proof.Nodes)
<1>1. Tree'
  BY DEF MInv, Tree
<1>2. Climb' /\ Verdict'
  BY DEF Climb, Verdict, Verifying, Verified
<1>3. n \in Nat /\ Len(layers) \in Nat /\ Len(votes) \in Nat /\ n < Len(layers)
  BY DEF MInv, Types, Ascent, IsSeq
<1>4. PICK path \in Paths : IsPath(path) /\ path[n + 1] = idx
  BY DEF MInv, Ascent
<1>5. CASE n < Len(layers) - 1
  <2> DEFINE node == siblingOf(layers[n + 1], idx)
  <2>1. /\ proof' = [LeafIndex |-> proof'.LeafIndex, Nodes |-> proof'.Nodes]
        /\ proof'.LeafIndex = proof.LeafIndex /\ proof'.Nodes = Append(proof.Nodes, node)
        /\ idx' = idx \div 2 /\ UNCHANGED pc
    BY <1>5 DEF MInv, Types, Verifying
  <2>2. /\ IsSeq(proof'.Nodes) /\ Len(proof'.Nodes) = n + 1
        /\ \A k \in 1..n : proof'.Nodes[k] = proof.Nodes[k]
        /\ proof'.Nodes[n + 1] = node
    <3>1. IsSeq(proof.Nodes)
      BY DEF MInv, Types, Verifying
    <3> QED
      BY <2>1, <3>1, AppendIsSeq
  <2>3. n + 1 \in 1..Len(layers) /\ n + 2 \in 1..Len(layers) /\ n + 2 - 1 = n + 1
    BY <1>3, <1>5
  <2>4. idx \in Nat /\ idx < Len(layers[n + 1]) /\ IsLayer(layers[n + 1])
    <3>1. path[n + 1] < Len(layers[n + 1])
      BY <1>3, <1>4 DEF IsPath
    <3>2. idx \in Nat /\ IsLayer(layers[n + 1])
      BY <2>3 DEF MInv, Types, Tree
    <3> QED
      BY <1>4, <3>1, <3>2
  <2>5. layers[n + 2] = nextLayer(layers[n + 1])
    BY <2>3, SMTT(30) DEF MInv, Tree
  <2>6. idx \div 2 \in Nat /\ idx \div 2 < Len(layers[n + 2])
    <3>1. \E h : IsHash(h)
      BY Sha256IsHash
    <3> QED
      BY <2>4, <2>5, <3>1, SiblingLeadsUp
  <2>7. Types'
    BY <1>3, <2>1, <2>2, <2>6 DEF MInv, Types, Verifying
  <2>8. idx \in 0..(Len(votes) - 1) /\ \A k \in 1..(n + 1) : path[k] \in 0..(Len(votes) - 1)
    BY <1>3, <1>4 DEF Paths
  <2>9. PICK new : new = [k \in 1..(n + 2) |-> IF k = n + 2 THEN idx \div 2 ELSE path[k]]
    OBVIOUS
  <2>10. /\ new \in Paths'
         /\ new[n + 2] = idx \div 2
         /\ \A k \in 1..(n + 1) : new[k] = path[k]
    <3>1. idx \div 2 \in 0..(Len(votes) - 1)
      BY <1>3, <2>8
    <3>2. votes' = votes /\ Len(proof'.Nodes) + 1 = n + 2
      BY <1>3, <2>2
    <3>3. \A k \in 1..(n + 2) : k = n + 2 \/ k \in 1..(n + 1)
      BY <1>3
    <3> HIDE DEF n
    <3>4. new \in [1..(n + 2) -> 0..(Len(votes) - 1)]
      BY <2>8, <2>9, <3>1, <3>3
    <3>5. n + 2 \in 1..(n + 2) /\ \A k \in 1..(n + 1) : k \in 1..(n + 2) /\ k # n + 2
      BY <1>3
    <3> QED
      BY <2>9, <3>2, <3>4, <3>5 DEF Paths
  <2>11. IsPath(new)'
    <3> DEFINE m == Len(proof'.Nodes)
    <3>1. m = n + 1
      BY <2>2
    <3>2. new[1] = proof'.LeafIndex
      BY <1>3, <1>4, <2>1, <2>10 DEF IsPath
    <3>3. ASSUME NEW k \in 1..m
          PROVE  proof'.Nodes[k] = siblingOf(layers[k], new[k]) /\ new[k + 1] = new[k] \div 2
      <4>1. CASE k = n + 1
        BY <1>3, <1>4, <2>2, <2>10, <4>1, SMTT(30)
      <4>2. CASE k \in 1..n
        <5>1. proof.Nodes[k] = siblingOf(layers[k], path[k]) /\ path[k + 1] = path[k] \div 2
          BY <1>4, <4>2 DEF IsPath
        <5>2. new[k] = path[k] /\ new[k + 1] = path[k + 1]
          BY <1>3, <2>10, <4>2
        <5> QED
          BY <2>2, <4>2, <5>1, <5>2
      <4> QED
        BY <1>3, <3>1, <4>1, <4>2
    <3>4. ASSUME NEW k \in 1..(m + 1)
          PROVE  new[k] < Len(layers[k])
      <4>1. CASE k = n + 2
        BY <2>6, <2>10, <4>1
      <4>2. CASE k \in 1..(n + 1)
        BY <1>4, <2>10, <4>2 DEF IsPath
      <4> QED
        BY <1>3, <3>1, <4>1, <4>2
    <3>5. layers' = layers
      OBVIOUS
    <3> HIDE DEF m
    <3> QED
      BY <3>2, <3>3, <3>4, <3>5 DEF IsPath, m
  <2>12. Ascent'
    <3>1. new[Len(proof'.Nodes) + 1] = idx'
      BY <1>3, <2>1, <2>2, <2>10
    <3>2. Len(proof'.Nodes) < Len(layers') /\ pc' = "prove"
      BY <1>3, <1>5, <2>1, <2>2
    <3> QED
      BY <2>10, <2>11, <3>1, <3>2 DEF Ascent, Verifying
  <2> QED
    BY <1>1, <1>2, <2>7, <2>12 DEF MInv
<1>6. CASE n >= Len(layers) - 1
  <2>1. pc' = "proved" /\ UNCHANGED <<proof, idx>> /\ n = Len(layers) - 1
    BY <1>3, <1>6
  <2>2. Types'
    BY <2>1 DEF MInv, Types, Verifying
  <2>3. Paths' = Paths /\ IsPath(path)' /\ Len(proof'.Nodes) = Len(layers') - 1
    BY <1>4, <2>1 DEF IsPath, Paths
  <2>4. Ascent'
    BY <2>1, <2>3 DEF Ascent, Verifying
  <2> QED
    BY <1>1, <1>2, <2>2, <2>4 DEF MInv
<1> QED
  BY <1>3, <1>5, <1>6

-----------------------------------------------------------------------------
\* The data and the proofs a verification may start from.
LEMMA Candidates ==
    ASSUME Types, Tree, NEW data \in LeafCandidates
    PROVE  IsSeq(data)
<1>1. CASE data \in {HashVote(v) : v \in Votes}
  BY <1>1, HashesAreHashes
<1>2. CASE \E k \in 1..Len(layers) : \E j \in 1..(Len(layers[k]) - 1) :
               data = layers[k][j] \o layers[k][j + 1]
  <2>1. PICK k \in 1..Len(layers) : \E j \in 1..(Len(layers[k]) - 1) :
            data = layers[k][j] \o layers[k][j + 1]
    BY <1>2
  <2>2. PICK j \in 1..(Len(layers[k]) - 1) : data = layers[k][j] \o layers[k][j + 1]
    BY <2>1
  <2>3. IsLayer(layers[k]) /\ Len(layers[k]) \in Nat
    BY NextLayerIsLayer DEF Tree
  <2>4. IsHash(layers[k][j]) /\ IsHash(layers[k][j + 1])
    BY <2>3 DEF IsLayer
  <2>5. IsSeq(layers[k][j]) /\ IsSeq(layers[k][j + 1])
    BY <2>4, HashIsSeq
  <2> QED
    BY <2>2, <2>5, ConcatIsSeq
<1> QED
  BY <1>1, <1>2 DEF LeafCandidates

LEMMA ForeignProof ==
    ASSUME Types, Tree, NEW p \in ForeignProofs
    PROVE  /\ p = [LeafIndex |-> p.LeafIndex, Nodes |-> p.Nodes]
           /\ p.LeafIndex = -1
           /\ IsSeq(p.Nodes)
           /\ \A i \in 1..Len(p.Nodes) : IsHash(p.Nodes[i].Hash)
<1> DEFINE Node == [Hash : TreeHashes, IsLeft : BOOLEAN]
<1>1. PICK m \in 0..MaxNodes : p.Nodes \in [1..m -> Node]
  BY DEF ForeignProofs, BoundedSeq, SeqOf
<1>2. p = [LeafIndex |-> p.LeafIndex, Nodes |-> p.Nodes] /\ p.LeafIndex = -1
  BY DEF ForeignProofs
<1>3. m \in Nat /\ Len(p.Nodes) = m
  BY <1>1, BoundAssumption
<1>4. IsSeq(p.Nodes)
  BY <1>1, <1>3 DEF IsSeq
<1>5. ASSUME NEW i \in 1..Len(p.Nodes)
      PROVE  IsHash(p.Nodes[i].Hash)
  <2>1. p.Nodes[i].Hash \in TreeHashes
    BY <1>1, <1>3
  <2>2. PICK k \in 1..Len(layers) : p.Nodes[i].Hash \in Range(layers[k])
    BY <2>1 DEF TreeHashes
  <2>3. IsLayer(layers[k])
    BY DEF Tree
  <2>4. DOMAIN layers[k] = 1..Len(layers[k])
    BY <2>3 DEF IsLayer, IsSeq
  <2>5. \E j \in 1..Len(layers[k]) : p.Nodes[i].Hash = layers[k][j]
    BY <2>2, <2>4 DEF Range
  <2> QED
    BY <2>3, <2>5 DEF IsLayer
<1> QED
  BY <1>2, <1>4, <1>5

LEMMA LayerFacts ==
    ASSUME Tree, NEW k \in 1..Len(layers)
    PROVE  IsLayer(layers[k]) /\ (k > 1 => layers[k] = nextLayer(layers[k - 1]))
BY DEF Tree

\* What the nodes of the tree are hashes of.
LEMMA LeafOrigin ==
    ASSUME Types, Tree, votes # <<>>, 1 \in 1..Len(layers), NEW j \in 1..Len(layers[1])
    PROVE  j \in 1..Len(votes) /\ layers[1][j] = hashLeaf(HashVote(votes[j]))
<1>1. layers[1] = leafLayer(votes) /\ Len(layers[1]) = Len(votes)
  BY LeafLayerIsLayer DEF Tree, Types
<1> QED
  BY <1>1 DEF leafLayer

LEMMA NodeOrigin ==
    ASSUME Types, Tree, NEW k \in 1..Len(layers), k > 1, NEW j \in 1..Len(layers[k])
    PROVE  /\ k - 1 \in 1..Len(layers)
           /\ \E a, b \in 1..Len(layers[k - 1]) :
                  /\ IsHash(layers[k - 1][a]) /\ IsHash(layers[k - 1][b])
                  /\ layers[k][j] = hashInternal(layers[k - 1][a], layers[k - 1][b])
<1>1. k - 1 \in 1..Len(layers)
  <2>1. Len(layers) \in Nat
    BY DEF Types, IsSeq
  <2> QED
    BY <2>1
<1>2. IsLayer(layers[k - 1]) /\ layers[k] = nextLayer(layers[k - 1])
  BY <1>1, LayerFacts
<1>3. PICK a, b \in 1..Len(layers[k - 1]) :
          layers[k][j] = hashInternal(layers[k - 1][a], layers[k - 1][b])
  <2>1. PICK l, m : l = layers[k - 1] /\ m = layers[k]
    OBVIOUS
  <2>2. IsLayer(l) /\ m = nextLayer(l) /\ j \in 1..Len(nextLayer(l))
    BY <1>2, <2>1
  <2>3. \E a, b \in 1..Len(l) : nextLayer(l)[j] = hashInternal(l[a], l[b])
    BY ONLY <2>2, ChildrenOf
  <2> QED
    BY <2>1, <2>2, <2>3
<1>4. IsHash(layers[k - 1][a]) /\ IsHash(layers[k - 1][b])
  BY <1>2 DEF IsLayer
<1>5. \E c, d \in 1..Len(layers[k - 1]) :
          /\ IsHash(layers[k - 1][c]) /\ IsHash(layers[k - 1][d])
          /\ layers[k][j] = hashInternal(layers[k - 1][c], layers[k - 1][d])
  <2> WITNESS a \in 1..Len(layers[k - 1]), b \in 1..Len(layers[k - 1])
  <2> QED
    BY <1>3, <1>4
<1> QED
  BY <1>1, <1>5

\* Starting a verification: the hash of leaf data is a node of the tree only at
\* the bottom, and only of data that is a leaf.
LEMMA VerifyProofKeepsMInv ==
    ASSUME MInv, NEW data \in LeafCandidates, NEW p, VerifyProof(data, p)
    PROVE  MInv'
<1> USE DEF VerifyProof
<1>1. Types /\ Tree /\ votes # <<>> /\ layers # <<>> /\ Len(layers) \in Nat \ {0}
  <2>1. Types /\ Tree /\ votes # <<>> /\ layers # <<>>
    BY DEF MInv, Tree
  <2> QED
    BY <2>1 DEF Types, IsSeq
<1>2. IsSeq(data)
  BY <1>1, Candidates
<1>3. /\ p = [LeafIndex |-> p.LeafIndex, Nodes |-> p.Nodes]
      /\ p.LeafIndex \in Int /\ IsSeq(p.Nodes)
      /\ \A i \in 1..Len(p.Nodes) : IsHash(p.Nodes[i].Hash)
      /\ p.LeafIndex >= 0 => pc = "proved" /\ p = proof
  <2>1. CASE pc = "proved" /\ p = proof
    <3>1. PICK path \in Paths : IsPath(path) /\ Len(proof.Nodes) = Len(layers) - 1
      BY <2>1 DEF MInv, Ascent
    <3>2. ASSUME NEW i \in 1..Len(p.Nodes)
          PROVE  IsHash(p.Nodes[i].Hash)
      <4>1. i \in 1..Len(layers) /\ i \in 1..(Len(proof.Nodes) + 1)
        BY <1>1, <2>1, <3>1
      <4>2. /\ p.Nodes[i] = siblingOf(layers[i], path[i])
            /\ path[i] \in Nat /\ path[i] < Len(layers[i])
        BY <1>1, <2>1, <3>1, <4>1 DEF IsPath, Paths
      <4>3. IsLayer(layers[i])
        BY <1>1, <4>1 DEF Tree
      <4> QED
        BY <4>2, <4>3, Sha256IsHash, SiblingLeadsUp
    <3> QED
      BY <1>1, <2>1, <3>2 DEF Types
  <2>2. CASE pc = "built" /\ p \in ForeignProofs
    BY <1>1, <2>2, ForeignProof
  <2> QED
    BY <2>1, <2>2
<1>4. Types'
  BY <1>1, <1>3 DEF Types, Verifying, IsSeq
<1>5. Tree'
  BY <1>1 DEF MInv, Tree
<1>6. Climb'
  <2>1. IsHash(hash')
    BY HashesAreHashes
  <2>2. ASSUME NEW k \in 1..Len(layers), NEW j \in 1..Len(layers[k]), hash' = layers[k][j]
        PROVE  data \in Leaves /\ 0 = k - 1
    <3>1. CASE k = 1
      <4>1. j \in 1..Len(votes) /\ hashLeaf(data) = hashLeaf(HashVote(votes[j]))
        BY <1>1, <2>2, <3>1, LeafOrigin
      <4>2. data = HashVote(votes[j])
        BY <1>2, <4>1, LeafInjective, HashesAreHashes
      <4> QED
        BY <3>1, <4>1, <4>2 DEF Leaves
    <3>2. CASE k > 1
      <4>1. PICK a, b \in 1..Len(layers[k - 1]) :
                /\ IsHash(layers[k - 1][a]) /\ IsHash(layers[k - 1][b])
                /\ layers[k][j] = hashInternal(layers[k - 1][a], layers[k - 1][b])
        BY <1>1, <3>2, NodeOrigin
      <4> QED
        BY <1>2, <2>2, <4>1, LeafIsNotInternal
    <3> QED
      BY <1>1, <3>1, <3>2
  <2>3. Leaves' = Leaves
    BY DEF Leaves
  <2> QED
    BY <1>3, <2>1, <2>2, <2>3 DEF Climb
<1>7. Ascent'
  <2>1. ASSUME p.LeafIndex >= 0
        PROVE  /\ Len(proof'.Nodes) = Len(layers') - 1
               /\ \E path \in Paths' :
                      /\ IsPath(path)'
                      /\ hash' = layers'[level' + 1][path[level' + 1] + 1]
                             <=> leafData' = HashVote(votes'[proof'.LeafIndex + 1])
    <3>1. pc = "proved" /\ p = proof /\ proof' = proof /\ layers' = layers /\ votes' = votes
      BY <1>3, <2>1
    <3>2. PICK path \in Paths : IsPath(path) /\ Len(proof.Nodes) = Len(layers) - 1
      BY <3>1 DEF MInv, Ascent
    <3>3. path \in Paths' /\ IsPath(path)'
      BY <3>1, <3>2 DEF Paths, IsPath
    <3> DEFINE i == proof.LeafIndex
    <3>4. path[1] = i /\ i \in Nat /\ i < Len(layers[1])
      BY <1>1, <2>1, <3>1, <3>2 DEF IsPath, Types
    <3>5. layers[1] = leafLayer(votes) /\ Len(layers[1]) = Len(votes) /\ Len(votes) \in Nat
      BY <1>1, LeafLayerIsLayer DEF Tree, Types
    <3>6. i + 1 \in 1..Len(votes)
      BY <3>4, <3>5
    <3>7. layers[1][i + 1] = hashLeaf(HashVote(votes[i + 1]))
      BY <3>5, <3>6 DEF leafLayer
    <3>8. hashLeaf(data) = hashLeaf(HashVote(votes[i + 1])) <=> data = HashVote(votes[i + 1])
      BY <1>2, LeafInjective, HashesAreHashes
    <3>9. level' + 1 = 1
      OBVIOUS
    <3> QED
      BY <3>1, <3>2, <3>3, <3>4, <3>7, <3>8, <3>9
  <2> QED
    BY <2>1 DEF Ascent
<1>8. Verdict'
  BY DEF Verdict, Verified
<1> QED
  BY <1>4, <1>5, <1>6, <1>7, <1>8 DEF MInv

\* One step up: the new hash is a node of the tree only if the hash before was
\* one of its children, one layer below.
LEMMA VerifyNodeKeepsMInv ==
    ASSUME MInv, VerifyNode
    PROVE  MInv'
<1> DEFINE n == Len(proof.Nodes)
<1>1. /\ Types /\ Tree /\ Climb /\ pc = "verify"
      /\ UNCHANGED <<votes, layers, current, idx, proof, leafData>>
  BY DEF MInv, VerifyNode
<1>2. /\ votes # <<>> /\ layers # <<>> /\ Len(layers) \in Nat \ {0}
      /\ n \in Nat /\ level \in 0..n
      /\ Len(layers[Len(layers)]) = 1
  <2>1. votes # <<>> /\ layers # <<>> /\ Len(layers[Len(layers)]) = 1
    BY <1>1 DEF Tree
  <2> QED
    BY <1>1, <2>1 DEF Types, IsSeq
<1>3. Leaves' = Leaves /\ Paths' = Paths /\ Len(proof'.Nodes) = n
  BY <1>1 DEF Leaves, Paths
<1>4. \A path : IsPath(path) => IsPath(path)'
  BY <1>1 DEF IsPath
<1>6. CASE level < n
  <2> DEFINE node == proof.Nodes[level + 1]
  <2>1. /\ hash' = Combine(node, hash) /\ level' = level + 1
        /\ pc' = "verify" /\ UNCHANGED accepted
    BY <1>1, <1>2, <1>6 DEF VerifyNode, Combine
  <2>2. level' \in 0..n /\ level + 1 \in 1..n
    BY <1>2, <1>6, <2>1
  <2>3. Types'
    BY <1>1, <2>1, <2>2 DEF Types, Verifying
  <2>4. Tree'
    BY <1>1, <2>1 DEF Tree
  <2>5. IsHash(hash) /\ IsHash(node.Hash) /\ IsHash(hash')
    <3>1. IsHash(hash) /\ IsHash(node.Hash)
      BY <1>1, <2>2 DEF Climb, Verifying
    <3> QED
      BY <2>1, <3>1, HashesAreHashes DEF Combine
  <2>6. ASSUME NEW k \in 1..Len(layers), NEW j \in 1..Len(layers[k]), hash' = layers[k][j]
        PROVE  leafData \in Leaves /\ level' = k - 1
    <3>1. k > 1
      <4>1. SUFFICES ASSUME k = 1 PROVE FALSE
        BY <1>2
      <4>2. hash' = hashLeaf(HashVote(votes[j]))
        BY <1>1, <1>2, <2>6, <4>1, LeafOrigin
      <4> QED
        BY <2>1, <2>5, <4>2, LeafIsNotInternal, HashesAreHashes DEF Combine
    <3>2. k - 1 \in 1..Len(layers)
      BY <1>1, <3>1, NodeOrigin
    <3>3. PICK a, b \in 1..Len(layers[k - 1]) :
              /\ IsHash(layers[k - 1][a]) /\ IsHash(layers[k - 1][b])
              /\ layers[k][j] = hashInternal(layers[k - 1][a], layers[k - 1][b])
      BY <1>1, <3>1, NodeOrigin
    <3>4. hash = layers[k - 1][a] \/ hash = layers[k - 1][b]
      <4>1. CASE node.IsLeft
        <5>1. hashInternal(node.Hash, hash) = hashInternal(layers[k - 1][a], layers[k - 1][b])
          BY <2>1, <2>6, <3>3, <4>1 DEF Combine
        <5> QED
          BY <2>5, <3>3, <5>1, InternalInjective
      <4>2. CASE ~node.IsLeft
        <5>1. hashInternal(hash, node.Hash) = hashInternal(layers[k - 1][a], layers[k - 1][b])
          BY <2>1, <2>6, <3>3, <4>2 DEF Combine
        <5> QED
          BY <2>5, <3>3, <5>1, InternalInjective
      <4> QED
        BY <4>1, <4>2
    <3>5. leafData \in Leaves /\ level = k - 1 - 1
      BY <1>1, <3>2, <3>4 DEF Climb, Verifying
    <3> QED
      BY <1>2, <2>1, <3>5
  <2>7. Climb'
    <3>1. \A i \in 1..Len(proof.Nodes) : IsHash(proof.Nodes[i].Hash)
      BY <1>1 DEF Climb, Verifying
    <3> QED
      BY <1>1, <1>3, <2>5, <2>6, <3>1 DEF Climb
  <2>8. Ascent'
    <3>1. ASSUME proof.LeafIndex >= 0
          PROVE  /\ Len(proof'.Nodes) = Len(layers') - 1
                 /\ \E path \in Paths' :
                        /\ IsPath(path)'
                        /\ hash' = layers'[level' + 1][path[level' + 1] + 1]
                               <=> leafData' = HashVote(votes'[proof'.LeafIndex + 1])
      <4>1. n = Len(layers) - 1
        BY <1>1, <3>1 DEF MInv, Ascent, Verifying
      <4>2. PICK path \in Paths :
                /\ IsPath(path)
                /\ hash = layers[level + 1][path[level + 1] + 1]
                       <=> leafData = HashVote(votes[proof.LeafIndex + 1])
        BY <1>1, <3>1 DEF MInv, Ascent, Verifying
      <4> DEFINE l == layers[level + 1]
                 i == path[level + 1]
      <4>3. level + 1 \in 1..Len(layers) /\ level + 2 \in 1..Len(layers) /\ level + 2 > 1
            /\ level + 2 - 1 = level + 1 /\ level + 1 \in 1..(n + 1)
        BY <1>2, <2>2, <4>1
      <4>4. IsLayer(l) /\ layers[level + 2] = nextLayer(l)
        <5>1. IsLayer(l)
          BY <1>1, <4>3, LayerFacts
        <5>2. \A m, c \in 1..Len(layers) : m > 1 /\ c = m - 1 => layers[m] = nextLayer(layers[c])
          BY <1>1, LayerFacts
        <5>3. PICK m, c : m = level + 2 /\ c = level + 1
          OBVIOUS
        <5>4. m \in 1..Len(layers) /\ c \in 1..Len(layers) /\ m > 1 /\ c = m - 1
          BY <1>2, <4>3, <5>3
        <5>5. layers[m] = nextLayer(layers[c])
          BY ONLY <5>2, <5>4
        <5> QED
          BY <5>1, <5>3, <5>5
      <4>5. i \in Nat /\ i < Len(l)
        BY <4>2, <4>3 DEF IsPath, Paths
      <4>6. node = siblingOf(l, i) /\ path[level + 1 + 1] = i \div 2
        BY <2>2, <4>2 DEF IsPath
      <4>7. hash' = layers[level + 2][i \div 2 + 1] <=> hash = l[i + 1]
        BY <2>1, <2>5, <4>4, <4>5, <4>6, SiblingLeadsUp
      <4>8. level' + 1 = level + 2 /\ level + 1 + 1 = level + 2
        BY <1>2, <2>1
      <4>9. hash' = layers'[level' + 1][path[level' + 1] + 1]
                <=> leafData' = HashVote(votes'[proof'.LeafIndex + 1])
        BY <1>1, <4>2, <4>6, <4>7, <4>8
      <4>10. path \in Paths' /\ IsPath(path)'
        BY <1>3, <1>4, <4>2
      <4>11. Len(proof'.Nodes) = Len(layers') - 1
        BY <1>1, <4>1
      <4> QED
        BY <4>9, <4>10, <4>11
    <3> QED
      BY <1>1, <2>1, <3>1 DEF Ascent
  <2>9. Verdict'
    BY <2>1 DEF Verdict, Verified
  <2> QED
    BY <2>3, <2>4, <2>7, <2>8, <2>9 DEF MInv
<1>7. CASE level = n
  <2>1. accepted' = (hash = Root) /\ pc' = "verified" /\ UNCHANGED <<hash, level>>
    BY <1>1, <1>2, <1>7 DEF VerifyNode
  <2>2. Types'
    <3>1. accepted' \in BOOLEAN
      BY <2>1
    <3> QED
      BY <1>1, <2>1, <3>1 DEF Types, Verifying
  <2>3. Tree'
    BY <1>1, <2>1 DEF Tree
  <2>4. Climb'
    BY <1>1, <1>3, <2>1 DEF Climb, Verifying
  <2>5. Ascent'
    BY <1>1, <1>3, <1>4, <2>1 DEF MInv, Ascent, Verifying
  <2>6. Verdict'
    <3>1. Root' = Root
      BY <1>1 DEF Root
    <3> QED
      BY <1>7, <1>1, <2>1, <3>1 DEF Verdict
  <2> QED
    BY <2>2, <2>3, <2>4, <2>5, <2>6 DEF MInv
<1> QED
  BY <1>2, <1>6, <1>7

LEMMA NextKeepsMInv == MInv /\ [Next]_vars => MInv'
<1> SUFFICES ASSUME MInv, [Next]_vars PROVE MInv'
  OBVIOUS
<1>1. ASSUME NEW vs \in VoteLists, Build(vs) PROVE MInv'
  BY <1>1, BuildKeepsMInv
<1>2. CASE BuildLayer
  BY <1>2, BuildLayerKeepsMInv
<1>3. ASSUME NEW i \in 0..(Len(votes) - 1), GenerateProof(i) PROVE MInv'
  BY <1>3, GenerateProofKeepsMInv
<1>4. CASE GenerateNode
  BY <1>4, GenerateNodeKeepsMInv
<1>5. ASSUME NEW data \in LeafCandidates, NEW p, VerifyProof(data, p) PROVE MInv'
  BY <1>5, VerifyProofKeepsMInv
<1>6. CASE VerifyNode
  BY <1>6, VerifyNodeKeepsMInv
<1>7. CASE UNCHANGED vars
  BY <1>7, ZenonT(40) DEF vars, MInv, Types, Tree, Climb, Ascent, Verdict, Verifying, Verified, Root, Leaves,
              Paths, IsPath
<1> QED
  BY <1>1, <1>2, <1>3, <1>4, <1>5, <1>6, <1>7 DEF Next

LEMMA Invariance == Spec => []MInv
BY InitMInv, NextKeepsMInv, PTL DEF Spec

-----------------------------------------------------------------------------
\* The shape of the layers of a tree that Build makes, for any number of votes.
THEOREM TypeCorrect == Spec => []TypeOK
<1>1. MInv => TypeOK
  <2> SUFFICES ASSUME MInv PROVE TypeOK
    OBVIOUS
  <2>1. Types /\ Tree
    BY DEF MInv
  <2>2. ASSUME NEW k \in 1..Len(layers)
        PROVE  /\ k = 1 => Len(layers[k]) = Len(votes)
               /\ k > 1 => Len(layers[k]) = (Len(layers[k - 1]) + 1) \div 2
               /\ k < Len(layers) => Len(layers[k]) > 1
    <3>1. CASE k = 1
      <4>1. layers # <<>> /\ votes # <<>> /\ votes \in Seq(Votes)
        BY <2>1, <2>2 DEF Types, Tree
      <4> QED
        BY <2>1, <2>2, <3>1, <4>1, LeafLayerIsLayer DEF Tree
    <3>2. CASE k > 1
      <4>1. k - 1 \in 1..Len(layers)
        BY <2>1, <3>2 DEF Types, IsSeq
      <4>2. IsLayer(layers[k - 1]) /\ layers[k] = nextLayer(layers[k - 1])
        BY <2>1, <3>2, <4>1, LayerFacts
      <4>3. Len(layers[k]) = (Len(layers[k - 1]) + 1) \div 2
        BY <4>2, NextLayerIsLayer
      <4>4. k # 1
        BY <3>2
      <4>5. k < Len(layers) => Len(layers[k]) > 1
        BY <2>1 DEF Tree
      <4> QED
        BY <4>3, <4>4, <4>5
    <3>3. k = 1 \/ k > 1
      BY <2>1 DEF Types, IsSeq
    <3> QED
      BY <3>1, <3>2, <3>3
  <2>3. pc \notin {"new", "build"} => Len(layers[Len(layers)]) = 1
    BY <2>1 DEF Tree
  <2>4. pc \in {"prove", "proved"} => Len(proof.Nodes) <= Len(layers) - 1
    BY <2>1 DEF MInv, Ascent, Types, IsSeq
  <2>5. /\ pc \in {"new", "build", "built", "prove", "proved", "verify", "verified"}
        /\ votes \in Seq(Votes) /\ level \in 0..Len(proof.Nodes) /\ accepted \in BOOLEAN
    BY <2>1 DEF Types
  <2> QED
    BY <2>2, <2>3, <2>4, <2>5 DEF TypeOK
<1> QED
  BY <1>1, Invariance, PTL

\* Soundness of VerifyProof for trees of any size and proofs of any length,
\* whatever hashes of the tree the proof is put together from.
THEOREM Soundness == Spec => []AcceptedIsLeaf
<1>1. MInv => AcceptedIsLeaf
  <2> SUFFICES ASSUME MInv, Verified, accepted
               PROVE  leafData \in Leaves /\ Len(proof.Nodes) = Len(layers) - 1
    BY DEF AcceptedIsLeaf
  <2> DEFINE k == Len(layers)
  <2>1. hash = Root /\ level = Len(proof.Nodes)
    BY DEF MInv, Verdict
  <2>2. k \in 1..Len(layers) /\ 1 \in 1..Len(layers[k])
    <3>1. layers # <<>> /\ Len(layers[k]) = 1
      BY DEF MInv, Tree, Verified
    <3>2. k \in Nat \ {0}
      BY <3>1 DEF MInv, Types, IsSeq
    <3> QED
      BY <3>1, <3>2
  <2>3. hash = layers[k][1]
    BY <2>1 DEF Root
  <2>4. leafData \in Leaves /\ level = k - 1
    <3> HIDE DEF k
    <3> QED
      BY <2>2, <2>3 DEF MInv, Climb, Verifying, Verified
  <2> QED
    BY <2>1, <2>4
<1> QED
  BY <1>1, Invariance, PTL

\* Completeness and precision of GenerateProof: its proof is accepted for its
\* leaf and for nothing else, whichever layers of the tree are odd.
THEOREM Completeness == Spec => []ProofFitsItsLeaf
<1>1. MInv => ProofFitsItsLeaf
  <2> SUFFICES ASSUME MInv, Verified, proof.LeafIndex >= 0
               PROVE  accepted <=> leafData = HashVote(votes[proof.LeafIndex + 1])
    BY DEF ProofFitsItsLeaf
  <2> DEFINE k == Len(layers)
  <2>1. (accepted <=> hash = Root) /\ level = Len(proof.Nodes)
    BY DEF MInv, Verdict
  <2>2. /\ k \in Nat \ {0} /\ Len(layers[k]) = 1
        /\ Len(proof.Nodes) = k - 1
    <3>1. layers # <<>> /\ Len(layers[k]) = 1
      BY DEF MInv, Tree, Verified
    <3>2. Len(proof.Nodes) = k - 1
      BY DEF MInv, Ascent, Verifying, Verified
    <3> QED
      BY <3>1, <3>2 DEF MInv, Types, IsSeq
  <2>3. PICK path \in Paths :
            /\ IsPath(path)
            /\ hash = layers[level + 1][path[level + 1] + 1]
                   <=> leafData = HashVote(votes[proof.LeafIndex + 1])
    BY DEF MInv, Ascent, Verifying, Verified
  <2>4. level + 1 = k /\ k \in 1..(Len(proof.Nodes) + 1)
    BY <2>1, <2>2
  <2>5. path[k] = 0
    <3>1. path[k] \in Nat /\ path[k] < Len(layers[k])
      BY <2>3, <2>4 DEF IsPath, Paths
    <3> QED
      BY <2>2, <3>1
  <2>6. Root = layers[level + 1][path[level + 1] + 1]
    BY <2>4, <2>5 DEF Root
  <2> QED
    BY <2>1, <2>3, <2>6
<1> QED
  BY <1>1, Invariance, PTL

-----------------------------------------------------------------------------
\* The bytes HashVote writes for the id and for the other fields.
idBytes(v) == [i \in 1..Len(v.validatorID) |-> <<"text", v.validatorID[i]>>]

fieldBytes(v) ==
    << <<"text", v.verdict>>, <<"float64", v.confidence>>,
       <<"float64", v.domainReputation>>, <<"float64", v.biasCoefficient>> >>

LEMMA VoteBytes ==
    ASSUME NEW v \in Votes
    PROVE  /\ Len(v.validatorID) \in Nat
           /\ Len(idBytes(v) \o fieldBytes(v)) = Len(v.validatorID) + 4
           /\ \A i \in 1..Len(v.validatorID) : (idBytes(v) \o fieldBytes(v))[i] = idBytes(v)[i]
           /\ \A i \in 1..4 :
                  (idBytes(v) \o fieldBytes(v))[Len(v.validatorID) + i] = fieldBytes(v)[i]
<1> DEFINE t == idBytes(v)
           m == Len(v.validatorID)
<1>1. v.validatorID \in Seq(STRING) /\ m \in Nat
  BY VotesAssumption
<1>2. Len(t) = m /\ t = [i \in 1..m |-> t[i]]
  BY <1>1 DEF idBytes
<1>3. t \in Seq({t[i] : i \in 1..Len(t)})
  <2> HIDE DEF t, m
  <2> QED
    BY <1>1, <1>2
<1>4. \A a, b, c, d : IsSeq(<<a, b, c, d>>) /\ Len(<<a, b, c, d>>) = 4
  BY DEF IsSeq
<1>5. IsSeq(fieldBytes(v)) /\ Len(fieldBytes(v)) = 4 /\ IsSeq(idBytes(v))
  BY <1>3, <1>4 DEF fieldBytes, IsSeq
<1> DEFINE u == fieldBytes(v)
<1>6. /\ Len(t \o u) = Len(t) + Len(u)
      /\ \A i \in 1..Len(t) : (t \o u)[i] = t[i]
      /\ \A i \in 1..Len(u) : (t \o u)[Len(t) + i] = u[i]
  <2>1. IsSeq(t) /\ IsSeq(u)
    BY <1>5
  <2> HIDE DEF t, u
  <2> QED
    BY ONLY <2>1, ConcatIsSeq
<1> HIDE DEF t, u, m
<1> QED
  BY <1>1, <1>2, <1>5, <1>6 DEF t, u, m

\* HashVote commits to every field of a vote: the fixed fields follow the id, so
\* ids with any number of separators are told apart.
LEMMA HashVoteInjective ==
    ASSUME NEW v \in Votes, NEW w \in Votes, HashVote(v) = HashVote(w)
    PROVE  v = w
<1> DEFINE n == Len(v.validatorID)
<1>1. idBytes(v) \o fieldBytes(v) = idBytes(w) \o fieldBytes(w)
  BY DEF HashVote, sha256, idBytes, fieldBytes
<1>2. n = Len(w.validatorID) /\ n \in Nat
  BY <1>1, VoteBytes
<1>3. v.validatorID = w.validatorID
  <2>1. ASSUME NEW i \in 1..n
        PROVE  v.validatorID[i] = w.validatorID[i]
    <3>1. idBytes(v)[i] = idBytes(w)[i]
      <4>1. (idBytes(v) \o fieldBytes(v))[i] = idBytes(v)[i]
        BY VoteBytes
      <4>2. (idBytes(w) \o fieldBytes(w))[i] = idBytes(w)[i]
        BY <1>2, VoteBytes
      <4> QED
        BY <1>1, <4>1, <4>2
    <3>2. <<"text", v.validatorID[i]>> = <<"text", w.validatorID[i]>>
      BY <1>2, <3>1 DEF idBytes
    <3> QED
      BY <3>2
  <2>2. v.validatorID \in Seq(STRING) /\ w.validatorID \in Seq(STRING)
    BY VotesAssumption
  <2> QED
    BY <1>2, <2>1, <2>2, SeqEqual
<1>4. ASSUME NEW i \in 1..4
      PROVE  fieldBytes(v)[i] = fieldBytes(w)[i]
  <2>1. (idBytes(v) \o fieldBytes(v))[n + i] = fieldBytes(v)[i]
    BY VoteBytes
  <2>2. (idBytes(w) \o fieldBytes(w))[n + i] = fieldBytes(w)[i]
    BY <1>2, VoteBytes
  <2> QED
    BY <1>1, <2>1, <2>2
<1>5. /\ fieldBytes(v)[1] = fieldBytes(w)[1] /\ fieldBytes(v)[2] = fieldBytes(w)[2]
      /\ fieldBytes(v)[3] = fieldBytes(w)[3] /\ fieldBytes(v)[4] = fieldBytes(w)[4]
  BY <1>4
<1>6. /\ v.verdict = w.verdict /\ v.confidence = w.confidence
      /\ v.domainReputation = w.domainReputation /\ v.biasCoefficient = w.biasCoefficient
  BY <1>5 DEF fieldBytes
<1>7. /\ v = [validatorID |-> v.validatorID, verdict |-> v.verdict, confidence |-> v.confidence,
              domainReputation |-> v.domainReputation, biasCoefficient |-> v.biasCoefficient]
      /\ w = [validatorID |-> w.validatorID, verdict |-> w.verdict, confidence |-> w.confidence,
              domainReputation |-> w.domainReputation, biasCoefficient |-> w.biasCoefficient]
  BY VotesAssumption
<1> QED
  BY <1>3, <1>6, <1>7

\* The root commits to the votes, for any number of them.
THEOREM Commitment == Spec => []AcceptedVoteWasCast
<1>1. MInv /\ AcceptedIsLeaf => AcceptedVoteWasCast
  <2> SUFFICES ASSUME MInv, AcceptedIsLeaf, Verified, accepted,
                      NEW v \in Votes, leafData = HashVote(v)
               PROVE  v \in Range(votes)
    BY DEF AcceptedVoteWasCast
  <2>1. PICK i \in 1..Len(votes) : leafData = HashVote(votes[i])
    BY DEF AcceptedIsLeaf, Leaves
  <2>2. votes \in Seq(Votes) /\ votes[i] \in Votes /\ i \in DOMAIN votes
    BY DEF MInv, Types
  <2>3. v = votes[i]
    BY <2>1, <2>2, HashVoteInjective
  <2> QED
    BY <2>2, <2>3 DEF Range
<1> QED
  BY <1>1, Invariance, Soundness, PTL

-----------------------------------------------------------------------------
\* Put keeps every other key.
LEMMA PutKeeps ==
    ASSUME NEW f, NEW k, NEW x, NEW j \in DOMAIN f, j # k
    PROVE  j \in DOMAIN Put(f, k, x) /\ Put(f, k, x)[j] = f[j]
BY DEF Put

\* One step of the chain keeps what exists: what a registry confirms is neither
\* replaced nor lost.
Kept ==
    /\ \A k \in DOMAIN claims :
           claimExists(k) => k \in DOMAIN claims' /\ claims'[k] = claims[k]
    /\ \A k \in DOMAIN validations :
           validationExists(k) => k \in DOMAIN validations' /\ validations'[k] = validations[k]

LEMMA NextKeeps == ASSUME ChainNext PROVE Kept
<1>1. ASSUME NEW r \in ClaimRecords, registerClaim(r)
      PROVE  Kept
  <2> DEFINE key == keccak256(r.claimID)
  <2>1. /\ ~claimExists(key)
        /\ claims' = Put(claims, key, r)
        /\ UNCHANGED validations
    BY <1>1 DEF registerClaim
  <2>2. ASSUME NEW k \in DOMAIN claims, claimExists(k)
        PROVE  k \in DOMAIN claims' /\ claims'[k] = claims[k]
    <3>1. k # key
      BY <2>1, <2>2
    <3> HIDE DEF key
    <3> QED
      BY <2>1, <3>1, PutKeeps
  <2> QED
    BY <2>1, <2>2 DEF Kept
<1>2. ASSUME NEW r \in ValidationRecords, recordValidation(r)
      PROVE  Kept
  <2> DEFINE key == keccak256(r.claimID)
  <2>1. /\ ~validationExists(key)
        /\ validations' = Put(validations, key, r)
        /\ UNCHANGED claims
    BY <1>2 DEF recordValidation
  <2>2. ASSUME NEW k \in DOMAIN validations, validationExists(k)
        PROVE  k \in DOMAIN validations' /\ validations'[k] = validations[k]
    <3>1. k # key
      BY <2>1, <2>2
    <3> HIDE DEF key
    <3> QED
      BY <2>1, <3>1, PutKeeps
  <2> QED
    BY <2>1, <2>2 DEF Kept
<1>3. ASSUME NEW r \in ReputationRecords, updateReputation(r)
      PROVE  Kept
  BY <1>3 DEF updateReputation, Kept
<1> QED
  BY <1>1, <1>2, <1>3 DEF ChainNext

\* The registries are write-once for what exists() confirms, in every behaviour:
\* registerClaim and recordValidation revert for a key with a timestamp.
THEOREM Permanence == ChainSpec => RegisteredIsPermanent
<1>1. [ChainNext]_chainVars => [Kept]_chainVars
  BY NextKeeps
<1> QED
  BY <1>1, PTL DEF ChainSpec, RegisteredIsPermanent, Kept

-----------------------------------------------------------------------------
Sequence(es) == \E S : es \in Seq(S)

LEMMA SequenceGrows ==
    ASSUME NEW es, Sequence(es), NEW ev
    PROVE  /\ Len(es) \in Nat
           /\ Sequence(Append(es, ev))
           /\ Len(Append(es, ev)) = Len(es) + 1
           /\ Append(es, ev)[Len(es) + 1] = ev
           /\ \A i \in 1..Len(es) : Append(es, ev)[i] = es[i]
<1>1. PICK S : es \in Seq(S)
  BY DEF Sequence
<1> DEFINE T == S \cup {ev}
<1>2. es \in Seq(T) /\ ev \in T
  <2>1. Len(es) \in Nat /\ es \in [1..Len(es) -> S]
    BY <1>1
  <2>2. es \in [1..Len(es) -> T]
    BY <2>1
  <2> QED
    BY <2>1, <2>2
<1> HIDE DEF T
<1> QED
  BY <1>2, AppendProperties DEF Sequence

LEMMA EmitType ==
    ASSUME Sequence(events), NEW ev, emit(ev)
    PROVE  /\ events' = Append(events, ev) /\ Sequence(events')
           /\ Len(events') \in 0..MaxEvents
BY SequenceGrows, EventsBound DEF emit

LEMMA ClaimType ==
    ASSUME Sequence(events), ChainTypeOK, NEW r \in ClaimRecords, registerClaim(r)
    PROVE  ChainTypeOK'
<1> DEFINE key == keccak256(r.claimID)
<1>1. claims' = Put(claims, key, r) /\ validations' = validations /\ reputation' = reputation
  BY DEF registerClaim
<1>2. key = <<"keccak256", r.claimID>>
  BY DEF keccak256
<1>3. Len(events') \in 0..MaxEvents
  BY EmitType DEF registerClaim
<1> HIDE DEF key
<1>4. ASSUME NEW k \in DOMAIN claims'
      PROVE  claims'[k] \in ClaimRecords /\ k = <<"keccak256", claims'[k].claimID>>
  <2>1. \/ k = key /\ claims'[k] = r
        \/ k \in DOMAIN claims /\ claims'[k] = claims[k]
    BY <1>1 DEF Put
  <2> QED
    BY <1>2, <2>1, Zenon DEF ChainTypeOK
<1> QED
  BY <1>1, <1>3, <1>4 DEF ChainTypeOK

LEMMA ValidationType ==
    ASSUME Sequence(events), ChainTypeOK, NEW r \in ValidationRecords, recordValidation(r)
    PROVE  ChainTypeOK'
<1> DEFINE key == keccak256(r.claimID)
<1>1. validations' = Put(validations, key, r) /\ claims' = claims /\ reputation' = reputation
  BY DEF recordValidation
<1>2. key = <<"keccak256", r.claimID>>
  BY DEF keccak256
<1>3. Len(events') \in 0..MaxEvents
  BY EmitType DEF recordValidation
<1> HIDE DEF key
<1>4. ASSUME NEW k \in DOMAIN validations'
      PROVE  validations'[k] \in ValidationRecords /\ k = <<"keccak256", validations'[k].claimID>>
  <2>1. \/ k = key /\ validations'[k] = r
        \/ k \in DOMAIN validations /\ validations'[k] = validations[k]
    BY <1>1 DEF Put
  <2> QED
    BY <1>2, <2>1, Zenon DEF ChainTypeOK
<1> QED
  BY <1>1, <1>3, <1>4 DEF ChainTypeOK

LEMMA ReputationType ==
    ASSUME Sequence(events), ChainTypeOK, NEW r \in ReputationRecords, updateReputation(r)
    PROVE  ChainTypeOK'
<1> DEFINE key == reputationKey(r.validatorID, r.domain)
<1>1. reputation' = Put(reputation, key, r) /\ claims' = claims /\ validations' = validations
  BY DEF updateReputation
<1>2. key = <<"keccak256", r.validatorID \o r.domain>>
  BY DEF keccak256, reputationKey
<1>3. Len(events') \in 0..MaxEvents
  BY EmitType DEF updateReputation
<1> HIDE DEF key
<1>4. ASSUME NEW k \in DOMAIN reputation'
      PROVE  /\ reputation'[k] \in ReputationRecords
             /\ k = <<"keccak256", reputation'[k].validatorID \o reputation'[k].domain>>
  <2>1. \/ k = key /\ reputation'[k] = r
        \/ k \in DOMAIN reputation /\ reputation'[k] = reputation[k]
    BY <1>1 DEF Put
  <2> QED
    BY <1>2, <2>1, Zenon DEF ChainTypeOK
<1> QED
  BY <1>1, <1>3, <1>4 DEF ChainTypeOK

LEMMA InitType == ChainInit => Sequence(events) /\ ChainTypeOK
<1> SUFFICES ASSUME ChainInit PROVE Sequence(events) /\ ChainTypeOK
  OBVIOUS
<1>1. events \in Seq({}) /\ Len(events) = 0
  BY DEF ChainInit
<1> QED
  BY <1>1, EventsBound DEF ChainInit, ChainTypeOK, Sequence

LEMMA NextType ==
    Sequence(events) /\ ChainTypeOK /\ [ChainNext]_chainVars => Sequence(events)' /\ ChainTypeOK'
<1> SUFFICES ASSUME Sequence(events), ChainTypeOK, [ChainNext]_chainVars
             PROVE  Sequence(events)' /\ ChainTypeOK'
  OBVIOUS
<1>1. ASSUME NEW r \in ClaimRecords, registerClaim(r)
      PROVE  Sequence(events') /\ ChainTypeOK'
  BY <1>1, ClaimType, EmitType DEF registerClaim
<1>2. ASSUME NEW r \in ValidationRecords, recordValidation(r)
      PROVE  Sequence(events') /\ ChainTypeOK'
  BY <1>2, ValidationType, EmitType DEF recordValidation
<1>3. ASSUME NEW r \in ReputationRecords, updateReputation(r)
      PROVE  Sequence(events') /\ ChainTypeOK'
  BY <1>3, ReputationType, EmitType DEF updateReputation
<1>4. CASE UNCHANGED chainVars
  BY <1>4 DEF chainVars, ChainTypeOK
<1> QED
  BY <1>1, <1>2, <1>3, <1>4 DEF ChainNext

LEMMA Typed == ChainSpec => [](Sequence(events) /\ ChainTypeOK)
BY InitType, NextType, PTL DEF ChainSpec

\* Every record on the chain was sent, field for field, and is under the hash of
\* its own ids, for any transactions in any order: the one way to another's
\* place is to have ids that encodePacked makes equal.
THEOREM ChainTypeCorrect == ChainSpec => []ChainTypeOK
BY Typed, PTL

-----------------------------------------------------------------------------
\* The positions that Latest takes the maximum of, in a sequence of events.
Hits(es, kind, key, n) ==
    {0} \cup {i \in 1..n : es[i].event = kind /\ es[i].key = key}

LatestIn(es, kind, key, n) == Max(Hits(es, kind, key, n))

ReplayedIn(es, key, n) ==
    LET i == LatestIn(es, "ReputationUpdated", key, n)
    IN  IF i = 0 THEN 0 ELSE es[i].newScore

\* fs is es and one more event.
OneMore(es, ev, fs) == Sequence(es) /\ fs = Append(es, ev)

LEMMA LatestIsHit ==
    ASSUME NEW es, NEW kind, NEW key, NEW n \in Nat
    PROVE  /\ LatestIn(es, kind, key, n) \in Hits(es, kind, key, n)
           /\ \A i \in Hits(es, kind, key, n) : i <= LatestIn(es, kind, key, n)
           /\ LatestIn(es, kind, key, n) \in 0..n
<1> DEFINE H == Hits(es, kind, key, n)
<1>1. H \subseteq 0..n /\ H \in SUBSET Int /\ H # {}
  BY DEF Hits
<1>2. IsFiniteSet(0..n)
  BY FS_Interval
<1>3. IsFiniteSet(H)
  BY <1>1, <1>2, FS_Subset
<1> HIDE DEF H
<1>4. Max(H) \in H /\ \A i \in H : i <= Max(H)
  BY <1>1, <1>3, Extremes
<1> QED
  BY <1>1, <1>4 DEF LatestIn, H

\* One more event changes nothing for a reader of the events before it.
LEMMA LatestBefore ==
    ASSUME NEW es, NEW ev, NEW fs, NEW kind, NEW key, OneMore(es, ev, fs), NEW n \in 0..Len(es)
    PROVE  LatestIn(fs, kind, key, n) = LatestIn(es, kind, key, n)
<1>1. \A i \in 1..Len(es) : fs[i] = es[i]
  BY SequenceGrows DEF OneMore
<1>2. Len(es) \in Nat
  BY SequenceGrows DEF OneMore
<1>3. \A i \in 1..n : fs[i] = es[i]
  BY <1>1, <1>2
<1>4. Hits(fs, kind, key, n) = Hits(es, kind, key, n)
  BY <1>3 DEF Hits
<1> QED
  BY <1>4 DEF LatestIn

\* At the end it changes only the answer about its own kind and key.
LEMMA LatestAtEnd ==
    ASSUME NEW es, NEW ev, NEW fs, NEW kind, NEW key, OneMore(es, ev, fs)
    PROVE  LatestIn(fs, kind, key, Len(es) + 1) =
               IF ev.event = kind /\ ev.key = key
               THEN Len(es) + 1 ELSE LatestIn(es, kind, key, Len(es))
<1> DEFINE hit == ev.event = kind /\ ev.key = key
           m == Len(es)
<1>1. /\ m \in Nat /\ fs[m + 1] = ev
      /\ \A i \in 1..m : fs[i] = es[i]
  BY SequenceGrows DEF OneMore
<1> HIDE DEF m
<1>2. CASE ~hit
  <2>1. Hits(fs, kind, key, m + 1) = Hits(es, kind, key, m)
    <3>1. \A i \in 1..(m + 1) : i \in 1..m \/ i = m + 1
      BY <1>1
    <3>2. \A i \in 1..m : i \in 1..(m + 1)
      BY <1>1
    <3> QED
      BY <1>1, <1>2, <3>1, <3>2 DEF Hits
  <2>2. LatestIn(fs, kind, key, m + 1) = LatestIn(es, kind, key, m)
    BY <2>1 DEF LatestIn
  <2> QED
    BY <1>2, <2>2 DEF m
<1>3. CASE hit
  <2>1. m + 1 \in Hits(fs, kind, key, m + 1)
    BY <1>1, <1>3 DEF Hits
  <2>2. LatestIn(fs, kind, key, m + 1) = m + 1
    BY <1>1, <2>1, LatestIsHit
  <2> QED
    BY <1>3, <2>2 DEF m
<1> QED
  BY <1>2, <1>3

LEMMA ReplayedBefore ==
    ASSUME NEW es, NEW ev, NEW fs, NEW key, OneMore(es, ev, fs), NEW n \in 0..Len(es)
    PROVE  ReplayedIn(fs, key, n) = ReplayedIn(es, key, n)
<1> DEFINE i == LatestIn(es, "ReputationUpdated", key, n)
<1>1. Len(es) \in Nat /\ \A j \in 1..Len(es) : fs[j] = es[j]
  BY SequenceGrows DEF OneMore
<1>2. LatestIn(fs, "ReputationUpdated", key, n) = i
  BY LatestBefore
<1>3. i \in 0..n
  BY <1>1, LatestIsHit
<1> HIDE DEF i
<1>4. i # 0 => fs[i] = es[i]
  BY <1>1, <1>3
<1> QED
  BY <1>2, <1>4 DEF ReplayedIn, i

LEMMA ReplayedAtEnd ==
    ASSUME NEW es, NEW ev, NEW fs, NEW key, OneMore(es, ev, fs)
    PROVE  ReplayedIn(fs, key, Len(es) + 1) =
               IF ev.event = "ReputationUpdated" /\ ev.key = key
               THEN ev.newScore ELSE ReplayedIn(es, key, Len(es))
<1> DEFINE hit == ev.event = "ReputationUpdated" /\ ev.key = key
           m == Len(es)
           i == LatestIn(es, "ReputationUpdated", key, m)
<1>1. m \in Nat /\ fs[m + 1] = ev /\ \A j \in 1..m : fs[j] = es[j]
  BY SequenceGrows DEF OneMore
<1>2. LatestIn(fs, "ReputationUpdated", key, m + 1) = IF hit THEN m + 1 ELSE i
  BY LatestAtEnd
<1>3. i \in 0..m
  BY <1>1, LatestIsHit
<1> HIDE DEF i, m
<1>4. (i # 0 => fs[i] = es[i]) /\ m + 1 # 0
  BY <1>1, <1>3
<1>5. CASE hit
  BY <1>1, <1>2, <1>4, <1>5 DEF ReplayedIn, m
<1>6. CASE ~hit
  BY <1>2, <1>4, <1>6 DEF ReplayedIn, i, m
<1> QED
  BY <1>5, <1>6

\* The parts of EventsReplay.  The one about scores is of every key: an event
\* about a key that ReputationStore never wrote would give a later update the
\* wrong predecessor.
VerdictsReplay(es, vs) ==
    \A k \in DOMAIN vs :
        /\ LatestIn(es, "ValidationFinalized", k, Len(es)) # 0
        /\ es[LatestIn(es, "ValidationFinalized", k, Len(es))].verdict = vs[k].verdict

ScoreIn(rs, k) == IF k \in DOMAIN rs THEN rs[k].score ELSE 0

ScoresReplay(es, rs) ==
    /\ \A k \in DOMAIN rs : LatestIn(es, "ReputationUpdated", k, Len(es)) # 0
    /\ \A k : ReplayedIn(es, k, Len(es)) = ScoreIn(rs, k)

Linked(es) ==
    \A i \in 1..Len(es) :
        es[i].event = "ReputationUpdated" => es[i].oldScore = ReplayedIn(es, es[i].key, i - 1)

\* An update is announced under the hash of the ids it carries.
Keyed(es) ==
    \A i \in 1..Len(es) :
        es[i].event = "ReputationUpdated" =>
            es[i].key = reputationKey(es[i].validatorID, es[i].domain)

\* The inductive invariant for EventsReplay.
AInv ==
    /\ Sequence(events)
    /\ VerdictsReplay(events, validations)
    /\ ScoresReplay(events, reputation)
    /\ Linked(events)
    /\ Keyed(events)

\* The first two are kept by an event that is not about them.
LEMMA OtherEventKeepsVerdicts ==
    ASSUME NEW es, NEW ev, NEW fs, OneMore(es, ev, fs), NEW vs, VerdictsReplay(es, vs),
           ev.event # "ValidationFinalized"
    PROVE  VerdictsReplay(fs, vs)
<1> SUFFICES ASSUME NEW k \in DOMAIN vs
             PROVE  /\ LatestIn(fs, "ValidationFinalized", k, Len(fs)) # 0
                    /\ fs[LatestIn(fs, "ValidationFinalized", k, Len(fs))].verdict = vs[k].verdict
  BY DEF VerdictsReplay
<1> DEFINE i == LatestIn(es, "ValidationFinalized", k, Len(es))
<1>1. Len(es) \in Nat /\ Len(fs) = Len(es) + 1 /\ \A j \in 1..Len(es) : fs[j] = es[j]
  BY SequenceGrows DEF OneMore
<1>2. LatestIn(fs, "ValidationFinalized", k, Len(es) + 1) = i
  BY LatestAtEnd
<1>3. i # 0 /\ es[i].verdict = vs[k].verdict
  BY DEF VerdictsReplay
<1>4. i \in 0..Len(es)
  BY <1>1, LatestIsHit
<1> HIDE DEF i
<1>5. fs[i] = es[i]
  BY <1>1, <1>3, <1>4
<1> QED
  BY <1>1, <1>2, <1>3, <1>5

LEMMA OtherEventKeepsScores ==
    ASSUME NEW es, NEW ev, NEW fs, OneMore(es, ev, fs), NEW rs, ScoresReplay(es, rs),
           ev.event # "ReputationUpdated"
    PROVE  ScoresReplay(fs, rs)
<1>1. Len(fs) = Len(es) + 1
  BY SequenceGrows DEF OneMore
<1>2. \A k : LatestIn(fs, "ReputationUpdated", k, Len(es) + 1) =
                 LatestIn(es, "ReputationUpdated", k, Len(es))
  BY LatestAtEnd
<1>3. \A k : ReplayedIn(fs, k, Len(es) + 1) = ReplayedIn(es, k, Len(es))
  BY ReplayedAtEnd
<1> QED
  BY <1>1, <1>2, <1>3 DEF ScoresReplay

\* The trail stays linked if the event carries the score it replaces.
LEMMA EventLinks ==
    ASSUME NEW es, NEW ev, NEW fs, OneMore(es, ev, fs), Linked(es),
           ev.event = "ReputationUpdated" => ev.oldScore = ReplayedIn(es, ev.key, Len(es))
    PROVE  Linked(fs)
<1>1. /\ Len(es) \in Nat /\ Len(fs) = Len(es) + 1 /\ fs[Len(es) + 1] = ev
      /\ \A j \in 1..Len(es) : fs[j] = es[j]
  BY SequenceGrows DEF OneMore
<1> SUFFICES ASSUME NEW i \in 1..Len(fs), fs[i].event = "ReputationUpdated"
             PROVE  fs[i].oldScore = ReplayedIn(fs, fs[i].key, i - 1)
  BY DEF Linked
<1>2. i - 1 \in 0..Len(es)
  BY <1>1
<1>3. ReplayedIn(fs, fs[i].key, i - 1) = ReplayedIn(es, fs[i].key, i - 1)
  BY <1>2, ReplayedBefore
<1>4. CASE i = Len(es) + 1
  <2>1. fs[i] = ev /\ i - 1 = Len(es)
    BY <1>1, <1>4
  <2> QED
    BY <1>3, <2>1
<1>5. CASE i # Len(es) + 1
  <2>1. i \in 1..Len(es) /\ fs[i] = es[i]
    BY <1>1, <1>5
  <2> QED
    BY <1>3, <2>1 DEF Linked
<1> QED
  BY <1>4, <1>5

LEMMA EventKeyed ==
    ASSUME NEW es, NEW ev, NEW fs, OneMore(es, ev, fs), Keyed(es),
           ev.event = "ReputationUpdated" => ev.key = reputationKey(ev.validatorID, ev.domain)
    PROVE  Keyed(fs)
<1>1. /\ Len(es) \in Nat /\ Len(fs) = Len(es) + 1 /\ fs[Len(es) + 1] = ev
      /\ \A j \in 1..Len(es) : fs[j] = es[j]
  BY SequenceGrows DEF OneMore
<1>2. \A i \in 1..Len(fs) : fs[i] = ev \/ (i \in 1..Len(es) /\ fs[i] = es[i])
  BY <1>1
<1> QED
  BY <1>2 DEF Keyed

\* Ids with one key have one concatenation: keccak256 is ideal.
LEMMA OnePlace ==
    ASSUME NEW e, NEW f,
           reputationKey(e.validatorID, e.domain) = reputationKey(f.validatorID, f.domain)
    PROVE  SamePlace(e, f)
<1> DEFINE a == e.validatorID \o e.domain
           b == f.validatorID \o f.domain
<1>1. <<"keccak256", a>> = <<"keccak256", b>>
  BY DEF reputationKey, keccak256
<1> HIDE DEF a, b
<1>2. a = b
  BY <1>1
<1> QED
  BY <1>2 DEF a, b, SamePlace

\* What getScore answers for the pair of an update is its score, or a later
\* update went to the same place.
LEMMA PairReads ==
    ASSUME NEW es, NEW rs, Sequence(es), ScoresReplay(es, rs), Keyed(es),
           NEW i \in 1..Len(es), es[i].event = "ReputationUpdated"
    PROVE  \/ ScoreIn(rs, reputationKey(es[i].validatorID, es[i].domain)) = es[i].newScore
           \/ \E j \in i + 1..Len(es) :
                  es[j].event = "ReputationUpdated" /\ SamePlace(es[i], es[j])
<1> DEFINE n == Len(es)
           k == es[i].key
           l == LatestIn(es, "ReputationUpdated", k, n)
<1>1. n \in Nat
  BY SequenceGrows
<1>2. k = reputationKey(es[i].validatorID, es[i].domain)
  BY DEF Keyed
<1>3. ReplayedIn(es, k, n) = ScoreIn(rs, k)
  BY DEF ScoresReplay
<1>4. /\ l \in Hits(es, "ReputationUpdated", k, n)
      /\ \A j \in Hits(es, "ReputationUpdated", k, n) : j <= l
      /\ l \in 0..n
  BY <1>1, LatestIsHit
<1>5. i \in Hits(es, "ReputationUpdated", k, n)
  BY DEF Hits
<1>6. l \in i..n
  BY <1>1, <1>4, <1>5
<1>7. es[l].event = "ReputationUpdated" /\ es[l].key = k
  BY <1>4, <1>6 DEF Hits
<1>8. ScoreIn(rs, k) = es[l].newScore
  BY <1>3, <1>6 DEF ReplayedIn
<1>9. CASE l = i
  BY <1>2, <1>8, <1>9
<1>10. CASE l # i
  <2>1. l \in i + 1..n
    BY <1>1, <1>6, <1>10
  <2>2. es[l].key = reputationKey(es[l].validatorID, es[l].domain)
    BY <1>1, <1>6, <1>7 DEF Keyed
  <2> HIDE DEF l
  <2>3. reputationKey(es[i].validatorID, es[i].domain) =
            reputationKey(es[l].validatorID, es[l].domain)
    BY <1>2, <1>7, <2>2
  <2>4. SamePlace(es[i], es[l])
    BY <2>3, OnePlace
  <2> QED
    BY <1>7, <2>1, <2>4
<1> QED
  BY <1>9, <1>10

LEMMA ClaimReplays ==
    ASSUME AInv, NEW r \in ClaimRecords, registerClaim(r)
    PROVE  AInv'
<1>1. validations' = validations /\ reputation' = reputation
  BY DEF registerClaim
<1>2. PICK ev : emit(ev) /\ ev.event = "ClaimRegistered"
  BY DEF registerClaim
<1>3. OneMore(events, ev, events') /\ Sequence(events')
  BY <1>2, EmitType DEF AInv, OneMore
<1>4. VerdictsReplay(events', validations)
  BY <1>2, <1>3, OtherEventKeepsVerdicts DEF AInv
<1>5. ScoresReplay(events', reputation)
  BY <1>2, <1>3, OtherEventKeepsScores DEF AInv
<1>6. Linked(events')
  BY <1>2, <1>3, EventLinks DEF AInv
<1>7. Keyed(events')
  BY <1>2, <1>3, EventKeyed DEF AInv
<1> QED
  BY <1>1, <1>3, <1>4, <1>5, <1>6, <1>7 DEF AInv

LEMMA ValidationReplays ==
    ASSUME AInv, NEW r \in ValidationRecords, recordValidation(r)
    PROVE  AInv'
<1> DEFINE key == keccak256(r.claimID)
<1>1. validations' = Put(validations, key, r) /\ reputation' = reputation
  BY DEF recordValidation
<1>2. PICK ev : /\ emit(ev) /\ ev.event = "ValidationFinalized"
                /\ ev.key = key /\ ev.verdict = r.verdict
  BY DEF recordValidation
<1>3. OneMore(events, ev, events') /\ Sequence(events')
  BY <1>2, EmitType DEF AInv, OneMore
<1> HIDE DEF key
<1>4. ASSUME NEW k \in DOMAIN validations'
      PROVE  LET i == LatestIn(events', "ValidationFinalized", k, Len(events'))
             IN  i # 0 /\ events'[i].verdict = validations'[k].verdict
  <2> DEFINE m == Len(events)
             i == LatestIn(events, "ValidationFinalized", k, m)
  <2>1. /\ m \in Nat /\ Len(events') = m + 1 /\ events'[m + 1] = ev
        /\ \A j \in 1..m : events'[j] = events[j]
    BY <1>3, SequenceGrows DEF OneMore
  <2>2. LatestIn(events', "ValidationFinalized", k, m + 1) = IF k = key THEN m + 1 ELSE i
    <3>1. LatestIn(events', "ValidationFinalized", k, m + 1) =
              IF ev.event = "ValidationFinalized" /\ ev.key = k THEN m + 1 ELSE i
      BY <1>3, LatestAtEnd
    <3> QED
      BY <1>2, <3>1
  <2>3. CASE k = key
    <3>1. validations'[k] = r
      BY <1>1, <2>3 DEF Put
    <3>2. m + 1 # 0
      BY <2>1
    <3> HIDE DEF m
    <3> QED
      BY <1>2, <2>1, <2>2, <2>3, <3>1, <3>2
  <2>4. CASE k # key
    <3>1. k \in DOMAIN validations /\ validations'[k] = validations[k]
      BY <1>1, <2>4 DEF Put
    <3>2. i # 0 /\ events[i].verdict = validations[k].verdict
      BY <3>1 DEF AInv, VerdictsReplay
    <3>3. i \in 0..m
      BY <2>1, LatestIsHit
    <3> HIDE DEF m, i
    <3>4. events'[i] = events[i]
      BY <2>1, <3>2, <3>3
    <3> QED
      BY <2>1, <2>2, <2>4, <3>1, <3>2, <3>4
  <2> QED
    BY <2>3, <2>4
<1>5. VerdictsReplay(events', validations')
  BY <1>4 DEF VerdictsReplay
<1>6. ScoresReplay(events', reputation)
  BY <1>2, <1>3, OtherEventKeepsScores DEF AInv
<1>7. Linked(events')
  BY <1>2, <1>3, EventLinks DEF AInv
<1>8. Keyed(events')
  BY <1>2, <1>3, EventKeyed DEF AInv
<1> QED
  BY <1>1, <1>3, <1>5, <1>6, <1>7, <1>8 DEF AInv

LEMMA ReputationReplays ==
    ASSUME AInv, NEW r \in ReputationRecords, updateReputation(r)
    PROVE  AInv'
<1> DEFINE key == reputationKey(r.validatorID, r.domain)
<1>1. reputation' = Put(reputation, key, r) /\ validations' = validations
  BY DEF updateReputation
<1>2. PICK ev : /\ emit(ev) /\ ev.event = "ReputationUpdated" /\ ev.key = key
                /\ ev.validatorID = r.validatorID /\ ev.domain = r.domain
                /\ ev.oldScore = score(key) /\ ev.newScore = r.score
  BY DEF updateReputation
<1>3. OneMore(events, ev, events') /\ Sequence(events')
  BY <1>2, EmitType DEF AInv, OneMore
<1>10. Keyed(events')
  BY <1>2, <1>3, EventKeyed DEF AInv
<1> HIDE DEF key
<1>4. Len(events) \in Nat /\ Len(events') = Len(events) + 1
  BY <1>3, SequenceGrows DEF OneMore
<1>5. VerdictsReplay(events', validations)
  BY <1>2, <1>3, OtherEventKeepsVerdicts DEF AInv
<1>6. Linked(events')
  <2>1. ev.oldScore = ReplayedIn(events, ev.key, Len(events))
    BY <1>2 DEF AInv, ScoresReplay, ScoreIn, score
  <2> QED
    BY <1>3, <2>1, EventLinks DEF AInv
<1>7. \A k \in DOMAIN reputation' : LatestIn(events', "ReputationUpdated", k, Len(events')) # 0
  <2>1. \A k : LatestIn(events', "ReputationUpdated", k, Len(events) + 1) =
                   IF k = key THEN Len(events) + 1
                   ELSE LatestIn(events, "ReputationUpdated", k, Len(events))
    <3>1. \A k : LatestIn(events', "ReputationUpdated", k, Len(events) + 1) =
                     IF ev.event = "ReputationUpdated" /\ ev.key = k THEN Len(events) + 1
                     ELSE LatestIn(events, "ReputationUpdated", k, Len(events))
      BY <1>3, LatestAtEnd
    <3> QED
      BY <1>2, <3>1
  <2>2. \A k \in DOMAIN reputation' : k = key \/ k \in DOMAIN reputation
    BY <1>1 DEF Put
  <2>3. Len(events) + 1 # 0
    BY <1>4
  <2> QED
    BY <1>4, <2>1, <2>2, <2>3 DEF AInv, ScoresReplay
<1>8. ASSUME NEW k PROVE ReplayedIn(events', k, Len(events')) = ScoreIn(reputation', k)
  <2>1. ReplayedIn(events', k, Len(events) + 1) =
            IF k = key THEN r.score ELSE ReplayedIn(events, k, Len(events))
    <3>1. ReplayedIn(events', k, Len(events) + 1) =
              IF ev.event = "ReputationUpdated" /\ ev.key = k
              THEN ev.newScore ELSE ReplayedIn(events, k, Len(events))
      BY <1>3, ReplayedAtEnd
    <3> QED
      BY <1>2, <3>1
  <2>2. ScoreIn(reputation', k) = IF k = key THEN r.score ELSE ScoreIn(reputation, k)
    BY <1>1 DEF Put, ScoreIn
  <2> QED
    BY <1>4, <2>1, <2>2 DEF AInv, ScoresReplay
<1>9. ScoresReplay(events', reputation')
  BY <1>7, <1>8 DEF ScoresReplay
<1> QED
  BY <1>1, <1>3, <1>5, <1>6, <1>9, <1>10 DEF AInv

\* The audit trail: whatever is sent, repeated or reordered, the events of the
\* contracts replay to the verdicts and scores the contracts hold, and the last
\* score of a pair is lost only to a pair with the same concatenation.
THEOREM TrailReplays == ChainSpec => []EventsReplay
<1>1. ChainInit => AInv
  <2> SUFFICES ASSUME ChainInit PROVE AInv
    OBVIOUS
  <2>1. events = <<>> /\ Len(events) = 0 /\ Sequence(events)
    BY InitType DEF ChainInit
  <2>2. VerdictsReplay(events, validations) /\ Linked(events) /\ Keyed(events)
    BY <2>1 DEF ChainInit, VerdictsReplay, Linked, Keyed
  <2>3. ASSUME NEW k PROVE ReplayedIn(events, k, Len(events)) = 0
    <3>1. LatestIn(events, "ReputationUpdated", k, 0) \in 0..0
      BY LatestIsHit
    <3> QED
      BY <2>1, <3>1 DEF ReplayedIn
  <2>4. ScoresReplay(events, reputation)
    BY <2>3 DEF ChainInit, ScoresReplay, ScoreIn
  <2> QED
    BY <2>1, <2>2, <2>4 DEF AInv
<1>2. AInv /\ [ChainNext]_chainVars => AInv'
  <2>1. CASE UNCHANGED chainVars
    BY <2>1 DEF chainVars, AInv
  <2> QED
    BY <2>1, ClaimReplays, ValidationReplays, ReputationReplays DEF ChainNext
<1>3. AInv => EventsReplay
  <2>1. \A kind, k, n : Latest(kind, k, n) = LatestIn(events, kind, k, n)
    BY DEF Latest, LatestIn, Hits
  <2>2. \A k, n : ReplayedScore(k, n) = ReplayedIn(events, k, n)
    BY <2>1 DEF ReplayedScore, ReplayedIn
  <2>3. ASSUME AInv, NEW i \in 1..Len(events), events[i].event = "ReputationUpdated"
        PROVE  \/ getScore(events[i].validatorID, events[i].domain) = events[i].newScore
               \/ \E j \in i + 1..Len(events) :
                      events[j].event = "ReputationUpdated" /\ SamePlace(events[i], events[j])
    BY <2>3, PairReads DEF AInv, ScoreIn, getScore, score
  <2> QED
    BY <2>1, <2>2, <2>3 DEF AInv, EventsReplay, VerdictsReplay, ScoresReplay, ScoreIn, score, Linked
<1> QED
  BY <1>1, <1>2, <1>3, PTL DEF ChainSpec
=============================================================================

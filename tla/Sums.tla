-------------------------------- MODULE Sums --------------------------------
(***************************************************************************)
(* Induction over the natural numbers and over finite sets, stated for a   *)
(* set of numbers or of sets instead of a predicate, and what it gives for *)
(* SumFunctionOnSet: that its recursive definition is meaningful, that the *)
(* order of summation does not matter, and bounds.                         *)
(***************************************************************************)
EXTENDS Integers, FiniteSets, FiniteSetsExt, FiniteSetTheorems, TLAPS

\* Induction over Nat: a set with 0 and the successors of its elements is all
\* of Nat.  Its complement would have a least element.
LEMMA SetInduction ==
    ASSUME NEW T, 0 \in T, \A n \in Nat : n \in T => n + 1 \in T
    PROVE  Nat \subseteq T
<1> DEFINE U == {n \in Nat : n \notin T}
<1> SUFFICES ASSUME U # {} PROVE FALSE
  OBVIOUS
<1>1. IsWellFoundedOn(OpToRel(<, Nat), Nat)
  BY NatLessThanWellFounded, Zenon
<1>2. U \subseteq Nat
  OBVIOUS
<1> DEFINE R == OpToRel(<, Nat)
<1>3. \A x, y \in Nat : x < y => <<x, y>> \in R
  BY DEF OpToRel
<1> HIDE DEF R
<1>4. PICK x \in U : \A y \in U : ~(<<y, x>> \in R)
  <2>1. IsWellFoundedOn(R, Nat)
    BY <1>1, Zenon DEF R
  <2> HIDE DEF U
  <2> QED
    BY ONLY <2>1, <1>2, U # {}, WFMin
<1>5. x # 0 /\ x \in Nat
  OBVIOUS
<1>6. x - 1 \in Nat /\ x - 1 < x /\ (x - 1) + 1 = x
  BY <1>5
<1>7. x - 1 \notin U
  BY <1>3, <1>4, <1>5, <1>6
<1>8. x - 1 \in T
  BY <1>6, <1>7
<1> QED
  BY <1>6, <1>8, x \in U

\* Induction over a finite set: a set of subsets that holds the empty one and
\* is closed under adding an element holds all of them.
LEMMA SubsetInduction ==
    ASSUME NEW S, IsFiniteSet(S), NEW T, {} \in T,
           \A s \in SUBSET S : \A x \in S \ s : s \in T => s \cup {x} \in T
    PROVE  SUBSET S \subseteq T
<1> DEFINE N == {n \in Nat : \A s \in SUBSET S : Cardinality(s) = n => s \in T}
<1>1. \A s \in SUBSET S : IsFiniteSet(s) /\ Cardinality(s) \in Nat
  BY FS_Subset, FS_CardinalityType
<1>2. 0 \in N
  BY <1>1, FS_EmptySet
<1>3. ASSUME NEW n \in Nat, n \in N PROVE n + 1 \in N
  <2> SUFFICES ASSUME NEW s \in SUBSET S, Cardinality(s) = n + 1 PROVE s \in T
    OBVIOUS
  <2>1. s # {}
    <3>1. Cardinality({}) = 0 /\ n + 1 # 0
      BY FS_EmptySet
    <3> QED
      BY <3>1
  <2>2. PICK x : x \in s
    BY <2>1
  <2>3. Cardinality(s \ {x}) = n
    <3>1. Cardinality(s \ {x}) = Cardinality(s) - 1
      BY <1>1, <2>2, FS_RemoveElement
    <3> QED
      BY <3>1
  <2>4. s \ {x} \in T
    BY <1>3, <2>3
  <2>5. (s \ {x}) \cup {x} = s
    BY <2>2
  <2>6. s \ {x} \in SUBSET S /\ x \in S \ (s \ {x})
    BY <2>2
  <2> QED
    BY <2>4, <2>5, <2>6
<1>4. Nat \subseteq N
  <2> HIDE DEF N
  <2> QED
    BY <1>2, <1>3, SetInduction
<1> QED
  BY <1>1, <1>4

-----------------------------------------------------------------------------
\* The element that SumFunctionOnSet takes from a set.
Taken(s) == CHOOSE x \in s : TRUE

\* g is the recursive function of SumFunctionOnSet on the sets of D.
IsSum(f, D, g) ==
    g = [s \in D |-> IF s = {} THEN 0 ELSE f[Taken(s)] + g[s \ {Taken(s)}]]

LEMMA SumIsChosen ==
    ASSUME NEW f, NEW S
    PROVE  SumFunctionOnSet(f, S) = (CHOOSE g : IsSum(f, SUBSET S, g))[S]
BY DEF SumFunctionOnSet, FoldFunctionOnSet, MapThenFoldSet, IsSum, Taken

\* The subsets with at most n elements.
Small(S, n) == {s \in SUBSET S : Cardinality(s) <= n}

\* The recursive definition has a solution, by induction over the size of sets.
LEMMA SumsExist ==
    ASSUME NEW f, NEW S, IsFiniteSet(S)
    PROVE  \E g : IsSum(f, SUBSET S, g)
<1> DEFINE N == {n \in Nat : \E g : IsSum(f, Small(S, n), g)}
<1>1. \A s \in SUBSET S : IsFiniteSet(s) /\ Cardinality(s) \in Nat /\ Cardinality(s) <= Cardinality(S)
  BY FS_Subset, FS_CardinalityType
<1>2. \A s \in SUBSET S : s # {} =>
          /\ Taken(s) \in s
          /\ s \ {Taken(s)} \in SUBSET S
          /\ Cardinality(s \ {Taken(s)}) = Cardinality(s) - 1
  BY <1>1, FS_RemoveElement DEF Taken
<1>3. 0 \in N
  <2>1. \A s \in Small(S, 0) : s = {}
    BY <1>1, FS_EmptySet DEF Small
  <2>2. IsSum(f, Small(S, 0), [s \in Small(S, 0) |-> 0])
    BY <2>1 DEF IsSum
  <2> QED
    BY <2>2
<1>4. ASSUME NEW n \in Nat, n \in N PROVE n + 1 \in N
  <2>1. PICK g : IsSum(f, Small(S, n), g)
    BY <1>4
  <2> DEFINE h == [s \in Small(S, n + 1) |-> IF s = {} THEN 0 ELSE f[Taken(s)] + g[s \ {Taken(s)}]]
  <2>2. \A s \in Small(S, n) : s \in Small(S, n + 1) /\ h[s] = g[s]
    <3> SUFFICES ASSUME NEW s \in Small(S, n) PROVE s \in Small(S, n + 1) /\ h[s] = g[s]
      OBVIOUS
    <3>1. s \in Small(S, n + 1)
      BY <1>1 DEF Small
    <3>2. g[s] = IF s = {} THEN 0 ELSE f[Taken(s)] + g[s \ {Taken(s)}]
      BY <2>1 DEF IsSum
    <3> QED
      BY <3>1, <3>2
  <2>3. \A s \in Small(S, n + 1) : s # {} => s \ {Taken(s)} \in Small(S, n)
    BY <1>1, <1>2 DEF Small
  <2>4. h = [s \in Small(S, n + 1) |-> IF s = {} THEN 0 ELSE f[Taken(s)] + h[s \ {Taken(s)}]]
    BY <2>2, <2>3
  <2>5. IsSum(f, Small(S, n + 1), h)
    BY <2>4 DEF IsSum
  <2> QED
    BY <2>5
<1>5. Nat \subseteq N
  <2> HIDE DEF N
  <2> QED
    BY <1>3, <1>4, SetInduction
<1>6. Cardinality(S) \in N /\ Small(S, Cardinality(S)) = SUBSET S
  BY <1>1, <1>5, FS_CardinalityType DEF Small
<1> QED
  BY <1>6

\* ... and only one, so the sum of a subset is the same within every set.
LEMMA SumsAgree ==
    ASSUME NEW f, NEW S, IsFiniteSet(S), NEW R \in SUBSET S, NEW g, NEW h,
           IsSum(f, SUBSET S, g), IsSum(f, SUBSET R, h)
    PROVE  g[R] = h[R]
<1> DEFINE N == {n \in Nat : \A s \in SUBSET R : Cardinality(s) = n => g[s] = h[s]}
<1>1. \A s \in SUBSET R : IsFiniteSet(s) /\ Cardinality(s) \in Nat
  BY FS_Subset, FS_CardinalityType
<1>2. \A s \in SUBSET R : s # {} =>
          /\ s \ {Taken(s)} \in SUBSET R
          /\ Cardinality(s \ {Taken(s)}) = Cardinality(s) - 1
  BY <1>1, FS_RemoveElement DEF Taken
<1>3. 0 \in N
  <2>1. \A s \in SUBSET R : Cardinality(s) = 0 => s = {}
    BY <1>1, FS_EmptySet
  <2> QED
    BY <2>1 DEF IsSum
<1>4. ASSUME NEW n \in Nat, n \in N PROVE n + 1 \in N
  <2> SUFFICES ASSUME NEW s \in SUBSET R, Cardinality(s) = n + 1 PROVE g[s] = h[s]
    OBVIOUS
  <2>1. s # {}
    <3>1. Cardinality({}) = 0 /\ n + 1 # 0
      BY FS_EmptySet
    <3> QED
      BY <3>1
  <2>2. g[s \ {Taken(s)}] = h[s \ {Taken(s)}]
    BY <1>2, <1>4, <2>1
  <2>3. s \in SUBSET S
    OBVIOUS
  <2>4. g[s] = f[Taken(s)] + g[s \ {Taken(s)}]
    BY <2>1, <2>3 DEF IsSum
  <2>5. h[s] = f[Taken(s)] + h[s \ {Taken(s)}]
    BY <2>1 DEF IsSum
  <2> QED
    BY <2>2, <2>4, <2>5
<1>5. Nat \subseteq N
  <2> HIDE DEF N
  <2> QED
    BY <1>3, <1>4, SetInduction
<1> QED
  BY <1>1, <1>5

\* SumFunctionOnSet takes one element and goes on with the others.
LEMMA SumUnfolds ==
    ASSUME NEW f, NEW S, IsFiniteSet(S)
    PROVE  SumFunctionOnSet(f, S) =
               IF S = {} THEN 0
               ELSE f[Taken(S)] + SumFunctionOnSet(f, S \ {Taken(S)})
<1> DEFINE R == S \ {Taken(S)}
           g == CHOOSE x : IsSum(f, SUBSET S, x)
           h == CHOOSE x : IsSum(f, SUBSET R, x)
<1>1. IsSum(f, SUBSET S, g)
  BY SumsExist
<1>2. IsFiniteSet(R) /\ R \in SUBSET S
  BY FS_Subset
<1>3. IsSum(f, SUBSET R, h)
  BY <1>2, SumsExist
<1>4. SumFunctionOnSet(f, S) = g[S] /\ SumFunctionOnSet(f, R) = h[R]
  BY SumIsChosen
<1> HIDE DEF g, h
<1>5. g[R] = h[R]
  <2>1. IsFiniteSet(S) /\ R \in SUBSET S /\ IsSum(f, SUBSET S, g) /\ IsSum(f, SUBSET R, h)
    BY <1>1, <1>2, <1>3
  <2> HIDE DEF R
  <2> QED
    BY ONLY <2>1, SumsAgree
<1>6. g[S] = IF S = {} THEN 0 ELSE f[Taken(S)] + g[R]
  BY <1>1 DEF IsSum
<1> QED
  BY <1>4, <1>5, <1>6

-----------------------------------------------------------------------------
\* f has integer values on a finite set S.
Summable(f, S) == IsFiniteSet(S) /\ \A x \in S : f[x] \in Int

LEMMA SumEmpty == \A f : SumFunctionOnSet(f, {}) = 0
BY SumUnfolds, FS_EmptySet

LEMMA SumType ==
    ASSUME NEW f, NEW S, Summable(f, S)
    PROVE  SumFunctionOnSet(f, S) \in Int
<1> DEFINE N == {n \in Nat : \A s \in SUBSET S :
                                Cardinality(s) = n => SumFunctionOnSet(f, s) \in Int}
<1>1. \A s \in SUBSET S : IsFiniteSet(s) /\ Cardinality(s) \in Nat
  BY FS_Subset, FS_CardinalityType DEF Summable
<1>2. 0 \in N
  <2>1. \A s \in SUBSET S : Cardinality(s) = 0 => s = {}
    BY <1>1, FS_EmptySet
  <2> QED
    BY <2>1, SumEmpty
<1>3. ASSUME NEW n \in Nat, n \in N PROVE n + 1 \in N
  <2> SUFFICES ASSUME NEW s \in SUBSET S, Cardinality(s) = n + 1
               PROVE  SumFunctionOnSet(f, s) \in Int
    OBVIOUS
  <2>1. s # {}
    <3>1. Cardinality({}) = 0 /\ n + 1 # 0
      BY FS_EmptySet
    <3> QED
      BY <3>1
  <2>2. Taken(s) \in s
    BY <2>1 DEF Taken
  <2>3. Cardinality(s \ {Taken(s)}) = n
    <3>1. Cardinality(s \ {Taken(s)}) = Cardinality(s) - 1
      BY <1>1, <2>2, FS_RemoveElement
    <3> QED
      BY <3>1
  <2>4. SumFunctionOnSet(f, s \ {Taken(s)}) \in Int
    BY <1>3, <2>3
  <2>5. f[Taken(s)] \in Int
    BY <2>2 DEF Summable
  <2> QED
    BY <1>1, <2>1, <2>4, <2>5, SumUnfolds
<1>4. Nat \subseteq N
  <2> HIDE DEF N
  <2> QED
    BY <1>2, <1>3, SetInduction
<1> QED
  BY <1>1, <1>4

\* Any element can be taken first, so the order of summation does not matter.
LEMMA SumRemove ==
    ASSUME NEW f, NEW S, Summable(f, S), NEW e \in S
    PROVE  SumFunctionOnSet(f, S) = f[e] + SumFunctionOnSet(f, S \ {e})
<1> DEFINE N == {n \in Nat : \A s \in SUBSET S : Cardinality(s) = n =>
                     \A x \in s : SumFunctionOnSet(f, s) = f[x] + SumFunctionOnSet(f, s \ {x})}
<1>1. \A s \in SUBSET S : IsFiniteSet(s) /\ Cardinality(s) \in Nat
  BY FS_Subset, FS_CardinalityType DEF Summable
<1>2. \A s \in SUBSET S : SumFunctionOnSet(f, s) \in Int
  BY <1>1, SumType DEF Summable
<1>3. 0 \in N
  BY <1>1, FS_EmptySet
<1>4. ASSUME NEW n \in Nat, n \in N PROVE n + 1 \in N
  <2> SUFFICES ASSUME NEW s \in SUBSET S, Cardinality(s) = n + 1, NEW x \in s
               PROVE  SumFunctionOnSet(f, s) = f[x] + SumFunctionOnSet(f, s \ {x})
    OBVIOUS
  <2>1. ASSUME NEW y \in s
        PROVE  Cardinality(s \ {y}) = n /\ s \ {y} \in SUBSET S
    <3>1. Cardinality(s \ {y}) = Cardinality(s) - 1
      BY <1>1, FS_RemoveElement
    <3> QED
      BY <3>1
  <2> DEFINE c == Taken(s)
             r == s \ {c, x}
  <2>2. c \in s
    BY DEF Taken
  <2>3. SumFunctionOnSet(f, s) = f[c] + SumFunctionOnSet(f, s \ {c})
    BY <1>1, SumUnfolds
  <2> HIDE DEF c
  <2>4. CASE x = c
    BY <2>3, <2>4
  <2>5. CASE x # c
    <3>1. (s \ {c}) \ {x} = r /\ (s \ {x}) \ {c} = r /\ c \in s \ {x} /\ x \in s \ {c}
      BY <2>2, <2>5
    <3>2. SumFunctionOnSet(f, s \ {c}) = f[x] + SumFunctionOnSet(f, r)
      BY <1>4, <2>1, <2>2, <3>1
    <3>3. SumFunctionOnSet(f, s \ {x}) = f[c] + SumFunctionOnSet(f, r)
      BY <1>4, <2>1, <3>1
    <3>4. f[x] \in Int /\ f[c] \in Int /\ SumFunctionOnSet(f, r) \in Int
      BY <1>2, <2>2 DEF Summable
    <3> HIDE DEF r
    <3> QED
      BY <2>3, <3>2, <3>3, <3>4
  <2> QED
    BY <2>4, <2>5
<1>5. Nat \subseteq N
  <2> HIDE DEF N
  <2> QED
    BY <1>3, <1>4, SetInduction
<1>6. Cardinality(S) \in N /\ S \in SUBSET S
  BY <1>1, <1>5
<1> QED
  BY <1>6

\* The sum with one more element.
LEMMA SumAdd ==
    ASSUME NEW f, NEW S, IsFiniteSet(S), NEW e, e \notin S, Summable(f, S \cup {e})
    PROVE  SumFunctionOnSet(f, S \cup {e}) = f[e] + SumFunctionOnSet(f, S)
<1>1. (S \cup {e}) \ {e} = S /\ e \in S \cup {e}
  OBVIOUS
<1> QED
  BY <1>1, SumRemove

\* Only the values on the set matter.
LEMMA SumSame ==
    ASSUME NEW f, NEW g, NEW S, Summable(f, S), \A x \in S : f[x] = g[x]
    PROVE  SumFunctionOnSet(f, S) = SumFunctionOnSet(g, S)
<1> DEFINE T == {s \in SUBSET S : SumFunctionOnSet(f, s) = SumFunctionOnSet(g, s)}
<1>1. {} \in T
  BY SumEmpty
<1>2. ASSUME NEW s \in SUBSET S, NEW x \in S \ s, s \in T PROVE s \cup {x} \in T
  <2>1. IsFiniteSet(s) /\ Summable(f, s \cup {x}) /\ Summable(g, s \cup {x})
    BY FS_Subset, FS_AddElement DEF Summable
  <2>2. /\ SumFunctionOnSet(f, s \cup {x}) = f[x] + SumFunctionOnSet(f, s)
        /\ SumFunctionOnSet(g, s \cup {x}) = g[x] + SumFunctionOnSet(g, s)
    BY <2>1, SumAdd
  <2> QED
    BY <1>2, <2>2
<1>3. IsFiniteSet(S)
  BY DEF Summable
<1>4. SUBSET S \subseteq T
  <2> HIDE DEF T
  <2> QED
    BY <1>1, <1>2, <1>3, SubsetInduction
<1> QED
  BY <1>4

\* Sums of ordered summands are ordered.
LEMMA SumMonotone ==
    ASSUME NEW f, NEW g, NEW S, Summable(f, S), Summable(g, S), \A x \in S : f[x] <= g[x]
    PROVE  SumFunctionOnSet(f, S) <= SumFunctionOnSet(g, S)
<1> DEFINE T == {s \in SUBSET S : SumFunctionOnSet(f, s) <= SumFunctionOnSet(g, s)}
<1>1. {} \in T
  BY SumEmpty
<1>2. ASSUME NEW s \in SUBSET S, NEW x \in S \ s, s \in T PROVE s \cup {x} \in T
  <2>1. /\ IsFiniteSet(s) /\ Summable(f, s \cup {x}) /\ Summable(g, s \cup {x})
        /\ Summable(f, s) /\ Summable(g, s)
    BY FS_Subset, FS_AddElement DEF Summable
  <2>2. /\ SumFunctionOnSet(f, s \cup {x}) = f[x] + SumFunctionOnSet(f, s)
        /\ SumFunctionOnSet(g, s \cup {x}) = g[x] + SumFunctionOnSet(g, s)
    BY <2>1, SumAdd
  <2>3. SumFunctionOnSet(f, s) \in Int /\ SumFunctionOnSet(g, s) \in Int
    BY <2>1, SumType
  <2>4. f[x] \in Int /\ g[x] \in Int /\ f[x] <= g[x]
    BY DEF Summable
  <2>5. SumFunctionOnSet(f, s) <= SumFunctionOnSet(g, s)
    BY <1>2
  <2>6. SumFunctionOnSet(f, s \cup {x}) <= SumFunctionOnSet(g, s \cup {x})
    BY <2>2, <2>3, <2>4, <2>5
  <2> QED
    BY <2>6
<1>3. IsFiniteSet(S)
  BY DEF Summable
<1>4. SUBSET S \subseteq T
  <2> HIDE DEF T
  <2> QED
    BY <1>1, <1>2, <1>3, SubsetInduction
<1> QED
  BY <1>4

\* A common factor can be taken out.
LEMMA SumScale ==
    ASSUME NEW f, NEW k \in Int, NEW S, Summable(f, S)
    PROVE  SumFunctionOnSet([x \in S |-> k * f[x]], S) = k * SumFunctionOnSet(f, S)
<1> DEFINE h == [x \in S |-> k * f[x]]
           T == {s \in SUBSET S : SumFunctionOnSet(h, s) = k * SumFunctionOnSet(f, s)}
<1>1. {} \in T
  BY SumEmpty
<1>2. Summable(h, S)
  BY DEF Summable
<1>3. ASSUME NEW s \in SUBSET S, NEW x \in S \ s, s \in T PROVE s \cup {x} \in T
  <2>1. /\ IsFiniteSet(s) /\ Summable(f, s \cup {x}) /\ Summable(f, s)
        /\ Summable(h, s \cup {x})
    BY <1>2, FS_Subset, FS_AddElement DEF Summable
  <2>2. h[x] = k * f[x]
    OBVIOUS
  <2> HIDE DEF h
  <2>3. /\ SumFunctionOnSet(h, s \cup {x}) = h[x] + SumFunctionOnSet(h, s)
        /\ SumFunctionOnSet(f, s \cup {x}) = f[x] + SumFunctionOnSet(f, s)
    BY <2>1, SumAdd
  <2>4. SumFunctionOnSet(f, s) \in Int /\ f[x] \in Int
    BY <2>1, SumType DEF Summable
  <2>5. SumFunctionOnSet(h, s) = k * SumFunctionOnSet(f, s)
    BY <1>3
  <2>6. \A a, b \in Int : k * (a + b) = k * a + k * b
    OBVIOUS
  <2>7. SumFunctionOnSet(h, s \cup {x}) = k * SumFunctionOnSet(f, s \cup {x})
    BY <2>2, <2>3, <2>4, <2>5, <2>6
  <2> QED
    BY <2>7
<1>4. IsFiniteSet(S)
  BY DEF Summable
<1>5. SUBSET S \subseteq T
  <2> HIDE DEF T
  <2> QED
    BY <1>1, <1>3, <1>4, SubsetInduction
<1> QED
  BY <1>5

\* The sum over a set in two parts.
LEMMA SumUnion ==
    ASSUME NEW f, NEW A, NEW S, Summable(f, A \cup S), A \cap S = {}
    PROVE  SumFunctionOnSet(f, A \cup S) = SumFunctionOnSet(f, A) + SumFunctionOnSet(f, S)
<1> DEFINE T == {s \in SUBSET S : SumFunctionOnSet(f, A \cup s) =
                                      SumFunctionOnSet(f, A) + SumFunctionOnSet(f, s)}
<1>1. \A s \in SUBSET (A \cup S) : Summable(f, s) /\ IsFiniteSet(s)
  BY FS_Subset DEF Summable
<1>2. {} \in T
  <2>1. SumFunctionOnSet(f, A) \in Int
    BY <1>1, SumType
  <2>2. A \cup {} = A
    OBVIOUS
  <2> QED
    BY <2>1, <2>2, SumEmpty
<1>3. ASSUME NEW s \in SUBSET S, NEW x \in S \ s, s \in T PROVE s \cup {x} \in T
  <2>1. A \cup (s \cup {x}) = (A \cup s) \cup {x} /\ x \notin A \cup s /\ x \notin s
    OBVIOUS
  <2>2. /\ Summable(f, (A \cup s) \cup {x}) /\ Summable(f, s \cup {x})
        /\ IsFiniteSet(A \cup s) /\ IsFiniteSet(s)
    BY <1>1
  <2>3. /\ SumFunctionOnSet(f, (A \cup s) \cup {x}) = f[x] + SumFunctionOnSet(f, A \cup s)
        /\ SumFunctionOnSet(f, s \cup {x}) = f[x] + SumFunctionOnSet(f, s)
    BY <2>1, <2>2, SumAdd
  <2>4. SumFunctionOnSet(f, s) \in Int /\ SumFunctionOnSet(f, A) \in Int /\ f[x] \in Int
    BY <1>1, SumType DEF Summable
  <2>5. SumFunctionOnSet(f, A \cup s) = SumFunctionOnSet(f, A) + SumFunctionOnSet(f, s)
    BY <1>3
  <2>6. SumFunctionOnSet(f, A \cup (s \cup {x})) =
            SumFunctionOnSet(f, A) + SumFunctionOnSet(f, s \cup {x})
    <3>1. SumFunctionOnSet(f, A \cup (s \cup {x})) = SumFunctionOnSet(f, (A \cup s) \cup {x})
      BY <2>1
    <3> QED
      BY ONLY <2>3, <2>4, <2>5, <3>1
  <2> QED
    BY <2>6
<1>4. SUBSET S \subseteq T
  <2>1. IsFiniteSet(S)
    BY <1>1
  <2> HIDE DEF T
  <2> QED
    BY <1>2, <1>3, <2>1, SubsetInduction
<1> QED
  BY <1>4

\* The sum of equal summands.
LEMMA SumConstant ==
    ASSUME NEW k \in Int, NEW f, NEW S, IsFiniteSet(S), \A x \in S : f[x] = k
    PROVE  SumFunctionOnSet(f, S) = k * Cardinality(S)
<1> DEFINE T == {s \in SUBSET S : SumFunctionOnSet(f, s) = k * Cardinality(s)}
<1>1. {} \in T
  BY SumEmpty, FS_EmptySet
<1>2. ASSUME NEW s \in SUBSET S, NEW x \in S \ s, s \in T PROVE s \cup {x} \in T
  <2>1. IsFiniteSet(s) /\ Summable(f, s \cup {x}) /\ Cardinality(s) \in Nat
    BY FS_Subset, FS_AddElement, FS_CardinalityType DEF Summable
  <2>2. SumFunctionOnSet(f, s \cup {x}) = f[x] + SumFunctionOnSet(f, s)
    BY <2>1, SumAdd
  <2>3. Cardinality(s \cup {x}) = Cardinality(s) + 1
    BY <2>1, FS_AddElement
  <2>4. \A n \in Nat : k * (n + 1) = k + k * n
    OBVIOUS
  <2>5. SumFunctionOnSet(f, s) = k * Cardinality(s)
    BY <1>2
  <2>6. SumFunctionOnSet(f, s \cup {x}) = k * Cardinality(s \cup {x})
    BY <2>1, <2>2, <2>3, <2>4, <2>5
  <2> QED
    BY <2>6
<1>3. SUBSET S \subseteq T
  <2> HIDE DEF T
  <2> QED
    BY <1>1, <1>2, SubsetInduction
<1> QED
  BY <1>3

\* A sum is between the number of summands times a lower and an upper bound.
LEMMA SumBounds ==
    ASSUME NEW f, NEW S, Summable(f, S), NEW lo \in Int, NEW hi \in Int,
           \A x \in S : lo <= f[x] /\ f[x] <= hi
    PROVE  /\ lo * Cardinality(S) <= SumFunctionOnSet(f, S)
           /\ SumFunctionOnSet(f, S) <= hi * Cardinality(S)
<1> DEFINE low == [x \in S |-> lo]
           high == [x \in S |-> hi]
<1>1. IsFiniteSet(S) /\ Summable(low, S) /\ Summable(high, S)
  BY DEF Summable
<1>2. /\ SumFunctionOnSet(low, S) = lo * Cardinality(S)
      /\ SumFunctionOnSet(high, S) = hi * Cardinality(S)
  <2>1. (\A x \in S : low[x] = lo) /\ (\A x \in S : high[x] = hi)
    OBVIOUS
  <2> HIDE DEF low, high
  <2> QED
    BY <1>1, <2>1, SumConstant
<1>3. (\A x \in S : low[x] <= f[x]) /\ (\A x \in S : f[x] <= high[x])
  OBVIOUS
<1> HIDE DEF low, high
<1>4. /\ SumFunctionOnSet(low, S) <= SumFunctionOnSet(f, S)
      /\ SumFunctionOnSet(f, S) <= SumFunctionOnSet(high, S)
  BY <1>1, <1>3, SumMonotone
<1> QED
  BY <1>2, <1>4

\* Summands that are 0 can be left out.
LEMMA SumIndicator ==
    ASSUME NEW f, NEW g, NEW S, NEW R \in SUBSET S, IsFiniteSet(S),
           \A x \in R : f[x] \in Int /\ g[x] = f[x], \A x \in S \ R : g[x] = 0
    PROVE  SumFunctionOnSet(g, S) = SumFunctionOnSet(f, R)
<1> DEFINE Q == S \ R
<1>1. R \cup Q = S /\ R \cap Q = {} /\ IsFiniteSet(R) /\ IsFiniteSet(Q)
  BY FS_Subset
<1>2. Summable(g, R \cup Q) /\ Summable(g, R) /\ Summable(f, R)
  BY <1>1 DEF Summable
<1>3. SumFunctionOnSet(g, R \cup Q) = SumFunctionOnSet(g, R) + SumFunctionOnSet(g, Q)
  BY <1>1, <1>2, SumUnion
<1>4. SumFunctionOnSet(g, Q) = 0
  <2>1. \A x \in Q : g[x] = 0
    OBVIOUS
  <2> HIDE DEF Q
  <2>2. SumFunctionOnSet(g, Q) = 0 * Cardinality(Q) /\ Cardinality(Q) \in Nat
    BY <1>1, <2>1, SumConstant, FS_CardinalityType
  <2> QED
    BY <2>2
<1>5. SumFunctionOnSet(g, R) = SumFunctionOnSet(f, R)
  BY <1>2, SumSame
<1>6. SumFunctionOnSet(f, R) \in Int
  BY <1>2, SumType
<1> HIDE DEF Q
<1>7. SumFunctionOnSet(g, S) = SumFunctionOnSet(g, R \cup Q)
  BY <1>1
<1> QED
  BY ONLY <1>3, <1>4, <1>5, <1>6, <1>7

\* A bijection of the index set does not change the sum.
LEMMA SumReindex ==
    ASSUME NEW f, NEW g, NEW R, NEW S, NEW p \in [R -> S], IsFiniteSet(R), Summable(f, S),
           \A x, y \in R : p[x] = p[y] => x = y, \A z \in S : \E x \in R : p[x] = z,
           \A x \in R : g[x] = f[p[x]]
    PROVE  SumFunctionOnSet(g, R) = SumFunctionOnSet(f, S)
<1> DEFINE Image(s) == {p[x] : x \in s}
           T == {s \in SUBSET R : SumFunctionOnSet(g, s) = SumFunctionOnSet(f, Image(s))}
<1>1. {} \in T
  <2>1. Image({}) = {}
    OBVIOUS
  <2> QED
    BY <2>1, SumEmpty
<1>2. ASSUME NEW s \in SUBSET R, NEW x \in R \ s, s \in T PROVE s \cup {x} \in T
  <2>1. Image(s) \in SUBSET S /\ p[x] \in S /\ p[x] \notin Image(s)
    OBVIOUS
  <2>2. Image(s \cup {x}) = Image(s) \cup {p[x]}
    OBVIOUS
  <2>3. IsFiniteSet(s) /\ Summable(g, s \cup {x})
    BY FS_Subset, FS_AddElement DEF Summable
  <2>4. IsFiniteSet(Image(s)) /\ Summable(f, Image(s) \cup {p[x]})
    <3>1. Image(s) \cup {p[x]} \in SUBSET S
      BY <2>1
    <3> HIDE DEF Image
    <3> QED
      BY <2>1, <3>1, FS_Subset DEF Summable
  <2>5. SumFunctionOnSet(g, s \cup {x}) = g[x] + SumFunctionOnSet(g, s)
    BY <2>3, SumAdd
  <2>6. SumFunctionOnSet(f, Image(s) \cup {p[x]}) = f[p[x]] + SumFunctionOnSet(f, Image(s))
    <3> HIDE DEF Image
    <3> QED
      BY <2>1, <2>4, SumAdd
  <2>7. SumFunctionOnSet(g, s) = SumFunctionOnSet(f, Image(s)) /\ g[x] = f[p[x]]
    BY <1>2
  <2> HIDE DEF Image
  <2> QED
    BY <2>2, <2>5, <2>6, <2>7
<1>3. SUBSET R \subseteq T
  <2> HIDE DEF T
  <2> QED
    BY <1>1, <1>2, SubsetInduction
<1>4. Image(R) = S
  OBVIOUS
<1>5. R \in T
  BY <1>3
<1> HIDE DEF Image
<1> QED
  BY <1>4, <1>5

-----------------------------------------------------------------------------
\* t[i] is the sum of the first i of n summands, accumulated in a loop.
IsRunningSum(t, a, n) == t = [i \in 0..n |-> IF i = 0 THEN 0 ELSE t[i - 1] + a[i]]

LEMMA IntervalGrows ==
    ASSUME NEW i \in Nat
    PROVE  /\ 1..(i + 1) = (1..i) \cup {i + 1} /\ i + 1 \notin 1..i
           /\ IsFiniteSet(1..i) /\ Cardinality(1..i) = i
<1>1. IsFiniteSet(1..i) /\ Cardinality(1..i) = IF 1 > i THEN 0 ELSE i - 1 + 1
  BY FS_Interval
<1> QED
  BY <1>1

LEMMA SumOfInterval ==
    ASSUME NEW a, NEW i \in Nat, \A j \in 1..(i + 1) : a[j] \in Int
    PROVE  SumFunctionOnSet(a, 1..(i + 1)) = a[i + 1] + SumFunctionOnSet(a, 1..i)
<1> DEFINE I == 1..i
           e == i + 1
<1>1. 1..(i + 1) = I \cup {e} /\ e \notin I /\ IsFiniteSet(I)
  BY IntervalGrows
<1>2. \A j \in I \cup {e} : a[j] \in Int
  BY <1>1
<1>3. IsFiniteSet(I \cup {e})
  BY <1>1, FS_AddElement
<1> HIDE DEF I, e
<1>4. SumFunctionOnSet(a, I \cup {e}) = a[e] + SumFunctionOnSet(a, I)
  BY <1>1, <1>2, <1>3, SumAdd DEF Summable
<1> QED
  BY <1>1, <1>4 DEF I, e

\* The first summand of an interval can be taken out too.
LEMMA SumShift ==
    ASSUME NEW a, NEW b, NEW n \in Nat, \A j \in 1..(n + 1) : a[j] \in Int,
           \A j \in 1..n : b[j] = a[j + 1]
    PROVE  SumFunctionOnSet(a, 1..(n + 1)) = a[1] + SumFunctionOnSet(b, 1..n)
<1> DEFINE N == {m \in Nat : m <= n =>
                     SumFunctionOnSet(a, 1..(m + 1)) = a[1] + SumFunctionOnSet(b, 1..m)}
<1>1. a[1] \in Int /\ SumFunctionOnSet(a, 1..0) = 0 /\ SumFunctionOnSet(b, 1..0) = 0
  BY SumEmpty
<1>2. 0 \in N
  <2>1. \A j \in 1..(0 + 1) : a[j] \in Int
    OBVIOUS
  <2>2. SumFunctionOnSet(a, 1..(0 + 1)) = a[0 + 1] + SumFunctionOnSet(a, 1..0)
    BY <2>1, SumOfInterval
  <2> QED
    BY <1>1, <2>2
<1>3. ASSUME NEW m \in Nat, m \in N PROVE m + 1 \in N
  <2> SUFFICES ASSUME m + 1 <= n
               PROVE  SumFunctionOnSet(a, 1..((m + 1) + 1)) = a[1] + SumFunctionOnSet(b, 1..(m + 1))
    OBVIOUS
  <2>1. m + 1 \in Nat /\ \A j \in 1..((m + 1) + 1) : a[j] \in Int
    OBVIOUS
  <2>2. \A j \in 1..(m + 1) : b[j] \in Int
    OBVIOUS
  <2>3. SumFunctionOnSet(a, 1..((m + 1) + 1)) = a[(m + 1) + 1] + SumFunctionOnSet(a, 1..(m + 1))
    BY <2>1, SumOfInterval
  <2>4. SumFunctionOnSet(b, 1..(m + 1)) = b[m + 1] + SumFunctionOnSet(b, 1..m)
    BY <2>2, SumOfInterval
  <2>5. SumFunctionOnSet(a, 1..(m + 1)) = a[1] + SumFunctionOnSet(b, 1..m)
    BY <1>3
  <2>6. b[m + 1] = a[(m + 1) + 1] /\ b[m + 1] \in Int
    BY <2>2
  <2>7. SumFunctionOnSet(b, 1..m) \in Int
    <3>1. \A j \in 1..m : b[j] \in Int
      BY <2>2
    <3> QED
      BY <3>1, IntervalGrows, SumType DEF Summable
  <2> QED
    BY <1>1, <2>3, <2>4, <2>5, <2>6, <2>7
<1>4. Nat \subseteq N
  <2> HIDE DEF N
  <2> QED
    BY <1>2, <1>3, SetInduction
<1> QED
  BY <1>4

\* A loop that accumulates computes the sum of all summands.
LEMMA RunningSum ==
    ASSUME NEW a, NEW n \in Nat, \A j \in 1..n : a[j] \in Int
    PROVE  /\ \E t : IsRunningSum(t, a, n)
           /\ \A t : IsRunningSum(t, a, n) => t[n] = SumFunctionOnSet(a, 1..n)
<1>1. ASSUME NEW i \in Nat, i + 1 <= n
      PROVE  SumFunctionOnSet(a, 1..(i + 1)) = SumFunctionOnSet(a, 1..i) + a[i + 1]
  <2>1. \A j \in 1..(i + 1) : a[j] \in Int
    BY <1>1
  <2>2. SumFunctionOnSet(a, 1..i) \in Int
    BY <2>1, IntervalGrows, SumType DEF Summable
  <2> QED
    BY <2>1, <2>2, SumOfInterval
<1>2. SumFunctionOnSet(a, 1..0) = 0
  BY SumEmpty
<1>3. \E t : IsRunningSum(t, a, n)
  <2> DEFINE t == [i \in 0..n |-> SumFunctionOnSet(a, 1..i)]
  <2>1. ASSUME NEW i \in 0..n PROVE t[i] = IF i = 0 THEN 0 ELSE t[i - 1] + a[i]
    <3>1. CASE i = 0
      BY <1>2, <3>1
    <3>2. CASE i # 0
      <4>1. i - 1 \in Nat /\ (i - 1) + 1 = i /\ i <= n /\ i - 1 \in 0..n
        BY <3>2
      <4> QED
        BY <1>1, <3>2, <4>1
    <3> QED
      BY <3>1, <3>2
  <2>2. IsRunningSum(t, a, n)
    BY <2>1 DEF IsRunningSum
  <2> QED
    BY <2>2
<1>4. ASSUME NEW t, IsRunningSum(t, a, n) PROVE t[n] = SumFunctionOnSet(a, 1..n)
  <2> DEFINE N == {i \in Nat : i <= n => t[i] = SumFunctionOnSet(a, 1..i)}
  <2>1. 0 \in N
    BY <1>2, <1>4 DEF IsRunningSum
  <2>2. ASSUME NEW i \in Nat, i \in N PROVE i + 1 \in N
    <3> SUFFICES ASSUME i + 1 <= n PROVE t[i + 1] = SumFunctionOnSet(a, 1..(i + 1))
      OBVIOUS
    <3>1. i + 1 \in 0..n /\ i + 1 # 0 /\ (i + 1) - 1 = i
      OBVIOUS
    <3>2. t[i + 1] = t[i] + a[i + 1]
      BY <1>4, <3>1 DEF IsRunningSum
    <3>3. t[i] = SumFunctionOnSet(a, 1..i)
      BY <2>2
    <3> QED
      BY <1>1, <3>2, <3>3
  <2>3. Nat \subseteq N
    <3> HIDE DEF N
    <3> QED
      BY <2>1, <2>2, SetInduction
  <2> QED
    BY <2>3
<1> QED
  BY <1>3, <1>4

-----------------------------------------------------------------------------
\* A finite set of integers has a least and a greatest element.
LEMMA Extremes ==
    ASSUME NEW S \in SUBSET Int, IsFiniteSet(S), S # {}
    PROVE  /\ Min(S) \in S /\ \A y \in S : Min(S) <= y
           /\ Max(S) \in S /\ \A y \in S : y <= Max(S)
<1> DEFINE T == {s \in SUBSET S : s # {} => /\ \E x \in s : \A y \in s : x <= y
                                            /\ \E x \in s : \A y \in s : x >= y}
<1>1. {} \in T
  OBVIOUS
<1>2. ASSUME NEW s \in SUBSET S, NEW e \in S \ s, s \in T PROVE s \cup {e} \in T
  <2>1. CASE s = {}
    BY <2>1
  <2>2. CASE s # {}
    <3>1. PICK l \in s : \A y \in s : l <= y
      BY <1>2, <2>2
    <3>2. PICK h \in s : \A y \in s : h >= y
      BY <1>2, <2>2
    <3>3. \E x \in s \cup {e} : \A y \in s \cup {e} : x <= y
      <4>1. CASE l <= e
        BY <3>1, <4>1
      <4>2. CASE e <= l
        BY <3>1, <4>2
      <4> QED
        BY <4>1, <4>2
    <3>4. \E x \in s \cup {e} : \A y \in s \cup {e} : x >= y
      <4>1. CASE h >= e
        BY <3>2, <4>1
      <4>2. CASE e >= h
        BY <3>2, <4>2
      <4> QED
        BY <4>1, <4>2
    <3> QED
      BY <3>3, <3>4
  <2> QED
    BY <2>1, <2>2
<1>3. SUBSET S \subseteq T
  <2> HIDE DEF T
  <2> QED
    BY <1>1, <1>2, SubsetInduction
<1>4. (\E x \in S : \A y \in S : x <= y) /\ (\E x \in S : \A y \in S : x >= y)
  BY <1>3
<1> QED
  BY <1>4 DEF Min, Max

\* Integer division of what is between two multiples of the divisor.
LEMMA QuotientBounds ==
    ASSUME NEW n \in Nat \ {0}, NEW sum \in Int, NEW lo \in Int, NEW hi \in Int,
           lo * n <= sum, sum <= hi * n
    PROVE  sum \div n \in lo..hi
<1> DEFINE q == sum \div n
<1>1. q \in Int /\ n * q <= sum /\ sum < n * q + n
  OBVIOUS
<1> HIDE DEF q
<1>2. lo <= q
  <2> SUFFICES ASSUME q + 1 <= lo PROVE FALSE
    BY <1>1
  <2>1. n * (q + 1) <= n * lo
    BY <1>1
  <2> QED
    BY <1>1, <2>1
<1>3. q <= hi
  <2> SUFFICES ASSUME hi + 1 <= q PROVE FALSE
    BY <1>1
  <2>1. n * (hi + 1) <= n * q
    BY <1>1
  <2> QED
    BY <1>1, <2>1
<1> QED
  BY <1>1, <1>2, <1>3 DEF q

\* The truncated mean of summands between two bounds is between them.
LEMMA MeanBounds ==
    ASSUME NEW f, NEW S, Summable(f, S), S # {}, NEW lo \in Int, NEW hi \in Int,
           \A x \in S : lo <= f[x] /\ f[x] <= hi
    PROVE  SumFunctionOnSet(f, S) \div Cardinality(S) \in lo..hi
<1>1. SumFunctionOnSet(f, S) \in Int
  BY SumType
<1>2. Cardinality(S) \in Nat \ {0}
  BY FS_CardinalityType, FS_EmptySet DEF Summable
<1>3. /\ lo * Cardinality(S) <= SumFunctionOnSet(f, S)
      /\ SumFunctionOnSet(f, S) <= hi * Cardinality(S)
  BY SumBounds
<1> QED
  BY <1>1, <1>2, <1>3, QuotientBounds
=============================================================================

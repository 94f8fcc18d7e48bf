-------------------------- MODULE ConsensusProofs --------------------------
(***************************************************************************)
(* Proofs about Consensus, for any number of validators, any ballots, any  *)
(* order of the votes and every validatorSetSize.                          *)
(***************************************************************************)
EXTENDS Consensus, Sums, SequenceTheorems, TLAPS

\* What aggregateWeights returns: non-negative masses that add up to TotalMass.
IsBreakdown(b) ==
    /\ \A x \in VerdictStates : b[x] \in Nat
    /\ b["TotalMass"] = b["SUPPORTED"] + b["UNSUPPORTED"] + b["MISLEADING"] + b["INDETERMINATE"]

\* findWinner returns a verdict no other outweighs.
LEMMA WinnerIsHeaviest ==
    ASSUME NEW b, \A x \in VerdictStates : b[x] \in Nat
    PROVE  /\ findWinner(b) \in VerdictStates
           /\ \A x \in VerdictStates : b[x] <= b[findWinner(b)]
<1> DEFINE s == b["SUPPORTED"]
           u == b["UNSUPPORTED"]
           m == b["MISLEADING"]
           i == b["INDETERMINATE"]
<1>1. s \in Nat /\ u \in Nat /\ m \in Nat /\ i \in Nat
  BY DEF VerdictStates
<1>2. findWinner(b) \in VerdictStates
  BY DEF findWinner, VerdictStates
<1>3. s <= b[findWinner(b)] /\ u <= b[findWinner(b)] /\ m <= b[findWinner(b)] /\ i <= b[findWinner(b)]
  BY <1>1 DEF findWinner
<1>4. QED
  BY <1>2, <1>3 DEF VerdictStates

\* The majority check on findWinner's answer finds every majority and nothing
\* else: a verdict passes it exactly when its voters outweigh all the others
\* together, so neither the order of the candidates nor the tie-break matters.
THEOREM MajorityDecides ==
    ASSUME NEW b, IsBreakdown(b), NEW x \in VerdictStates
    PROVE  2 * b[x] > b["TotalMass"] <=>
               findWinner(b) = x /\ ~noMajority(b[findWinner(b)], b["TotalMass"])
<1> DEFINE w == findWinner(b)
<1>1. \A y \in VerdictStates : b[y] \in Nat
  BY DEF IsBreakdown
<1>2. w \in VerdictStates /\ b[x] <= b[w]
  BY <1>1, WinnerIsHeaviest
<1> HIDE DEF w
<1>3. b["TotalMass"] \in Nat
  BY <1>1 DEF IsBreakdown, VerdictStates
<1>4. x # w => b[x] + b[w] <= b["TotalMass"]
  <2> SUFFICES ASSUME x # w PROVE b[x] + b[w] <= b["TotalMass"]
    OBVIOUS
  <2>1. /\ b["SUPPORTED"] \in Nat /\ b["UNSUPPORTED"] \in Nat
        /\ b["MISLEADING"] \in Nat /\ b["INDETERMINATE"] \in Nat
    BY <1>1 DEF VerdictStates
  <2>2. QED
    BY <1>2, <2>1 DEF IsBreakdown, VerdictStates
<1>5. b[x] \in Nat /\ b[w] \in Nat
  BY <1>1, <1>2
<1>6. CASE x = w
  BY <1>3, <1>5, <1>6 DEF noMajority, w
<1>7. CASE x # w
  <2>1. ~(2 * b[x] > b["TotalMass"])
    BY <1>2, <1>3, <1>4, <1>5, <1>7
  <2>2. QED
    BY <1>7, <2>1 DEF w
<1>8. QED
  BY <1>6, <1>7

-----------------------------------------------------------------------------
\* The spacing at x is the largest at which x has a normalised significand.
LEMMA UlpIsLargest ==
    ASSUME NEW x \in Nat
    PROVE  /\ Ulp(x) \in Ulps /\ Ulp(x) \in Nat \ {0}
           /\ Ulp(x) = 1 \/ Significand * Ulp(x) <= 2 * x
           /\ \A q \in Ulps : Significand * q <= 2 * x => q <= Ulp(x)
<1> DEFINE S == {q \in Ulps : q = 1 \/ Significand * q <= 2 * x}
<1>1. S \in SUBSET Int /\ S # {} /\ S \in SUBSET Ulps
  <2>1. 1 \in S /\ S \subseteq Ulps
    BY UlpsAssumption
  <2>2. Ulps \subseteq Int
    BY UlpsAssumption
  <2> HIDE DEF S
  <2> QED
    BY <2>1, <2>2
<1>2. IsFiniteSet(S)
  BY <1>1, UlpsAssumption, FS_Subset
<1>3. Ulp(x) = Max(S)
  BY DEF Ulp
<1>4. Ulp(x) \in S /\ \A q \in S : q <= Ulp(x)
  <2> HIDE DEF S
  <2> QED
    BY <1>1, <1>2, <1>3, Extremes
<1> QED
  BY <1>4, UlpsAssumption

\* Multiples of q around x, and which of them Round chooses.
LEMMA RoundIsNearest ==
    ASSUME NEW x \in Nat
    PROVE  /\ Round(x) \in Nat
           /\ \E k \in Nat : Round(x) = Ulp(x) * k
           /\ 2 * (Round(x) - x) <= Ulp(x) /\ 2 * (x - Round(x)) <= Ulp(x)
<1> DEFINE q == Ulp(x)
           m == x \div q
           r == x % q
<1>1. q \in Nat \ {0}
  BY UlpIsLargest
<1>2. m \in Nat /\ r \in 0..(q - 1) /\ x = q * m + r
  <2> HIDE DEF q
  <2> QED
    BY <1>1
<1>3. Round(x) = IF 2 * r < q \/ (2 * r = q /\ m % 2 = 0) THEN q * m ELSE q * (m + 1)
  BY DEF Round
<1> HIDE DEF q, m, r
<1>4. q * (m + 1) = q * m + q /\ q * m \in Nat /\ m + 1 \in Nat
  BY <1>1, <1>2
<1>5. PICK k \in {m, m + 1} : Round(x) = q * k
  BY <1>3
<1>6. Round(x) \in Nat /\ 2 * (Round(x) - x) <= q /\ 2 * (x - Round(x)) <= q
  BY <1>1, <1>2, <1>3, <1>4
<1> QED
  BY <1>2, <1>5, <1>6 DEF q

\* Rounding errs by at most one part in Significand, and never turns a number
\* into 0 or 0 into another.
LEMMA RoundError ==
    ASSUME NEW x \in Nat
    PROVE  /\ Round(x) \in Nat
           /\ Significand * (Round(x) - x) <= x
           /\ Significand * (x - Round(x)) <= x
           /\ Round(x) = 0 <=> x = 0
<1>1. PICK q \in Nat \ {0} : q = Ulp(x)
  BY UlpIsLargest
<1>2. PICK y, k \in Nat : y = Round(x) /\ y = q * k
  BY <1>1, RoundIsNearest
<1>3. 2 * (y - x) <= q /\ 2 * (x - y) <= q /\ (q = 1 \/ Significand * q <= 2 * x)
  BY <1>1, <1>2, UlpIsLargest, RoundIsNearest
<1>4. PICK U \in Nat \ {0} : U = Significand /\ U % 2 = 0
  BY SignificandAssumption
<1>5. \A d \in Int : 2 * d <= q => U * d <= x
  <2> SUFFICES ASSUME NEW d \in Int, 2 * d <= q PROVE U * d <= x
    OBVIOUS
  <2>1. CASE d <= 0
    <3>1. U * d <= 0
      BY <1>4, <2>1
    <3> QED
      BY <3>1, <1>4
  <2>2. CASE d > 0
    <3>1. q # 1 /\ U * q <= 2 * x
      BY <1>3, <1>4, <2>2
    <3>2. U * (2 * d) <= U * q
      BY <1>4
    <3>3. U * (2 * d) = 2 * (U * d) /\ U * d \in Int
      BY <1>4
    <3>4. U * q \in Int
      BY <1>4
    <3> QED
      BY <3>1, <3>2, <3>3, <3>4
  <2> QED
    BY <2>1, <2>2
<1>6. U * (y - x) <= x /\ U * (x - y) <= x
  <2>1. y - x \in Int /\ x - y \in Int
    OBVIOUS
  <2> QED
    BY <1>3, <1>5, <2>1
<1>7. y = 0 => x = 0
  <2> SUFFICES ASSUME y = 0, x > 0 PROVE FALSE
    OBVIOUS
  <2>1. 2 * x <= q /\ U >= 2
    BY <1>3, <1>4
  <2>2. U * q >= 2 * q
    BY <2>1, <1>4
  <2> QED
    BY <1>3, <1>4, <2>1, <2>2
<1>8. x = 0 => y = 0
  <2> SUFFICES ASSUME x = 0 PROVE y = 0
    OBVIOUS
  <2>1. U * q > 0
    BY <1>4
  <2>2. q = 1
    BY <1>3, <1>4, <2>1
  <2> QED
    BY <1>3, <2>2
<1> QED
  BY <1>2, <1>4, <1>6, <1>7, <1>8

\* What is rounded is a float64: rounding it again leaves it as it is.
LEMMA RoundAgain ==
    ASSUME NEW x \in Nat
    PROVE  Round(Round(x)) = Round(x)
<1>1. PICK q \in Nat \ {0} : q = Ulp(x) /\ q \in Ulps
  BY UlpIsLargest
<1>2. PICK y, k \in Nat : y = Round(x) /\ y = q * k
  BY <1>1, RoundIsNearest
<1>3. PICK p \in Nat \ {0} : p = Ulp(y) /\ p \in Ulps
  BY UlpIsLargest
<1>4. PICK U \in Nat \ {0}, h \in Nat : U = Significand /\ U = 2 * h
  <2>1. PICK U \in Nat \ {0} : U = Significand /\ U % 2 = 0
    BY SignificandAssumption
  <2>2. U = 2 * (U \div 2) /\ U \div 2 \in Nat
    BY <2>1
  <2> QED
    BY <2>1, <2>2
<1>5. /\ 2 * (y - x) <= q /\ 2 * (x - y) <= q
      /\ q = 1 \/ U * q <= 2 * x
      /\ \A a \in Ulps : U * a <= 2 * x => a <= q
  BY <1>1, <1>2, <1>4, UlpIsLargest, RoundIsNearest
<1>6. /\ p = 1 \/ U * p <= 2 * y
      /\ \A a \in Ulps : U * a <= 2 * y => a <= p
  BY <1>3, <1>4, UlpIsLargest
<1>7. \A a, b, c \in Nat : a # 0 /\ a * b <= a * c + (a \div 2) => b <= c
  OBVIOUS
<1>8. q <= p
  <2>1. CASE q = 1
    BY <2>1
  <2>2. CASE U * q <= 2 * x
    <3>1. U * q = 2 * (q * h) /\ q * h \in Nat
      BY <1>4
    <3>2. q * h <= x
      BY <2>2, <3>1
    <3>3. 2 * (q * h) <= 2 * (q * k) + q
      BY <1>2, <1>5, <3>1, <3>2
    <3>4. h <= k
      <4> SUFFICES ASSUME h > k PROVE FALSE
        BY <1>4
      <4>1. q * h >= q * (k + 1) /\ q * (k + 1) = q * k + q
        BY <1>4
      <4> QED
        BY <4>1, <3>3, <3>1
    <3>5. q * h <= q * k
      BY <3>4, <1>4
    <3> QED
      BY <1>1, <1>2, <1>6, <3>1, <3>5
  <2> QED
    BY <1>5, <2>1, <2>2
<1>9. \E j \in Nat : y = p * j
  <2>1. CASE p = q
    BY <1>2, <2>1
  <2>2. CASE q < p
    \* y reaches the next spacing's range: it is the first number of it.
    <3>1. p % (2 * q) = 0
      BY <1>1, <1>3, <2>2, UlpsAssumption
    <3>2. PICK c \in Nat : p = (2 * q) * c
      <4>1. p = (2 * q) * (p \div (2 * q)) /\ p \div (2 * q) \in Nat
        BY <3>1
      <4> QED
        BY <4>1
    <3>3. U * p <= 2 * y /\ ~(U * p <= 2 * x)
      BY <1>1, <1>3, <1>5, <1>6, <2>2
    <3>4. U * p = 2 * (h * p) /\ h * p \in Nat
      BY <1>4
    <3>5. h * p <= y /\ x < h * p
      BY <3>3, <3>4
    <3>6. h * p = q * (2 * (h * c)) /\ 2 * (h * c) \in Nat
      <4>1. h * p = h * ((2 * q) * c)
        BY <3>2
      <4>2. h * ((2 * q) * c) = q * (2 * (h * c))
        BY <1>4
      <4> QED
        BY <4>1, <4>2, <1>4
    <3>7. PICK t \in Nat : t = 2 * (h * c)
      BY <3>6
    <3>8. q * t <= q * k /\ 2 * (q * k) < 2 * (q * t) + q
      BY <1>2, <1>5, <3>5, <3>6, <3>7
    <3>9. t = k
      <4>1. t <= k
        <5> SUFFICES ASSUME t > k PROVE FALSE
          OBVIOUS
        <5>1. q * t >= q * (k + 1) /\ q * (k + 1) = q * k + q
          OBVIOUS
        <5> QED
          BY <5>1, <3>8
      <4>2. k <= t
        <5> SUFFICES ASSUME k > t PROVE FALSE
          OBVIOUS
        <5>1. q * k >= q * (t + 1) /\ q * (t + 1) = q * t + q
          OBVIOUS
        <5> QED
          BY <5>1, <3>8
      <4> QED
        BY <4>1, <4>2
    <3> QED
      BY <1>2, <1>4, <3>6, <3>7, <3>9
  <2> QED
    BY <1>8, <2>1, <2>2
<1>10. PICK j \in Nat : y = p * j
  BY <1>9
<1>11. y % p = 0 /\ p * (y \div p) = y
  <2>1. (p * j) % p = 0 /\ (p * j) \div p = j
    OBVIOUS
  <2> QED
    BY <1>10, <2>1
<1>12. Round(y) = IF 2 * (y % p) < p \/ (2 * (y % p) = p /\ (y \div p) % 2 = 0)
                  THEN p * (y \div p) ELSE p * ((y \div p) + 1)
  BY <1>3 DEF Round
<1>13. Round(y) = y
  BY <1>11, <1>12
<1> QED
  BY <1>2, <1>13
-----------------------------------------------------------------------------
\* vs has only votes that validateVote accepts.
Valid(vs) == Len(vs) \in Nat /\ \A i \in 1..Len(vs) : validateVote(vs[i])

Masses == VerdictStates \cup {"TotalMass"}

\* What each vote adds to the mass of x.
Share(vs, x) ==
    [i \in 1..Len(vs) |-> IF x = "TotalMass" \/ vs[i].Verdict = x THEN adjustedWeight(vs[i]) ELSE 0]

Mass(vs, x) == SumFunctionOnSet(Share(vs, x), 1..Len(vs))

\* The masses of the first i votes.
Prefix(vs, i) == [x \in Masses |-> SumFunctionOnSet(Share(vs, x), 1..i)]

LEMMA WeightType ==
    ASSUME NEW v, validateVote(v)
    PROVE  adjustedWeight(v) \in Nat /\ v.Confidence * adjustedWeight(v) \in Nat
<1>1. v.Confidence \in Nat /\ v.DomainReputation \in Nat /\ Scale - v.BiasCoefficient \in Nat
  <2>1. \A a \in 0..Scale : a \in Nat /\ Scale - a \in Nat
    BY ScaleAssumption
  <2> QED
    BY <2>1 DEF validateVote
<1>2. \A a, b \in Nat : a * b \in Nat
  OBVIOUS
<1>3. v.Confidence * v.DomainReputation \in Nat
  BY <1>1, <1>2
<1>4. adjustedWeight(v) \in Nat
  BY <1>1, <1>2, <1>3 DEF adjustedWeight
<1> QED
  BY <1>1, <1>2, <1>4

LEMMA ShareType ==
    ASSUME NEW vs, Valid(vs), NEW x
    PROVE  /\ \A i \in 1..Len(vs) : Share(vs, x)[i] \in Nat /\ Share(vs, x)[i] \in Int
           /\ Summable(Share(vs, x), 1..Len(vs))
<1>1. \A i \in 1..Len(vs) : Share(vs, x)[i] \in Nat
  BY WeightType DEF Valid, Share
<1>2. \A k \in Nat : k \in Int
  OBVIOUS
<1>3. IsFiniteSet(1..Len(vs))
  BY IntervalGrows DEF Valid
<1> QED
  BY <1>1, <1>2, <1>3 DEF Summable

LEMMA PrefixStart == ASSUME NEW vs PROVE Prefix(vs, 0) = NoMass
<1>1. 1..0 = {}
  OBVIOUS
<1> QED
  BY <1>1, SumEmpty DEF Prefix, NoMass, Masses

LEMMA PrefixStep ==
    ASSUME NEW vs, Valid(vs), NEW i \in 1..Len(vs)
    PROVE  Prefix(vs, i) = [Prefix(vs, i - 1) EXCEPT
                                ![vs[i].Verdict] = @ + adjustedWeight(vs[i]),
                                !["TotalMass"] = @ + adjustedWeight(vs[i])]
<1> DEFINE P == Prefix(vs, i - 1)
           w == adjustedWeight(vs[i])
<1>1. Len(vs) \in Nat /\ i - 1 \in Nat /\ (i - 1) + 1 = i
  BY DEF Valid
<1>2. ASSUME NEW x \in Masses
      PROVE  /\ Prefix(vs, i)[x] = P[x] + Share(vs, x)[i]
             /\ P[x] \in Int
  <2>1. \A j \in 1..i : Share(vs, x)[j] \in Int
    BY <1>1, ShareType
  <2>2. \A j \in 1..(i - 1) : Share(vs, x)[j] \in Int
    BY <1>1, <2>1
  <2>3. SumFunctionOnSet(Share(vs, x), 1..i) =
            Share(vs, x)[i] + SumFunctionOnSet(Share(vs, x), 1..(i - 1))
    BY <1>1, <2>1, SumOfInterval
  <2>4. SumFunctionOnSet(Share(vs, x), 1..(i - 1)) \in Int
    BY <1>1, <2>2, IntervalGrows, SumType DEF Summable
  <2>5. Share(vs, x)[i] \in Int
    BY <1>1, <2>1
  <2> QED
    BY <2>3, <2>4, <2>5 DEF Prefix
<1>3. vs[i].Verdict \in VerdictStates /\ w \in Nat
  BY WeightType DEF Valid, validateVote
<1>4. "TotalMass" \notin VerdictStates
  BY DEF VerdictStates
<1>5. ASSUME NEW x \in Masses
      PROVE  Share(vs, x)[i] = IF x = "TotalMass" \/ vs[i].Verdict = x THEN w ELSE 0
  BY DEF Share
<1>6. DOMAIN P = Masses /\ P = [x \in Masses |-> P[x]] /\ Prefix(vs, i) = [x \in Masses |-> Prefix(vs, i)[x]]
  BY DEF Prefix
<1> HIDE DEF P, w
<1>7. [P EXCEPT ![vs[i].Verdict] = @ + w, !["TotalMass"] = @ + w] =
          [x \in Masses |-> IF x = "TotalMass" \/ vs[i].Verdict = x THEN P[x] + w ELSE P[x]]
  BY <1>3, <1>4, <1>6 DEF Masses
<1>8. \A x \in Masses :
          Prefix(vs, i)[x] = IF x = "TotalMass" \/ vs[i].Verdict = x THEN P[x] + w ELSE P[x]
  BY <1>2, <1>3, <1>5
<1> QED
  BY <1>6, <1>7, <1>8 DEF P, w

\* The exact masses of the first votes add up to their exact total.
LEMMA PrefixAddsUp ==
    ASSUME NEW vs, Valid(vs)
    PROVE  \A i \in 0..Len(vs) : Prefix(vs, i) \in [Masses -> Nat] /\ IsBreakdown(Prefix(vs, i))
<1> DEFINE N == {i \in Nat : i <= Len(vs) =>
                     Prefix(vs, i) \in [Masses -> Nat] /\ IsBreakdown(Prefix(vs, i))}
<1>1. Len(vs) \in Nat
  BY DEF Valid
<1>2. 0 \in N
  <2>1. NoMass \in [Masses -> Nat] /\ IsBreakdown(NoMass)
    BY DEF NoMass, Masses, IsBreakdown, VerdictStates
  <2> QED
    BY <2>1, PrefixStart
<1>3. ASSUME NEW i \in Nat, i \in N PROVE i + 1 \in N
  <2> SUFFICES ASSUME i + 1 <= Len(vs)
               PROVE  Prefix(vs, i + 1) \in [Masses -> Nat] /\ IsBreakdown(Prefix(vs, i + 1))
    OBVIOUS
  <2> DEFINE P == Prefix(vs, i)
             Q == Prefix(vs, i + 1)
             w == adjustedWeight(vs[i + 1])
             v == vs[i + 1].Verdict
  <2>1. i + 1 \in 1..Len(vs) /\ (i + 1) - 1 = i /\ i <= Len(vs)
    BY <1>1
  <2>2. Q = [P EXCEPT ![v] = @ + w, !["TotalMass"] = @ + w]
    BY <2>1, PrefixStep
  <2>3. v \in VerdictStates /\ w \in Nat
    BY <2>1, WeightType DEF Valid, validateVote
  <2>4. P \in [Masses -> Nat] /\ IsBreakdown(P)
    BY <1>3, <2>1
  <2> HIDE DEF P, Q, w, v
  <2>5. "TotalMass" \notin VerdictStates /\ Masses = VerdictStates \cup {"TotalMass"}
    BY DEF VerdictStates, Masses
  <2>6. Q \in [Masses -> Nat]
    BY <2>2, <2>3, <2>4, <2>5
  <2>7. /\ \A x \in VerdictStates : Q[x] = IF x = v THEN P[x] + w ELSE P[x]
        /\ Q["TotalMass"] = P["TotalMass"] + w
    BY <2>2, <2>3, <2>4, <2>5
  <2>8. \A x \in Masses : P[x] \in Nat
    BY <2>4
  <2>9. Q["TotalMass"] = Q["SUPPORTED"] + Q["UNSUPPORTED"] + Q["MISLEADING"] + Q["INDETERMINATE"]
    BY <2>3, <2>4, <2>7, <2>8, SMTT(30) DEF IsBreakdown, VerdictStates, Masses
  <2>10. IsBreakdown(Q)
    BY <2>5, <2>6, <2>9 DEF IsBreakdown
  <2> QED
    BY <2>6, <2>10 DEF Q
<1>4. Nat \subseteq N
  <2> HIDE DEF N
  <2> QED
    BY <1>2, <1>3, SetInduction
<1> HIDE DEF N
<1>5. \A i \in 0..Len(vs) : i \in N /\ i <= Len(vs)
  BY <1>1, <1>4
<1> QED
  BY <1>5 DEF N

LEMMA ExactAddsUp ==
    ASSUME NEW vs, Valid(vs)
    PROVE  /\ IsBreakdown([x \in Masses |-> Mass(vs, x)])
           /\ \A x \in Masses : Mass(vs, x) \in Nat
           /\ \A x \in VerdictStates : Mass(vs, x) <= Mass(vs, "TotalMass")
<1> DEFINE P == Prefix(vs, Len(vs))
<1>1. P \in [Masses -> Nat] /\ IsBreakdown(P)
  <2>1. Len(vs) \in 0..Len(vs)
    BY DEF Valid
  <2> QED
    BY <2>1, PrefixAddsUp
<1>2. P = [x \in Masses |-> Mass(vs, x)]
  BY DEF Prefix, Mass
<1>3. \A x \in Masses : P[x] = Mass(vs, x)
  BY <1>2
<1> HIDE DEF P
<1>4. \A x \in Masses : Mass(vs, x) \in Nat
  BY <1>1, <1>3
<1>5. \A x \in VerdictStates : P[x] <= P["TotalMass"]
  <2>1. \A x \in VerdictStates : P[x] \in Nat
    BY <1>1 DEF Masses
  <2> QED
    BY <1>1, <2>1 DEF IsBreakdown, VerdictStates
<1>6. \A x \in VerdictStates : x \in Masses /\ "TotalMass" \in Masses
  BY DEF Masses
<1> QED
  BY <1>1, <1>2, <1>3, <1>4, <1>5, <1>6

-----------------------------------------------------------------------------
\* The body of aggregateWeights' loop, for vote i.
Added(vs, b, i) ==
    [b EXCEPT ![vs[i].Verdict] = Round(@ + adjustedWeight(vs[i])),
              !["TotalMass"] = Round(@ + adjustedWeight(vs[i]))]

\* b[i] is the breakdown after the first i of n votes.
IsLoop(vs, b, n) == b = [i \in 0..n |-> IF i = 0 THEN NoMass ELSE Added(vs, b[i - 1], i)]

LEMMA LoopSteps ==
    ASSUME NEW vs, NEW n \in Nat, NEW b, IsLoop(vs, b, n)
    PROVE  b[0] = NoMass /\ \A i \in 1..n : b[i] = Added(vs, b[i - 1], i)
<1> DEFINE F(i) == IF i = 0 THEN NoMass ELSE Added(vs, b[i - 1], i)
<1>1. b = [i \in 0..n |-> F(i)]
  BY DEF IsLoop
<1>2. \A i \in 1..n : i \in 0..n /\ i # 0
  OBVIOUS
<1>3. 0 \in 0..n
  OBVIOUS
<1> HIDE DEF F
<1>4. \A i \in 0..n : b[i] = F(i)
  BY <1>1
<1>5. b[0] = F(0) /\ \A i \in 1..n : b[i] = F(i)
  BY <1>2, <1>3, <1>4
<1> QED
  BY <1>2, <1>5 DEF F

\* The loop's recursive definition has a solution, by induction over n.
LEMMA LoopExists ==
    ASSUME NEW vs
    PROVE  \A n \in Nat : \E b : IsLoop(vs, b, n)
<1> DEFINE N == {n \in Nat : \E b : IsLoop(vs, b, n)}
<1>1. 0 \in N
  <2> DEFINE b == [i \in 0..0 |-> NoMass]
  <2>1. \A i \in 0..0 : i = 0
    OBVIOUS
  <2>2. b = [i \in 0..0 |-> IF i = 0 THEN NoMass ELSE Added(vs, b[i - 1], i)]
    BY <2>1
  <2>3. IsLoop(vs, b, 0)
    BY <2>2 DEF IsLoop
  <2> QED
    BY <2>3
<1>2. ASSUME NEW n \in Nat, n \in N PROVE n + 1 \in N
  <2>1. PICK b : IsLoop(vs, b, n)
    BY <1>2
  <2>2. b[0] = NoMass /\ \A i \in 1..n : b[i] = Added(vs, b[i - 1], i)
    BY <2>1, LoopSteps
  <2> DEFINE c == [i \in 0..(n + 1) |-> IF i = n + 1 THEN Added(vs, b[n], n + 1) ELSE b[i]]
  <2>3. \A i \in 0..n : c[i] = b[i]
    OBVIOUS
  <2>4. c[n + 1] = Added(vs, b[n], n + 1)
    OBVIOUS
  <2>5. DOMAIN c = 0..(n + 1) /\ c = [i \in 0..(n + 1) |-> c[i]]
    OBVIOUS
  <2> HIDE DEF c
  <2>6. ASSUME NEW i \in 0..(n + 1)
        PROVE  c[i] = IF i = 0 THEN NoMass ELSE Added(vs, c[i - 1], i)
    <3>1. CASE i = 0
      <4>1. 0 \in 0..n
        OBVIOUS
      <4> QED
        BY <2>2, <2>3, <3>1, <4>1
    <3>2. CASE i \in 1..n
      <4>1. i - 1 \in 0..n /\ i \in 0..n /\ i # 0
        BY <3>2
      <4>2. c[i] = b[i] /\ c[i - 1] = b[i - 1]
        BY <2>3, <4>1
      <4> QED
        BY <2>2, <3>2, <4>1, <4>2
    <3>3. CASE i = n + 1
      <4>1. i - 1 = n /\ n \in 0..n /\ i # 0
        BY <3>3
      <4> QED
        BY <2>3, <2>4, <3>3, <4>1
    <3>4. i = 0 \/ i \in 1..n \/ i = n + 1
      OBVIOUS
    <3> QED
      BY <3>1, <3>2, <3>3, <3>4
  <2>7. IsLoop(vs, c, n + 1)
    BY <2>5, <2>6 DEF IsLoop
  <2> QED
    BY <2>7
<1>3. Nat \subseteq N
  <2> HIDE DEF N
  <2> QED
    BY <1>1, <1>2, SetInduction
<1> QED
  BY <1>3

\* aggregateWeights returns what its loop arrives at.
LEMMA Aggregate ==
    ASSUME NEW vs, Len(vs) \in Nat
    PROVE  \E b : IsLoop(vs, b, Len(vs)) /\ aggregateWeights(vs) = b[Len(vs)]
<1>1. aggregateWeights(vs) = (CHOOSE b : IsLoop(vs, b, Len(vs)))[Len(vs)]
  BY DEF aggregateWeights, IsLoop, Added
<1>2. \E b : IsLoop(vs, b, Len(vs))
  BY LoopExists
<1> QED
  BY <1>1, <1>2

\* What a vote does to the mass of x, rounded or not.
LEMMA AddedMasses ==
    ASSUME NEW vs, Valid(vs), NEW i \in 1..Len(vs), NEW b \in [Masses -> Nat]
    PROVE  /\ Added(vs, b, i) \in [Masses -> Nat]
           /\ \A x \in Masses :
                  Added(vs, b, i)[x] =
                      IF x = "TotalMass" \/ vs[i].Verdict = x
                      THEN Round(b[x] + adjustedWeight(vs[i])) ELSE b[x]
           /\ \A x \in Masses :
                  Prefix(vs, i)[x] =
                      IF x = "TotalMass" \/ vs[i].Verdict = x
                      THEN Prefix(vs, i - 1)[x] + adjustedWeight(vs[i]) ELSE Prefix(vs, i - 1)[x]
<1> DEFINE w == adjustedWeight(vs[i])
           v == vs[i].Verdict
           P == Prefix(vs, i - 1)
<1>1. v \in VerdictStates /\ w \in Nat
  BY WeightType DEF Valid, validateVote
<1>2. "TotalMass" \notin VerdictStates /\ Masses = VerdictStates \cup {"TotalMass"}
  BY DEF VerdictStates, Masses
<1>3. Added(vs, b, i) = [b EXCEPT ![v] = Round(@ + w), !["TotalMass"] = Round(@ + w)]
  BY DEF Added
<1>4. Prefix(vs, i) = [P EXCEPT ![v] = @ + w, !["TotalMass"] = @ + w]
  BY PrefixStep
<1>5. DOMAIN P = Masses
  BY DEF Prefix
<1> HIDE DEF w, v, P
<1>6. \A x \in Masses : Round(b[x] + w) \in Nat
  <2>1. \A x \in Masses : b[x] + w \in Nat
    BY <1>1
  <2> QED
    BY <2>1, RoundError
<1>7. \A x \in Masses : Added(vs, b, i)[x] = IF x = "TotalMass" \/ v = x THEN Round(b[x] + w) ELSE b[x]
  BY <1>1, <1>2, <1>3
<1>8. \A x \in Masses : Prefix(vs, i)[x] = IF x = "TotalMass" \/ v = x THEN P[x] + w ELSE P[x]
  BY <1>1, <1>2, <1>4, <1>5
<1>9. Added(vs, b, i) \in [Masses -> Nat]
  BY <1>1, <1>2, <1>3, <1>6
<1> QED
  BY <1>7, <1>8, <1>9 DEF w, v, P

\* One addition more, and its rounding, on a sum that is off by at most 2 * i
\* parts in u.
LEMMA ErrorGrows ==
    ASSUME NEW u \in Nat, NEW i \in Nat, 2 * i + 2 <= u,
           NEW b \in Nat, NEW e \in Nat, NEW w \in Nat, NEW r \in Nat,
           u * (b - e) <= 2 * i * e, u * (e - b) <= 2 * i * e,
           u * (r - (b + w)) <= b + w, u * ((b + w) - r) <= b + w
    PROVE  /\ u * (r - (e + w)) <= 2 * (i + 1) * (e + w)
           /\ u * ((e + w) - r) <= 2 * (i + 1) * (e + w)
<1>1. 2 * i * e <= u * e
  OBVIOUS
<1>2. b - e <= e
  <2> SUFFICES ASSUME b - e > e PROVE FALSE
    OBVIOUS
  <2>1. u * (b - e) >= u * (e + 1) /\ u * (e + 1) = u * e + u
    OBVIOUS
  <2>2. u * e \in Int /\ u * (b - e) \in Int /\ 2 * i * e \in Int
    OBVIOUS
  <2> QED
    BY <1>1, <2>1, <2>2
<1>3. /\ u * (r - (e + w)) = u * (r - (b + w)) + u * (b - e)
      /\ u * ((e + w) - r) = u * ((b + w) - r) + u * (e - b)
  OBVIOUS
<1>4. 2 * (i + 1) * (e + w) = 2 * i * e + 2 * (i * w) + 2 * e + 2 * w /\ i * w \in Nat
  OBVIOUS
<1>5. 2 * i * e \in Int /\ u * (r - (b + w)) \in Int /\ u * (b - e) \in Int
      /\ u * ((b + w) - r) \in Int /\ u * (e - b) \in Int
  OBVIOUS
<1> QED
  BY <1>2, <1>3, <1>4, <1>5

\* How far a running mass is from the exact one: both are 0 or neither is, the
\* running one is a float64, and i additions err by at most 2 * i parts in
\* Significand.
Near(b, e, i) ==
    /\ b = 0 <=> e = 0
    /\ Round(b) = b
    /\ 2 * i <= Significand =>
           Significand * (b - e) <= 2 * i * e /\ Significand * (e - b) <= 2 * i * e

LEMMA NearGrows ==
    ASSUME NEW b \in Nat, NEW e \in Nat, NEW i \in Nat, NEW w \in Nat, Near(b, e, i)
    PROVE  Near(Round(b + w), e + w, i + 1) /\ Near(b, e, i + 1)
<1>1. PICK u \in Nat : u = Significand
  BY SignificandAssumption
<1>2. b + w \in Nat
  OBVIOUS
<1>3. PICK r \in Nat : r = Round(b + w)
  BY <1>2, RoundError
<1>4. /\ u * (r - (b + w)) <= b + w /\ u * ((b + w) - r) <= b + w
      /\ r = 0 <=> b + w = 0
      /\ Round(r) = r
  BY <1>1, <1>2, <1>3, RoundError, RoundAgain
<1>5. /\ b = 0 <=> e = 0
      /\ Round(b) = b
      /\ 2 * i <= u => u * (b - e) <= 2 * i * e /\ u * (e - b) <= 2 * i * e
  BY <1>1 DEF Near
<1>6. r = 0 <=> e + w = 0
  BY <1>4, <1>5
<1>7. ASSUME 2 * (i + 1) <= u
      PROVE  /\ u * (r - (e + w)) <= 2 * (i + 1) * (e + w)
             /\ u * ((e + w) - r) <= 2 * (i + 1) * (e + w)
             /\ u * (b - e) <= 2 * (i + 1) * e /\ u * (e - b) <= 2 * (i + 1) * e
  <2>1. 2 * i + 2 <= u /\ 2 * i <= u
    BY <1>7
  <2>2. u * (b - e) <= 2 * i * e /\ u * (e - b) <= 2 * i * e
    BY <1>5, <2>1
  <2>3. /\ u * (r - (e + w)) <= 2 * (i + 1) * (e + w)
        /\ u * ((e + w) - r) <= 2 * (i + 1) * (e + w)
    BY <1>4, <2>1, <2>2, ErrorGrows
  <2>4. 2 * (i + 1) * e = 2 * i * e + 2 * e /\ 2 * i * e \in Int
        /\ u * (b - e) \in Int /\ u * (e - b) \in Int
    OBVIOUS
  <2> QED
    BY <2>2, <2>3, <2>4
<1> QED
  BY <1>1, <1>3, <1>4, <1>5, <1>6, <1>7 DEF Near

\* The running masses are near the exact ones.
LEMMA LoopIsNear ==
    ASSUME NEW vs, Valid(vs), NEW b, IsLoop(vs, b, Len(vs))
    PROVE  \A i \in 0..Len(vs) :
               b[i] \in [Masses -> Nat] /\ \A x \in Masses : Near(b[i][x], Prefix(vs, i)[x], i)
<1> DEFINE N == {i \in Nat : i <= Len(vs) =>
                     b[i] \in [Masses -> Nat] /\ \A x \in Masses : Near(b[i][x], Prefix(vs, i)[x], i)}
<1>1. Len(vs) \in Nat
  BY DEF Valid
<1>2. b[0] = NoMass /\ \A i \in 1..Len(vs) : b[i] = Added(vs, b[i - 1], i)
  BY <1>1, LoopSteps
<1>3. 0 \in N
  <2>1. NoMass \in [Masses -> Nat] /\ \A x \in Masses : NoMass[x] = 0
    BY DEF NoMass, Masses
  <2>2. Near(0, 0, 0)
    <3>1. Round(0) = 0
      BY RoundError
    <3>2. \A u \in Nat : u * (0 - 0) <= 2 * 0 * 0
      OBVIOUS
    <3> QED
      BY <3>1, <3>2, SignificandAssumption DEF Near
  <2> QED
    BY <1>2, <2>1, <2>2, PrefixStart
<1>4. ASSUME NEW i \in Nat, i \in N PROVE i + 1 \in N
  <2> SUFFICES ASSUME i + 1 <= Len(vs)
               PROVE  /\ b[i + 1] \in [Masses -> Nat]
                      /\ \A x \in Masses : Near(b[i + 1][x], Prefix(vs, i + 1)[x], i + 1)
    OBVIOUS
  <2>1. i + 1 \in 1..Len(vs) /\ (i + 1) - 1 = i /\ i <= Len(vs) /\ i \in 0..Len(vs)
    BY <1>1
  <2>2. b[i] \in [Masses -> Nat] /\ \A x \in Masses : Near(b[i][x], Prefix(vs, i)[x], i)
    BY <1>4, <2>1
  <2>3. b[i + 1] = Added(vs, b[i], i + 1)
    BY <1>2, <2>1
  <2> DEFINE w == adjustedWeight(vs[i + 1])
             Counts(x) == x = "TotalMass" \/ vs[i + 1].Verdict = x
  <2>4. /\ b[i + 1] \in [Masses -> Nat]
        /\ \A x \in Masses : b[i + 1][x] = IF Counts(x) THEN Round(b[i][x] + w) ELSE b[i][x]
        /\ \A x \in Masses :
               Prefix(vs, i + 1)[x] = IF Counts(x) THEN Prefix(vs, i)[x] + w ELSE Prefix(vs, i)[x]
    BY <2>1, <2>2, <2>3, AddedMasses
  <2>5. w \in Nat
    BY <2>1, WeightType DEF Valid
  <2>6. Prefix(vs, i) \in [Masses -> Nat]
    BY <2>1, PrefixAddsUp
  <2> HIDE DEF w, Counts
  <2>7. ASSUME NEW x \in Masses PROVE Near(b[i + 1][x], Prefix(vs, i + 1)[x], i + 1)
    <3>1. b[i][x] \in Nat /\ Prefix(vs, i)[x] \in Nat /\ Near(b[i][x], Prefix(vs, i)[x], i)
      BY <2>2, <2>6
    <3>2. /\ Near(Round(b[i][x] + w), Prefix(vs, i)[x] + w, i + 1)
          /\ Near(b[i][x], Prefix(vs, i)[x], i + 1)
      BY <2>5, <3>1, NearGrows
    <3> QED
      BY <2>4, <3>2
  <2> QED
    BY <2>4, <2>7
<1>5. Nat \subseteq N
  <2> HIDE DEF N
  <2> QED
    BY <1>3, <1>4, SetInduction
<1> HIDE DEF N
<1>6. \A i \in 0..Len(vs) : i \in N /\ i <= Len(vs)
  BY <1>1, <1>5
<1> QED
  BY <1>6 DEF N

\* How far the masses of aggregateWeights are from the exact ones.
LEMMA AggregateIsNear ==
    ASSUME NEW vs, Valid(vs)
    PROVE  /\ aggregateWeights(vs) \in [Masses -> Nat]
           /\ \A x \in Masses : Near(aggregateWeights(vs)[x], Mass(vs, x), Len(vs))
<1>1. Len(vs) \in Nat /\ Len(vs) \in 0..Len(vs)
  BY DEF Valid
<1>2. PICK b : IsLoop(vs, b, Len(vs)) /\ aggregateWeights(vs) = b[Len(vs)]
  BY <1>1, Aggregate
<1>3. /\ b[Len(vs)] \in [Masses -> Nat]
      /\ \A x \in Masses : Near(b[Len(vs)][x], Prefix(vs, Len(vs))[x], Len(vs))
  BY <1>1, <1>2, LoopIsNear
<1>4. \A x \in Masses : Prefix(vs, Len(vs))[x] = Mass(vs, x)
  BY DEF Prefix, Mass
<1> QED
  BY <1>2, <1>3, <1>4

\* One more vote goes through the body of the loop once more.
LEMMA AggregateAppend ==
    ASSUME NEW vs, Len(vs) \in Nat, NEW ws, Len(ws) = Len(vs) + 1,
           \A i \in 1..Len(vs) : ws[i] = vs[i]
    PROVE  aggregateWeights(ws) = Added(ws, aggregateWeights(vs), Len(ws))
<1> DEFINE n == Len(vs)
<1>1. PICK b : IsLoop(vs, b, n) /\ aggregateWeights(vs) = b[n]
  BY Aggregate
<1>2. PICK c : IsLoop(ws, c, n + 1) /\ aggregateWeights(ws) = c[n + 1]
  <2>1. Len(ws) \in Nat
    OBVIOUS
  <2> QED
    BY <2>1, Aggregate
<1>3. b[0] = NoMass /\ \A i \in 1..n : b[i] = Added(vs, b[i - 1], i)
  BY <1>1, LoopSteps
<1>4. c[0] = NoMass /\ \A i \in 1..(n + 1) : c[i] = Added(ws, c[i - 1], i)
  <2>1. n + 1 \in Nat
    OBVIOUS
  <2> QED
    BY <1>2, <2>1, LoopSteps
<1> DEFINE N == {i \in Nat : i <= n => c[i] = b[i]}
<1>5. 0 \in N
  BY <1>3, <1>4
<1>6. ASSUME NEW i \in Nat, i \in N PROVE i + 1 \in N
  <2> SUFFICES ASSUME i + 1 <= n PROVE c[i + 1] = b[i + 1]
    OBVIOUS
  <2>1. i + 1 \in 1..n /\ i + 1 \in 1..(n + 1) /\ (i + 1) - 1 = i /\ i <= n
    OBVIOUS
  <2>2. b[i + 1] = Added(vs, b[i], i + 1) /\ c[i + 1] = Added(ws, c[i], i + 1) /\ c[i] = b[i]
    BY <1>3, <1>4, <1>6, <2>1
  <2>3. ws[i + 1] = vs[i + 1]
    BY <2>1
  <2> QED
    BY <2>2, <2>3 DEF Added
<1>7. Nat \subseteq N
  <2> HIDE DEF N
  <2> QED
    BY <1>5, <1>6, SetInduction
<1>8. c[n] = b[n]
  BY <1>7
<1>9. n + 1 \in 1..(n + 1) /\ (n + 1) - 1 = n
  OBVIOUS
<1> QED
  BY <1>1, <1>2, <1>4, <1>8, <1>9

\* When all votes are for one verdict, its mass is the total, rounded or not.
LEMMA Unanimous ==
    ASSUME NEW vs, Valid(vs), NEW x \in VerdictStates,
           \A i \in 1..Len(vs) : vs[i].Verdict = x
    PROVE  aggregateWeights(vs)[x] = aggregateWeights(vs)["TotalMass"]
<1>1. Len(vs) \in Nat
  BY DEF Valid
<1>2. PICK b : IsLoop(vs, b, Len(vs)) /\ aggregateWeights(vs) = b[Len(vs)]
  BY <1>1, Aggregate
<1>3. b[0] = NoMass /\ \A i \in 1..Len(vs) : b[i] = Added(vs, b[i - 1], i)
  BY <1>1, <1>2, LoopSteps
<1> DEFINE N == {i \in Nat : i <= Len(vs) => b[i][x] = b[i]["TotalMass"]}
<1>4. x \in Masses /\ "TotalMass" \in Masses
  BY DEF Masses
<1>5. 0 \in N
  BY <1>3, <1>4 DEF NoMass, Masses
<1>6. ASSUME NEW i \in Nat, i \in N PROVE i + 1 \in N
  <2> SUFFICES ASSUME i + 1 <= Len(vs) PROVE b[i + 1][x] = b[i + 1]["TotalMass"]
    OBVIOUS
  <2>1. i + 1 \in 1..Len(vs) /\ (i + 1) - 1 = i /\ i <= Len(vs) /\ i \in 0..Len(vs)
    BY <1>1
  <2>2. b[i] \in [Masses -> Nat]
    BY <1>2, <2>1, LoopIsNear
  <2>3. b[i + 1] = Added(vs, b[i], i + 1)
    BY <1>3, <2>1
  <2>4. \A y \in Masses :
            b[i + 1][y] = IF y = "TotalMass" \/ vs[i + 1].Verdict = y
                          THEN Round(b[i][y] + adjustedWeight(vs[i + 1])) ELSE b[i][y]
    BY <2>1, <2>2, <2>3, AddedMasses
  <2>5. b[i][x] = b[i]["TotalMass"] /\ vs[i + 1].Verdict = x
    BY <1>6, <2>1
  <2> QED
    BY <1>4, <2>4, <2>5
<1>7. Nat \subseteq N
  <2> HIDE DEF N
  <2> QED
    BY <1>5, <1>6, SetInduction
<1> QED
  BY <1>1, <1>2, <1>7

\* A verdict that all votes are for, and that they give weight to, is the winner
\* and has all of the mass.
LEMMA UnanimousWins ==
    ASSUME NEW vs, Valid(vs), Len(vs) > 0, NEW x \in VerdictStates,
           \A i \in 1..Len(vs) : vs[i].Verdict = x /\ adjustedWeight(vs[i]) > 0
    PROVE  LET b == aggregateWeights(vs)
           IN  /\ b["TotalMass"] \in Nat \ {0} /\ b[x] = b["TotalMass"]
               /\ findWinner(b) = x
<1> DEFINE b == aggregateWeights(vs)
           w == findWinner(b)
           I == 1..Len(vs)
<1>1. /\ b \in [Masses -> Nat] /\ \A y \in Masses : b[y] = 0 <=> Mass(vs, y) = 0
  BY AggregateIsNear DEF Near
<1>2. b[x] = b["TotalMass"]
  BY Unanimous
<1>3. Len(vs) \in Nat /\ IsFiniteSet(I) /\ Cardinality(I) = Len(vs)
  BY IntervalGrows DEF Valid
<1>4. x \in Masses /\ "TotalMass" \in Masses /\ \A y \in VerdictStates : b[y] \in Nat
  BY <1>1 DEF Masses
<1>5. w \in VerdictStates /\ b[x] <= b[w]
  BY <1>4, WinnerIsHeaviest
<1> HIDE DEF b, w
<1>6. Mass(vs, x) # 0
  <2> DEFINE f == Share(vs, x)
             one == [i \in I |-> 1]
  <2>1. \A i \in I : f[i] = adjustedWeight(vs[i]) /\ adjustedWeight(vs[i]) \in Nat
    BY WeightType DEF Share, Valid
  <2>2. \A i \in I : one[i] = 1 /\ one[i] \in Int /\ one[i] <= f[i]
    BY <2>1
  <2>3. Summable(f, I)
    BY ShareType
  <2> HIDE DEF f, one
  <2>4. Summable(one, I) /\ 1 \in Int
    BY <1>3, <2>2 DEF Summable
  <2>5. SumFunctionOnSet(one, I) <= SumFunctionOnSet(f, I)
    BY <2>2, <2>3, <2>4, SumMonotone
  <2>6. SumFunctionOnSet(one, I) = 1 * Cardinality(I)
    BY <1>3, <2>2, <2>4, SumConstant
  <2>7. SumFunctionOnSet(f, I) \in Int
    BY <2>3, SumType
  <2>8. 1 <= SumFunctionOnSet(f, I)
    BY <1>3, <2>5, <2>6, <2>7
  <2> QED
    BY <2>7, <2>8 DEF Mass, f
<1>7. ASSUME w # x PROVE Mass(vs, w) = 0
  <2> DEFINE f == Share(vs, w)
  <2>1. w # "TotalMass"
    BY <1>5 DEF VerdictStates
  <2>2. \A i \in I : f[i] = 0
    BY <1>7, <2>1 DEF Share
  <2> HIDE DEF f
  <2>3. SumFunctionOnSet(f, I) = 0 * Cardinality(I) /\ 0 \in Int
    BY <1>3, <2>2, SumConstant
  <2> QED
    BY <1>3, <2>3 DEF Mass, f
<1>8. b[x] \in Nat /\ b[x] # 0
  BY <1>1, <1>4, <1>6
<1>9. w = x
  <2>1. w \in Masses
    BY <1>5 DEF Masses
  <2>2. w # x => b[w] = 0
    BY <1>1, <1>7, <2>1
  <2> QED
    BY <1>5, <1>8, <2>2
<1> QED
  BY <1>2, <1>8, <1>9 DEF b, w

-----------------------------------------------------------------------------
\* validatorSetSize <= 0 stands for the number of votes.
HasQuorum(n, setSize) == setSize <= 0 \/ 3 * n >= 2 * setSize

\* Do the votes for x make up more than half of the total, as they are summed?
Outweighs(vs, x) == 2 * aggregateWeights(vs)[x] > aggregateWeights(vs)["TotalMass"]

\* The result for valid votes: with a quorum, the heaviest verdict if it has
\* more than half of the mass, and INDETERMINATE otherwise.
LEMMA Decision ==
    ASSUME NEW vs, Valid(vs), Len(vs) > 0, NEW setSize \in Int
    PROVE  LET r == ComputeConsensus(vs, setSize)
               x == findWinner(aggregateWeights(vs))
           IN  /\ r.err = "nil" /\ r.Breakdown = aggregateWeights(vs)
               /\ x \in VerdictStates
               /\ \A y \in VerdictStates : aggregateWeights(vs)[y] <= aggregateWeights(vs)[x]
               /\ IF HasQuorum(Len(vs), setSize) /\ Outweighs(vs, x)
                  THEN r = Result(x, computeConfidence(vs, x), aggregateWeights(vs))
                  ELSE r = Result("INDETERMINATE", 0, aggregateWeights(vs))
<1> DEFINE n == Len(vs)
           size == IF setSize <= 0 THEN n ELSE setSize
           b == aggregateWeights(vs)
           w == findWinner(b)
           r == ComputeConsensus(vs, setSize)
<1>1. n \in Nat /\ n > 0 /\ ~(\E i \in 1..n : ~validateVote(vs[i]))
  BY DEF Valid
<1>2. b \in [Masses -> Nat] /\ \A x \in Masses : b[x] = 0 <=> Mass(vs, x) = 0
  BY AggregateIsNear DEF Near
<1>3. r = IF belowQuorum(n, size) \/ b["TotalMass"] = 0 \/ noMajority(b[w], b["TotalMass"])
          THEN Result("INDETERMINATE", 0, b)
          ELSE Result(w, computeConfidence(vs, w), b)
  <2>1. n # 0
    BY <1>1
  <2> QED
    BY ONLY <1>1, <2>1 DEF ComputeConsensus
<1> HIDE DEF b
<1>4. \A x \in VerdictStates : b[x] \in Nat
  BY <1>2 DEF Masses
<1>5. w \in VerdictStates /\ \A y \in VerdictStates : b[y] <= b[w]
  BY <1>4, WinnerIsHeaviest
<1> HIDE DEF w, r
<1>6. b["TotalMass"] \in Nat /\ b[w] \in Nat
  BY <1>2, <1>5 DEF Masses
<1>7. belowQuorum(n, size) <=> ~HasQuorum(n, setSize)
  BY <1>1 DEF belowQuorum, HasQuorum
<1>8. Outweighs(vs, w) <=> ~(b["TotalMass"] = 0 \/ noMajority(b[w], b["TotalMass"]))
  <2>1. Outweighs(vs, w) <=> ~noMajority(b[w], b["TotalMass"])
    BY <1>6 DEF Outweighs, noMajority, b
  <2>2. b["TotalMass"] = 0 => b[w] = 0
    <3>1. "TotalMass" \in Masses /\ w \in Masses
      BY <1>5 DEF Masses
    <3>2. Mass(vs, w) \in Nat /\ Mass(vs, w) <= Mass(vs, "TotalMass") /\ Mass(vs, "TotalMass") \in Nat
      BY <1>5, <3>1, ExactAddsUp
    <3>3. Mass(vs, "TotalMass") = 0 => Mass(vs, w) = 0
      BY <3>2
    <3> QED
      BY <1>2, <3>1, <3>3
  <2>3. b["TotalMass"] = 0 => ~(2 * b[w] > b["TotalMass"])
    BY <2>2
  <2> QED
    BY <2>1, <2>3 DEF Outweighs, b
<1>9. IF HasQuorum(n, setSize) /\ Outweighs(vs, w)
      THEN r = Result(w, computeConfidence(vs, w), b)
      ELSE r = Result("INDETERMINATE", 0, b)
  BY <1>3, <1>7, <1>8
<1>10. r.err = "nil" /\ r.Breakdown = b
  BY <1>9 DEF Result
<1> QED
  BY <1>5, <1>9, <1>10 DEF w, r, b

\* A verdict that has more than half of the mass as it is summed has mass.
LEMMA OutweighsHasMass ==
    ASSUME NEW vs, Valid(vs), NEW x \in VerdictStates, Outweighs(vs, x)
    PROVE  Mass(vs, x) \in Nat /\ Mass(vs, x) > 0
<1>1. x \in Masses /\ "TotalMass" \in Masses
  BY DEF Masses
<1>2. aggregateWeights(vs)[x] \in Nat /\ aggregateWeights(vs)["TotalMass"] \in Nat
  BY <1>1, AggregateIsNear
<1>3. aggregateWeights(vs)[x] # 0
  BY <1>2 DEF Outweighs
<1>4. Mass(vs, x) # 0 /\ Mass(vs, x) \in Nat
  BY <1>1, <1>3, AggregateIsNear, ExactAddsUp DEF Near
<1> QED
  BY <1>4

-----------------------------------------------------------------------------
\* A result without an error is for votes that are all valid.
LEMMA NilMeansValid ==
    ASSUME NEW vs, Len(vs) \in Nat, NEW setSize, ComputeConsensus(vs, setSize).err = "nil"
    PROVE  Valid(vs) /\ Len(vs) > 0
<1>1. CASE Len(vs) = 0
  <2>1. ComputeConsensus(vs, setSize) = Failed("ErrNoVotes")
    BY <1>1 DEF ComputeConsensus
  <2> QED
    BY <2>1 DEF Failed
<1>2. CASE Len(vs) > 0 /\ \E i \in 1..Len(vs) : ~validateVote(vs[i])
  <2>1. ComputeConsensus(vs, setSize) = Failed("ErrInvalidVote")
    BY <1>2 DEF ComputeConsensus
  <2> QED
    BY <2>1 DEF Failed
<1>3. CASE Len(vs) > 0 /\ ~\E i \in 1..Len(vs) : ~validateVote(vs[i])
  BY <1>3 DEF Valid
<1> QED
  BY <1>1, <1>2, <1>3

\* The votes for x, as computeConfidence and MassOf select them.
Won(vs, x) == {i \in 1..Len(vs) : vs[i].Verdict = x}

WeightsOf(vs, S) == [i \in S |-> adjustedWeight(vs[i])]

LEMMA WonWeight ==
    ASSUME NEW vs, Valid(vs), NEW x \in VerdictStates
    PROVE  /\ Summable(WeightsOf(vs, Won(vs, x)), Won(vs, x))
           /\ SumFunctionOnSet(WeightsOf(vs, Won(vs, x)), Won(vs, x)) = Mass(vs, x)
<1> DEFINE W == Won(vs, x)
           f == WeightsOf(vs, W)
           g == Share(vs, x)
           I == 1..Len(vs)
<1>1. W \in SUBSET I /\ IsFiniteSet(I)
  BY IntervalGrows DEF Won, Valid
<1>2. x # "TotalMass"
  BY DEF VerdictStates
<1>3. \A i \in W : f[i] \in Int /\ g[i] = f[i]
  <2>1. \A i \in W : f[i] = adjustedWeight(vs[i]) /\ i \in I /\ vs[i].Verdict = x
    BY DEF WeightsOf, Won
  <2>2. \A i \in I : adjustedWeight(vs[i]) \in Int
    BY WeightType DEF Valid
  <2> QED
    BY <1>2, <2>1, <2>2 DEF Share
<1>4. \A i \in I \ W : g[i] = 0
  BY <1>2 DEF Share, Won
<1> HIDE DEF W, f, g, I
<1>5. SumFunctionOnSet(g, I) = SumFunctionOnSet(f, W)
  BY <1>1, <1>3, <1>4, SumIndicator
<1>6. Summable(f, W)
  BY <1>1, <1>3, FS_Subset DEF Summable
<1> QED
  BY <1>5, <1>6 DEF W, f, g, I, Mass

\* The confidence of a verdict is between any two bounds of the confidences of
\* its voters with weight, if there are any.
LEMMA ConfidenceBetween ==
    ASSUME NEW vs, Valid(vs), NEW x \in VerdictStates, Mass(vs, x) > 0,
           NEW lo \in Int, NEW hi \in Int,
           \A i \in 1..Len(vs) : vs[i].Verdict = x /\ adjustedWeight(vs[i]) > 0 =>
               lo <= vs[i].Confidence /\ vs[i].Confidence <= hi
    PROVE  computeConfidence(vs, x) \in lo..hi
<1> DEFINE W == Won(vs, x)
           f == WeightsOf(vs, W)
           c == [i \in W |-> vs[i].Confidence * adjustedWeight(vs[i])]
           low == [i \in W |-> lo * f[i]]
           high == [i \in W |-> hi * f[i]]
<1>1. Summable(f, W) /\ SumFunctionOnSet(f, W) = Mass(vs, x)
  BY WonWeight
<1>2. ASSUME NEW i \in W
      PROVE  /\ f[i] = adjustedWeight(vs[i]) /\ f[i] \in Nat /\ c[i] \in Int
             /\ vs[i].Confidence \in Int /\ c[i] = vs[i].Confidence * f[i]
             /\ f[i] > 0 => lo <= vs[i].Confidence /\ vs[i].Confidence <= hi
  <2>1. i \in 1..Len(vs) /\ vs[i].Verdict = x /\ validateVote(vs[i])
    BY DEF Won, Valid
  <2>2. adjustedWeight(vs[i]) \in Nat /\ vs[i].Confidence * adjustedWeight(vs[i]) \in Nat
    BY <2>1, WeightType
  <2>3. f[i] = adjustedWeight(vs[i])
    BY DEF WeightsOf
  <2>4. vs[i].Confidence \in Int
    <3>1. \A a \in 0..Scale : a \in Int
      BY ScaleAssumption
    <3> QED
      BY <2>1, <3>1 DEF validateVote
  <2> QED
    BY <2>1, <2>2, <2>3, <2>4
<1>3. \A a \in Nat, k \in Int, m \in Int : (a > 0 => k <= m) => k * a <= m * a
  OBVIOUS
<1>4. \A i \in W : low[i] = lo * f[i] /\ high[i] = hi * f[i]
  OBVIOUS
<1>5. \A i \in W : low[i] \in Int /\ high[i] \in Int /\ low[i] <= c[i] /\ c[i] <= high[i]
  <2> SUFFICES ASSUME NEW i \in W
               PROVE  low[i] \in Int /\ high[i] \in Int /\ low[i] <= c[i] /\ c[i] <= high[i]
    OBVIOUS
  <2>1. lo * f[i] <= vs[i].Confidence * f[i]
    BY <1>2, <1>3
  <2>2. vs[i].Confidence * f[i] <= hi * f[i]
    BY <1>2, <1>3
  <2>3. low[i] = lo * f[i] /\ high[i] = hi * f[i] /\ c[i] = vs[i].Confidence * f[i] /\ f[i] \in Int
    BY <1>2, <1>4
  <2> HIDE DEF low, high, c
  <2>4. low[i] \in Int /\ high[i] \in Int
    BY <2>3
  <2> QED
    BY <2>1, <2>2, <2>3, <2>4
<1>6. Summable(low, W) /\ Summable(high, W) /\ Summable(c, W)
  BY <1>1, <1>2, <1>5 DEF Summable
<1>7. SumFunctionOnSet(low, W) = lo * Mass(vs, x) /\ SumFunctionOnSet(high, W) = hi * Mass(vs, x)
  <2> HIDE DEF f
  <2> QED
    BY <1>1, SumScale
<1>8. computeConfidence(vs, x) = SumFunctionOnSet(c, W) \div Mass(vs, x)
  <2>1. DOMAIN c = W /\ DOMAIN f = W
    BY DEF WeightsOf
  <2>2. SumFunction(c) = SumFunctionOnSet(c, W) /\ SumFunction(f) = Mass(vs, x)
    BY <1>1, <2>1 DEF SumFunction
  <2>3. computeConfidence(vs, x) = IF SumFunction(f) = 0 THEN 0 ELSE SumFunction(c) \div SumFunction(f)
    BY DEF computeConfidence, Won, WeightsOf
  <2>4. Mass(vs, x) # 0
    OBVIOUS
  <2> HIDE DEF c, f, W
  <2> QED
    BY <2>2, <2>3, <2>4
<1> HIDE DEF low, high, c, f, W
<1>9. SumFunctionOnSet(low, W) <= SumFunctionOnSet(c, W) /\ SumFunctionOnSet(c, W) <= SumFunctionOnSet(high, W)
  BY <1>5, <1>6, SumMonotone
<1>10. SumFunctionOnSet(c, W) \in Int /\ Mass(vs, x) \in Nat \ {0}
  <2>1. Mass(vs, x) \in Nat
    BY ExactAddsUp DEF Masses
  <2> QED
    BY <1>6, <2>1, SumType
<1> QED
  BY <1>7, <1>8, <1>9, <1>10, QuotientBounds

-----------------------------------------------------------------------------
\* The votes that can be revealed.
Revealed == {[b EXCEPT !.ValidatorID = v] : b \in Ballots, v \in Validators}

\* TypeOK says that the votes carry ids of validators; the steps also need that
\* they are a sequence of revealed ballots, at most one of each validator.
CInv ==
    /\ votes \in Seq(Revealed)
    /\ TypeOK
    /\ \A i, j \in 1..Len(votes) : votes[i].ValidatorID = votes[j].ValidatorID => i = j

\* What ComputeConsensus returns, as TypeOK has it.
IsResult(r) ==
    \/ r.err \in {"none", "ErrNoVotes", "ErrInvalidVote"}
    \/ /\ r.err = "nil"
       /\ r.Verdict \in VerdictStates
       /\ r.ConfidenceScore \in 0..Scale
       /\ r.Breakdown \in [VerdictStates \cup {"TotalMass"} -> Nat]

LEMMA ResultType ==
    ASSUME NEW vs, Len(vs) \in Nat, NEW setSize \in Int
    PROVE  IsResult(ComputeConsensus(vs, setSize))
<1> DEFINE r == ComputeConsensus(vs, setSize)
<1>1. CASE Len(vs) = 0
  <2>1. r = Failed("ErrNoVotes")
    BY <1>1 DEF ComputeConsensus
  <2> QED
    BY <2>1 DEF Failed, IsResult
<1>2. CASE Len(vs) > 0 /\ \E i \in 1..Len(vs) : ~validateVote(vs[i])
  <2>1. r = Failed("ErrInvalidVote")
    BY <1>2 DEF ComputeConsensus
  <2> QED
    BY <2>1 DEF Failed, IsResult
<1>3. CASE Len(vs) > 0 /\ ~\E i \in 1..Len(vs) : ~validateVote(vs[i])
  <2> DEFINE b == aggregateWeights(vs)
             x == findWinner(b)
  <2>1. Valid(vs)
    BY <1>3 DEF Valid
  <2>2. /\ r.err = "nil" /\ x \in VerdictStates
        /\ \/ r = Result(x, computeConfidence(vs, x), b) /\ Outweighs(vs, x)
           \/ r = Result("INDETERMINATE", 0, b)
    BY <1>3, <2>1, Decision
  <2>3. b \in [Masses -> Nat]
    BY <2>1, AggregateIsNear
  <2> HIDE DEF b, x, r
  <2>4. ASSUME r = Result("INDETERMINATE", 0, b) PROVE IsResult(r)
    <3>1. 0 \in 0..Scale
      BY ScaleAssumption
    <3> QED
      BY <2>3, <2>4, <3>1 DEF Result, IsResult, VerdictStates, Masses
  <2>5. ASSUME r = Result(x, computeConfidence(vs, x), b), Outweighs(vs, x) PROVE IsResult(r)
    <3>2. Mass(vs, x) > 0
      BY <2>1, <2>2, <2>5, OutweighsHasMass
    <3>3. 0 \in Int /\ Scale \in Int /\ \A a \in 0..Scale : 0 <= a /\ a <= Scale
      BY ScaleAssumption
    <3>4. \A i \in 1..Len(vs) : 0 <= vs[i].Confidence /\ vs[i].Confidence <= Scale
      BY <2>1, <3>3 DEF Valid, validateVote
    <3>5. computeConfidence(vs, x) \in 0..Scale
      BY <2>1, <2>2, <3>2, <3>3, <3>4, ConfidenceBetween
    <3> QED
      BY <2>2, <2>3, <2>5, <3>5 DEF Result, IsResult, Masses
  <2> QED
    BY <2>2, <2>4, <2>5 DEF r
<1> QED
  BY <1>1, <1>2, <1>3

LEMMA Invariance == Spec => []CInv
<1>1. Init => CInv
  <2> SUFFICES ASSUME Init PROVE CInv
    OBVIOUS
  <2>1. votes = <<>> /\ validatorSetSize \in SetSizes /\ result.err = "none"
    BY DEF Init, NoResult
  <2>2. votes \in Seq(Revealed)
    BY <2>1
  <2>3. Len(votes) = 0
    BY <2>1
  <2>4. \A i, j \in 1..Len(votes) : votes[i].ValidatorID = votes[j].ValidatorID => i = j
    BY <2>3
  <2> QED
    BY <2>1, <2>2, <2>3, <2>4 DEF CInv, TypeOK
<1>2. CInv /\ [Next]_vars => CInv'
  <2> SUFFICES ASSUME CInv, [Next]_vars PROVE CInv'
    OBVIOUS
  <2>1. votes \in Seq(Revealed) /\ Len(votes) \in Nat /\ validatorSetSize \in Int
    BY SetSizesAssumption DEF CInv, TypeOK
  <2>2. ASSUME NEW v \in Validators, NEW ballot \in Ballots, Reveal(v, ballot)
        PROVE  CInv'
    <3> DEFINE vote == [ballot EXCEPT !.ValidatorID = v]
    <3>1. vote \in Revealed /\ vote.ValidatorID = v
      BY BallotsAssumption DEF Revealed
    <3>2. /\ votes' = Append(votes, vote) /\ validatorSetSize' = validatorSetSize /\ result' = result
          /\ \A i \in 1..Len(votes) : votes[i].ValidatorID # v
      BY <2>2 DEF Reveal
    <3> HIDE DEF vote
    <3>3. /\ votes' \in Seq(Revealed) /\ Len(votes') = Len(votes) + 1
          /\ votes'[Len(votes) + 1] = vote
          /\ \A i \in 1..Len(votes) : votes'[i] = votes[i]
      BY <2>1, <3>1, <3>2
    <3>4. \A i \in 1..Len(votes') : votes'[i].ValidatorID \in Validators
      <4>1. \A i \in 1..Len(votes') : i \in 1..Len(votes) \/ i = Len(votes) + 1
        BY <2>1, <3>3
      <4>2. \A i \in 1..Len(votes) : votes[i].ValidatorID \in Validators
        BY DEF CInv, TypeOK
      <4> QED
        BY <3>1, <3>3, <4>1, <4>2
    <3>5. ASSUME NEW i \in 1..Len(votes'), NEW j \in 1..Len(votes'),
                 votes'[i].ValidatorID = votes'[j].ValidatorID
          PROVE  i = j
      <4>1. /\ i \in 1..Len(votes) \/ i = Len(votes) + 1
            /\ j \in 1..Len(votes) \/ j = Len(votes) + 1
        BY <2>1, <3>3
      <4>2. CASE i \in 1..Len(votes) /\ j \in 1..Len(votes)
        BY <3>3, <3>5, <4>2 DEF CInv
      <4>3. CASE i = Len(votes) + 1 /\ j \in 1..Len(votes)
        BY <3>1, <3>2, <3>3, <3>5, <4>3
      <4>4. CASE i \in 1..Len(votes) /\ j = Len(votes) + 1
        BY <3>1, <3>2, <3>3, <3>5, <4>4
      <4> QED
        BY <4>1, <4>2, <4>3, <4>4
    <3> QED
      BY <3>2, <3>3, <3>4, <3>5 DEF CInv, TypeOK
  <2>3. CASE Compute
    <3>1. result' = ComputeConsensus(votes, validatorSetSize) /\ UNCHANGED <<votes, validatorSetSize>>
      BY <2>3 DEF Compute
    <3>2. IsResult(result')
      BY <2>1, <3>1, ResultType
    <3> QED
      BY <3>1, <3>2 DEF CInv, TypeOK, IsResult
  <2>4. CASE UNCHANGED vars
    BY <2>4 DEF vars, CInv, TypeOK
  <2> QED
    BY <2>2, <2>3, <2>4 DEF Next
<1> QED
  BY <1>1, <1>2, PTL DEF Spec

\* Every result is an error, or a verdict with a confidence in [0.0, 1.0] and
\* masses that are not negative, whatever votes were revealed.
THEOREM TypeCorrect == Spec => []TypeOK
BY Invariance, PTL DEF CInv

-----------------------------------------------------------------------------
\* MassOf sums over sets of votes what aggregateWeights accumulates.
LEMMA MassOfVotes ==
    ASSUME NEW vs, Valid(vs), NEW x \in VerdictStates
    PROVE  /\ MassOf(vs, {x}) = Mass(vs, x)
           /\ MassOf(vs, {x}) \in Nat /\ MassOf(vs, VerdictStates \ {x}) \in Nat
           /\ MassOf(vs, {x}) + MassOf(vs, VerdictStates \ {x}) = Mass(vs, "TotalMass")
           /\ MassOf(vs, VerdictStates) = Mass(vs, "TotalMass")
<1> DEFINE I == 1..Len(vs)
           A == {j \in I : vs[j].Verdict \in {x}}
           B == {j \in I : vs[j].Verdict \in VerdictStates \ {x}}
           g == Share(vs, "TotalMass")
<1>1. A \cup B = I /\ A \cap B = {} /\ A = Won(vs, x)
  BY DEF Valid, validateVote, Won
<1>2. Summable(g, I)
  BY ShareType
<1>3. \A i \in I : g[i] = adjustedWeight(vs[i])
  BY DEF Share
<1>4. MassOf(vs, {x}) = SumFunctionOnSet(WeightsOf(vs, A), A)
  BY DEF MassOf, SumFunction, WeightsOf
<1>5. MassOf(vs, VerdictStates \ {x}) = SumFunctionOnSet(WeightsOf(vs, B), B)
  BY DEF MassOf, SumFunction, WeightsOf
<1>6. /\ \A i \in A : WeightsOf(vs, A)[i] = adjustedWeight(vs[i])
      /\ \A i \in B : WeightsOf(vs, B)[i] = adjustedWeight(vs[i])
  BY DEF WeightsOf
<1>7. MassOf(vs, {x}) = Mass(vs, x)
  BY <1>1, <1>4, WonWeight
<1> HIDE DEF I, A, B, g
<1>8. IsFiniteSet(A) /\ IsFiniteSet(B) /\ Summable(g, A) /\ Summable(g, B)
  <2>1. A \in SUBSET I /\ B \in SUBSET I
    BY <1>1
  <2> QED
    BY <1>2, <2>1, FS_Subset DEF Summable
<1>9. SumFunctionOnSet(g, A) = SumFunctionOnSet(WeightsOf(vs, A), A)
  BY <1>1, <1>3, <1>6, <1>8, SumSame
<1>10. SumFunctionOnSet(g, B) = SumFunctionOnSet(WeightsOf(vs, B), B)
  BY <1>1, <1>3, <1>6, <1>8, SumSame
<1>11. SumFunctionOnSet(g, A) \in Int /\ SumFunctionOnSet(g, B) \in Int
  BY <1>8, SumType
<1>12. SumFunctionOnSet(g, I) = SumFunctionOnSet(g, A) + SumFunctionOnSet(g, B)
  <2>1. SumFunctionOnSet(g, A \cup B) = SumFunctionOnSet(g, A) + SumFunctionOnSet(g, B)
    BY <1>1, <1>2, SumUnion
  <2> QED
    BY <1>1, <2>1
<1>13. Mass(vs, "TotalMass") = SumFunctionOnSet(g, I)
  BY DEF Mass, g, I
<1>14. MassOf(vs, {x}) + MassOf(vs, VerdictStates \ {x}) = Mass(vs, "TotalMass")
  BY <1>4, <1>5, <1>9, <1>10, <1>11, <1>12, <1>13
<1>15. MassOf(vs, VerdictStates) = Mass(vs, "TotalMass")
  <2>1. {j \in I : vs[j].Verdict \in VerdictStates} = I
    BY DEF Valid, validateVote, I
  <2>2. MassOf(vs, VerdictStates) = SumFunctionOnSet(WeightsOf(vs, I), I)
    BY <2>1 DEF MassOf, SumFunction, WeightsOf, I
  <2>3. \A i \in I : g[i] = WeightsOf(vs, I)[i]
    BY <1>3 DEF WeightsOf
  <2>4. SumFunctionOnSet(g, I) = SumFunctionOnSet(WeightsOf(vs, I), I)
    BY <1>2, <2>3, SumSame
  <2> QED
    BY <1>13, <2>2, <2>4
<1>16. /\ MassOf(vs, {x}) \in Nat
       /\ Mass(vs, "TotalMass") \in Nat /\ Mass(vs, x) <= Mass(vs, "TotalMass")
  BY <1>7, ExactAddsUp DEF Masses
<1>17. MassOf(vs, VerdictStates \ {x}) \in Int
  BY <1>5, <1>10, <1>11
<1>18. MassOf(vs, VerdictStates \ {x}) \in Nat
  BY <1>7, <1>14, <1>16, <1>17
<1> QED
  BY <1>7, <1>14, <1>15, <1>16, <1>18

LEMMA FarAhead ==
    ASSUME NEW u \in Nat, NEW n \in Nat, NEW m \in Nat, NEW t \in Nat, NEW x \in Nat, NEW s \in Nat,
           m <= t, u * (m - x) <= 2 * n * m, u * (s - t) <= 2 * n * t,
           u * (2 * m - t) > 6 * n * t
    PROVE  2 * x > s
<1>1. n * m <= n * t /\ n * m \in Nat /\ n * t \in Nat
  OBVIOUS
<1>2. 2 * n * m = 2 * (n * m) /\ 2 * n * t = 2 * (n * t) /\ 6 * n * t = 6 * (n * t)
  OBVIOUS
<1>3. u * (2 * x - s) = u * (2 * m - t) - 2 * (u * (m - x)) - u * (s - t)
  OBVIOUS
<1>4. /\ u * (2 * x - s) \in Int /\ u * (2 * m - t) \in Int
      /\ u * (m - x) \in Int /\ u * (s - t) \in Int
  OBVIOUS
<1>5. u * (2 * x - s) > 0
  BY <1>1, <1>2, <1>3, <1>4
<1>6. ~(2 * x - s <= 0)
  BY <1>5
<1> QED
  BY <1>6

LEMMA FarBehind ==
    ASSUME NEW u \in Nat, NEW n \in Nat, NEW m \in Nat, NEW t \in Nat, NEW x \in Nat, NEW s \in Nat,
           m <= t, u * (x - m) <= 2 * n * m, u * (t - s) <= 2 * n * t,
           u * (2 * m - t) < -(6 * n * t)
    PROVE  2 * x < s
<1>1. n * m <= n * t /\ n * m \in Nat /\ n * t \in Nat
  OBVIOUS
<1>2. 2 * n * m = 2 * (n * m) /\ 2 * n * t = 2 * (n * t) /\ 6 * n * t = 6 * (n * t)
  OBVIOUS
<1>3. u * (s - 2 * x) = -(u * (2 * m - t)) - 2 * (u * (x - m)) - u * (t - s)
  OBVIOUS
<1>4. /\ u * (s - 2 * x) \in Int /\ u * (2 * m - t) \in Int
      /\ u * (x - m) \in Int /\ u * (t - s) \in Int
  OBVIOUS
<1>5. u * (s - 2 * x) > 0
  BY <1>1, <1>2, <1>3, <1>4
<1>6. ~(s - 2 * x <= 0)
  BY <1>5
<1> QED
  BY <1>6

\* Of two sums whose exact values are far apart the larger is the larger one.
LEMMA FarApart ==
    ASSUME NEW u \in Nat, NEW n \in Nat, NEW m \in Nat, NEW k \in Nat, NEW t \in Nat,
           NEW x \in Nat, NEW y \in Nat,
           m + k <= t, u * (m - x) <= 2 * n * m, u * (y - k) <= 2 * n * k,
           u * (2 * m - t) > 6 * n * t
    PROVE  x > y
<1>1. n * m <= n * t /\ n * k <= n * t /\ n * m \in Nat /\ n * k \in Nat /\ n * t \in Nat
  OBVIOUS
<1>2. 2 * n * m = 2 * (n * m) /\ 2 * n * k = 2 * (n * k) /\ 6 * n * t = 6 * (n * t)
  OBVIOUS
<1>3. u * (x - y) = u * (m - k) - u * (m - x) - u * (y - k)
  OBVIOUS
<1>4. /\ u * (x - y) \in Int /\ u * (2 * m - t) \in Int /\ u * (m - k) \in Int
      /\ u * (m - x) \in Int /\ u * (y - k) \in Int
  OBVIOUS
<1>5. u * (2 * m - t) <= u * (m - k)
  OBVIOUS
<1>6. u * (x - y) > 0
  BY <1>1, <1>2, <1>3, <1>4, <1>5
<1>7. ~(x - y <= 0)
  BY <1>6
<1> QED
  BY <1>7

\* Where no rounding can hide it, the test on the sums finds out whether x
\* outweighs all others together.
LEMMA MajorityIsSeen ==
    ASSUME NEW vs, Valid(vs), 2 * Len(vs) <= Significand,
           NEW x \in VerdictStates, ~NearTie(vs, x)
    PROVE  MassOf(vs, {x}) > MassOf(vs, VerdictStates \ {x}) <=>
               findWinner(aggregateWeights(vs)) = x /\ Outweighs(vs, x)
<1> DEFINE b == aggregateWeights(vs)
           w == findWinner(b)
<1>1. /\ MassOf(vs, {x}) = Mass(vs, x)
      /\ MassOf(vs, {x}) \in Nat /\ MassOf(vs, VerdictStates \ {x}) \in Nat
      /\ MassOf(vs, {x}) + MassOf(vs, VerdictStates \ {x}) = Mass(vs, "TotalMass")
      /\ MassOf(vs, VerdictStates) = Mass(vs, "TotalMass")
  BY MassOfVotes
<1>2. b \in [Masses -> Nat] /\ \A y \in Masses : Near(b[y], Mass(vs, y), Len(vs))
  BY AggregateIsNear
<1>3. /\ IsBreakdown([y \in Masses |-> Mass(vs, y)])
      /\ \A y \in Masses : Mass(vs, y) \in Nat
  BY ExactAddsUp
<1>4. x \in Masses /\ "TotalMass" \in Masses /\ \A y \in VerdictStates : y \in Masses
  BY DEF Masses
<1> HIDE DEF b
<1>5. \A y \in VerdictStates : b[y] \in Nat
  BY <1>2, <1>4
<1>6. w \in VerdictStates /\ \A y \in VerdictStates : b[y] <= b[w]
  BY <1>5, WinnerIsHeaviest
<1>7. Outweighs(vs, x) <=> 2 * b[x] > b["TotalMass"]
  BY DEF Outweighs, b
<1> HIDE DEF w
<1>8. CASE b = ExactMasses(vs)
  <2>1. ExactMasses(vs) = [y \in Masses |-> Mass(vs, y)]
    <3>1. \A y \in Masses : MassOf(vs, IF y = "TotalMass" THEN VerdictStates ELSE {y}) = Mass(vs, y)
      <4> SUFFICES ASSUME NEW y \in Masses
                   PROVE  MassOf(vs, IF y = "TotalMass" THEN VerdictStates ELSE {y}) = Mass(vs, y)
        OBVIOUS
      <4>1. CASE y = "TotalMass"
        BY <1>1, <4>1
      <4>2. CASE y # "TotalMass"
        <5>1. y \in VerdictStates
          BY <4>2 DEF Masses
        <5> QED
          BY <4>2, <5>1, MassOfVotes
      <4> QED
        BY <4>1, <4>2
    <3> QED
      BY <3>1 DEF ExactMasses, Masses
  <2>2. IsBreakdown(b)
    BY <1>3, <1>8, <2>1
  <2>3. b[x] = Mass(vs, x) /\ b["TotalMass"] = Mass(vs, "TotalMass")
    BY <1>4, <1>8, <2>1
  <2>4. 2 * b[x] > b["TotalMass"] <=> w = x /\ ~noMajority(b[w], b["TotalMass"])
    BY <2>2, MajorityDecides DEF w
  <2>5. b[x] \in Nat /\ b["TotalMass"] \in Nat
    BY <1>2, <1>4
  <2>6. 2 * b[x] > b["TotalMass"] <=> MassOf(vs, {x}) > MassOf(vs, VerdictStates \ {x})
    BY <1>1, <2>3
  <2>7. w = x => (~noMajority(b[w], b["TotalMass"]) <=> 2 * b[x] > b["TotalMass"])
    BY <2>5 DEF noMajority
  <2> QED
    BY <1>7, <2>4, <2>6, <2>7 DEF w, b
<1>9. CASE b # ExactMasses(vs)
  <2>1. PICK u \in Nat, n \in Nat : u = Significand /\ n = Len(vs)
    BY SignificandAssumption DEF Valid
  <2>2. PICK m \in Nat, t \in Nat, rest \in Nat :
            m = Mass(vs, x) /\ t = Mass(vs, "TotalMass") /\ rest = MassOf(vs, VerdictStates \ {x})
    BY <1>1, <1>3, <1>4
  <2>3. m + rest = t /\ MassOf(vs, {x}) = m /\ MassOf(vs, VerdictStates) = t
    BY <1>1, <2>2
  <2>4. u * (m - rest) < -(6 * n * t) \/ u * (m - rest) > 6 * n * t
    <3>1. ~(u * (m - rest) \in (-(6 * n * t))..(6 * n * t))
      BY <1>9, <2>1, <2>2, <2>3 DEF NearTie, b
    <3>2. u * (m - rest) \in Int /\ 6 * n * t \in Int
      OBVIOUS
    <3> QED
      BY <3>1, <3>2
  <2>5. m - rest = 2 * m - t
    BY <2>3
  <2>6. PICK bx \in Nat, bt \in Nat : bx = b[x] /\ bt = b["TotalMass"]
    BY <1>2, <1>4
  <2>7. 2 * n <= u
    BY <2>1
  <2>8. \A y \in Masses : u * (b[y] - Mass(vs, y)) <= 2 * n * Mass(vs, y)
                          /\ u * (Mass(vs, y) - b[y]) <= 2 * n * Mass(vs, y)
    BY <1>2, <2>1, <2>7 DEF Near
  <2>9. /\ u * (bx - m) <= 2 * n * m /\ u * (m - bx) <= 2 * n * m
        /\ u * (bt - t) <= 2 * n * t /\ u * (t - bt) <= 2 * n * t
    BY <1>4, <2>2, <2>6, <2>8
  <2>10. m <= t
    BY <2>3
  <2>11. CASE u * (m - rest) > 6 * n * t
    <3>1. u * (2 * m - t) > 6 * n * t
      BY <2>5, <2>11
    <3>2. 2 * bx > bt
      BY <2>9, <2>10, <3>1, FarAhead
    <3>3. m > rest
      <4> SUFFICES ASSUME m <= rest PROVE FALSE
        OBVIOUS
      <4>1. u * (m - rest) <= 0 /\ 6 * n * t >= 0
        <5>1. n * t >= 0 /\ 6 * n * t = 6 * (n * t)
          OBVIOUS
        <5>2. u * (m - rest) <= 0
          OBVIOUS
        <5> QED
          BY <5>1, <5>2
      <4>2. u * (m - rest) \in Int /\ 6 * n * t \in Int
        OBVIOUS
      <4> QED
        BY <2>11, <4>1, <4>2
    <3>4. \A y \in VerdictStates : y # x => b[x] > b[y]
      <4> SUFFICES ASSUME NEW y \in VerdictStates, y # x PROVE b[x] > b[y]
        OBVIOUS
      <4>1. PICK k \in Nat, by \in Nat : k = Mass(vs, y) /\ by = b[y]
        BY <1>2, <1>3, <1>4
      <4>2. m + k <= t
        <5> DEFINE P == [z \in Masses |-> Mass(vs, z)]
        <5>1. /\ P["SUPPORTED"] \in Nat /\ P["UNSUPPORTED"] \in Nat
              /\ P["MISLEADING"] \in Nat /\ P["INDETERMINATE"] \in Nat
          BY <1>3 DEF Masses, VerdictStates
        <5>2. P[x] = m /\ P[y] = k /\ P["TotalMass"] = t
          BY <1>4, <2>2, <4>1
        <5> HIDE DEF P
        <5>3. P["TotalMass"] = P["SUPPORTED"] + P["UNSUPPORTED"] + P["MISLEADING"] + P["INDETERMINATE"]
          BY <1>3 DEF IsBreakdown, P
        <5>4. P[x] + P[y] <= P["TotalMass"]
          <6>1. CASE x = "SUPPORTED"
            BY <5>1, <5>3, <6>1 DEF VerdictStates
          <6>2. CASE x = "UNSUPPORTED"
            BY <5>1, <5>3, <6>2 DEF VerdictStates
          <6>3. CASE x = "MISLEADING"
            BY <5>1, <5>3, <6>3 DEF VerdictStates
          <6>4. CASE x = "INDETERMINATE"
            BY <5>1, <5>3, <6>4 DEF VerdictStates
          <6> QED
            BY <6>1, <6>2, <6>3, <6>4 DEF VerdictStates
        <5> QED
          BY <5>2, <5>4
      <4>3. u * (by - k) <= 2 * n * k
        BY <1>4, <2>8, <4>1
      <4>4. bx > by
        BY <2>9, <3>1, <4>2, <4>3, FarApart
      <4> QED
        BY <2>6, <4>1, <4>4
    <3>5. w = x
      <4>1. b[x] \in Nat /\ b[w] \in Nat /\ b[x] <= b[w]
        BY <1>5, <1>6
      <4>2. ~(b[x] > b[w])
        BY <4>1
      <4> QED
        BY <1>6, <3>4, <4>2
    <3> QED
      BY <1>7, <2>2, <2>3, <2>6, <3>2, <3>3, <3>5 DEF w, b
  <2>12. CASE u * (m - rest) < -(6 * n * t)
    <3>1. u * (2 * m - t) < -(6 * n * t)
      BY <2>5, <2>12
    <3>2. 2 * bx < bt
      BY <2>9, <2>10, <3>1, FarBehind
    <3>3. ~(m > rest)
      <4> SUFFICES ASSUME m > rest PROVE FALSE
        OBVIOUS
      <4>1. u * (m - rest) >= 0
        OBVIOUS
      <4>2. n * t >= 0 /\ 6 * n * t = 6 * (n * t) /\ n * t \in Int /\ u * (m - rest) \in Int
        OBVIOUS
      <4> QED
        BY <2>12, <4>1, <4>2
    <3>4. ~Outweighs(vs, x)
      BY <1>7, <2>6, <3>2
    <3> QED
      BY <2>2, <2>3, <3>3, <3>4
  <2> QED
    BY <2>4, <2>11, <2>12
<1> QED
  BY <1>8, <1>9

\* Every vote is of another validator, and there are significands enough.
LEMMA VotesAreFew == CInv => 2 * Len(votes) <= Significand
<1> SUFFICES ASSUME CInv PROVE 2 * Len(votes) <= Significand
  OBVIOUS
<1>1. Len(votes) \in Nat
  BY DEF CInv
<1> DEFINE I == 1..Len(votes)
           f == [i \in I |-> votes[i].ValidatorID]
<1>2. f \in [I -> Validators]
  BY DEF CInv, TypeOK
<1>3. \A i, j \in I : f[i] = f[j] => i = j
  BY DEF CInv
<1>4. f \in Injection(I, Validators)
  BY <1>2, <1>3 DEF Injection, IsInjective
<1> HIDE DEF f
<1>5. IsFiniteSet(I) /\ Cardinality(I) = Len(votes)
  BY <1>1, IntervalGrows
<1>6. Cardinality(I) <= Cardinality(Validators) /\ Cardinality(Validators) \in Nat
  <2> HIDE DEF I
  <2> QED
    BY <1>4, SignificandAssumption, FS_Injection, FS_CardinalityType
<1> QED
  BY <1>1, <1>5, <1>6, SignificandAssumption

\* The verdict of any valid votes, where no rounding can hide a majority.
LEMMA VerdictUnlessNearTie ==
    ASSUME NEW vs, Valid(vs), Len(vs) > 0, 2 * Len(vs) <= Significand, NEW setSize \in Int,
           NEW x \in VerdictStates \ {"INDETERMINATE"}, ~NearTie(vs, x)
    PROVE  ComputeConsensus(vs, setSize).Verdict = x <=>
               /\ HasQuorum(Len(vs), setSize)
               /\ MassOf(vs, {x}) > MassOf(vs, VerdictStates \ {x})
<1> DEFINE r == ComputeConsensus(vs, setSize)
           w == findWinner(aggregateWeights(vs))
<1>1. IF HasQuorum(Len(vs), setSize) /\ Outweighs(vs, w)
      THEN r = Result(w, computeConfidence(vs, w), aggregateWeights(vs))
      ELSE r = Result("INDETERMINATE", 0, aggregateWeights(vs))
  BY Decision
<1>2. MassOf(vs, {x}) > MassOf(vs, VerdictStates \ {x}) <=> w = x /\ Outweighs(vs, x)
  BY MajorityIsSeen
<1> HIDE DEF w, r
<1>3. r.Verdict = IF HasQuorum(Len(vs), setSize) /\ Outweighs(vs, w) THEN w ELSE "INDETERMINATE"
  BY <1>1 DEF Result
<1>4. r.Verdict = x <=> HasQuorum(Len(vs), setSize) /\ Outweighs(vs, w) /\ w = x
  BY <1>3
<1> QED
  BY <1>2, <1>4 DEF r

LEMMA MajorityHolds == CInv => VerdictIsMajority
<1> SUFFICES ASSUME CInv, Current.err = "nil", NEW x \in VerdictStates \ {"INDETERMINATE"},
                    ~NearTie(votes, x)
             PROVE  Current.Verdict = x <=>
                        /\ validatorSetSize <= 0 \/ 3 * Len(votes) >= 2 * validatorSetSize
                        /\ MassOf(votes, {x}) > MassOf(votes, VerdictStates \ {x})
  BY DEF VerdictIsMajority
<1>1. Len(votes) \in Nat /\ validatorSetSize \in Int
  BY SetSizesAssumption DEF CInv, TypeOK
<1>2. Valid(votes) /\ Len(votes) > 0
  BY <1>1, NilMeansValid DEF Current
<1>3. Current.Verdict = x <=>
          /\ HasQuorum(Len(votes), validatorSetSize)
          /\ MassOf(votes, {x}) > MassOf(votes, VerdictStates \ {x})
  BY <1>1, <1>2, VotesAreFew, VerdictUnlessNearTie DEF Current
<1> QED
  BY <1>3 DEF HasQuorum

\* Whatever votes were revealed, in whatever order, a verdict is decided exactly
\* when there is a quorum and its voters outweigh all others together, except
\* where the rounding of the sums can hide which side is heavier.
THEOREM MajorityRule == Spec => []VerdictIsMajority
BY Invariance, MajorityHolds, PTL

LEMMA ConfidenceHolds == CInv => ConfidenceIsAverage
<1> DEFINE r == Current
           J == {j \in 1..Len(votes) : votes[j].Verdict = r.Verdict /\ adjustedWeight(votes[j]) > 0}
           won == {votes[i].Confidence : i \in J}
<1> SUFFICES ASSUME CInv, Decided(r) PROVE r.ConfidenceScore \in Min(won)..Max(won)
  BY DEF ConfidenceIsAverage
<1>1. Len(votes) \in Nat /\ validatorSetSize \in Int
  BY SetSizesAssumption DEF CInv, TypeOK
<1>2. Valid(votes) /\ Len(votes) > 0
  BY <1>1, NilMeansValid DEF Current, Decided
<1> DEFINE w == findWinner(aggregateWeights(votes))
<1>3. /\ w \in VerdictStates
      /\ Outweighs(votes, w)
      /\ r = Result(w, computeConfidence(votes, w), aggregateWeights(votes))
  <2>1. r # Result("INDETERMINATE", 0, aggregateWeights(votes))
    BY DEF Decided, Result
  <2> QED
    BY <1>1, <1>2, <2>1, Decision DEF Current
<1> HIDE DEF w
<1>4. r.Verdict = w /\ r.ConfidenceScore = computeConfidence(votes, w)
  BY <1>3 DEF Result
<1> HIDE DEF r
<1>5. Mass(votes, w) \in Nat /\ Mass(votes, w) > 0
  BY <1>2, <1>3, OutweighsHasMass
<1>6. \A i \in 1..Len(votes) : votes[i].Confidence \in 0..Scale /\ adjustedWeight(votes[i]) \in Nat
  BY <1>2, WeightType DEF Valid, validateVote
<1>7. won # {}
  <2> SUFFICES ASSUME J = {} PROVE FALSE
    OBVIOUS
  <2>1. \A i \in 1..Len(votes) : Share(votes, w)[i] = 0
    <3>1. w # "TotalMass"
      BY <1>3 DEF VerdictStates
    <3>2. \A i \in 1..Len(votes) : votes[i].Verdict = w => adjustedWeight(votes[i]) = 0
      BY <1>4, <1>6
    <3> QED
      BY <3>1, <3>2 DEF Share
  <2>2. IsFiniteSet(1..Len(votes)) /\ Cardinality(1..Len(votes)) \in Int
    BY <1>1, IntervalGrows
  <2>3. Mass(votes, w) = 0 * Cardinality(1..Len(votes))
    BY <2>1, <2>2, SumConstant DEF Mass
  <2> QED
    BY <1>5, <2>2, <2>3
<1>8. won \in SUBSET (0..Scale) /\ won \in SUBSET Int /\ IsFiniteSet(won)
  <2>1. won \in SUBSET (0..Scale)
    BY <1>6
  <2>2. IsFiniteSet(0..Scale) /\ \A a \in 0..Scale : a \in Int
    BY FS_Interval, ScaleAssumption
  <2> HIDE DEF won
  <2> QED
    BY <2>1, <2>2, FS_Subset
<1>9. \A i \in 1..Len(votes) : votes[i].Verdict = w /\ adjustedWeight(votes[i]) > 0 => votes[i].Confidence \in won
  BY <1>4
<1> HIDE DEF won, J
<1>10. Min(won) \in Int /\ Max(won) \in Int /\ \A y \in won : Min(won) <= y /\ y <= Max(won)
  BY <1>7, <1>8, Extremes
<1>11. computeConfidence(votes, w) \in Min(won)..Max(won)
  BY <1>2, <1>3, <1>5, <1>9, <1>10, ConfidenceBetween
<1> QED
  BY <1>4, <1>11

\* The confidence of a decided verdict is an average over the voters that gave
\* it weight, never outside their own confidences.
THEOREM ConfidenceInRange == Spec => []ConfidenceIsAverage
BY Invariance, ConfidenceHolds, PTL

-----------------------------------------------------------------------------
\* Valid votes are given a verdict.
LEMMA VerdictType ==
    ASSUME NEW vs, Valid(vs), Len(vs) > 0, NEW setSize \in Int
    PROVE  /\ ComputeConsensus(vs, setSize).err = "nil"
           /\ ComputeConsensus(vs, setSize).Verdict \in VerdictStates
<1> DEFINE x == findWinner(aggregateWeights(vs))
<1>1. /\ x \in VerdictStates
      /\ \/ ComputeConsensus(vs, setSize) = Result(x, computeConfidence(vs, x), aggregateWeights(vs))
         \/ ComputeConsensus(vs, setSize) = Result("INDETERMINATE", 0, aggregateWeights(vs))
  BY Decision
<1>2. "INDETERMINATE" \in VerdictStates
  BY DEF VerdictStates
<1> HIDE DEF x
<1> QED
  BY <1>1, <1>2 DEF Result

\* In another order, the votes for the verdicts of S have the same mass.
LEMMA MassReordered ==
    ASSUME NEW vs, Valid(vs), NEW ws, Len(ws) = Len(vs),
           NEW p \in Bijection(1..Len(vs), 1..Len(vs)), \A i \in 1..Len(vs) : ws[i] = vs[p[i]]
    PROVE  Valid(ws) /\ \A x \in VerdictStates : Mass(ws, x) = Mass(vs, x)
                                                 /\ Mass(ws, "TotalMass") = Mass(vs, "TotalMass")
<1> DEFINE I == 1..Len(vs)
<1>1. p \in [I -> I] /\ \A i, j \in I : p[i] = p[j] => i = j
  BY DEF Bijection, Injection, IsInjective
<1>2. \A k \in I : \E i \in I : p[i] = k
  BY DEF Bijection, Surjection
<1>3. Valid(ws)
  BY <1>1 DEF Valid
<1>4. ASSUME NEW x PROVE Mass(ws, x) = Mass(vs, x)
  <2> DEFINE f == Share(vs, x)
             g == Share(ws, x)
  <2>1. \A i \in I : g[i] = f[p[i]]
    BY <1>1 DEF Share
  <2>2. Summable(f, I) /\ IsFiniteSet(I)
    BY ShareType, IntervalGrows DEF Valid
  <2> HIDE DEF f, g, I
  <2>3. SumFunctionOnSet(g, I) = SumFunctionOnSet(f, I)
    BY <1>1, <1>2, <2>1, <2>2, SumReindex
  <2> QED
    BY <2>3 DEF f, g, I, Mass
<1> QED
  BY <1>3, <1>4

\* Two orders of the same votes are both refused, for the same reason, or both
\* given a verdict; the same one, if rounding can hide no majority.
LEMMA SameVotes ==
    ASSUME NEW vs, Len(vs) \in Nat, 2 * Len(vs) <= Significand, NEW setSize \in Int,
           NEW ws, Len(ws) = Len(vs), NEW p \in Bijection(1..Len(vs), 1..Len(vs)),
           \A i \in 1..Len(vs) : ws[i] = vs[p[i]]
    PROVE  /\ ComputeConsensus(ws, setSize).err = ComputeConsensus(vs, setSize).err
           /\ \/ ComputeConsensus(vs, setSize).err # "nil"
              \/ ComputeConsensus(ws, setSize).Verdict = ComputeConsensus(vs, setSize).Verdict
              \/ \E x \in VerdictStates : NearTie(vs, x) \/ NearTie(ws, x)
<1> DEFINE I == 1..Len(vs)
<1>1. p \in [I -> I] /\ \A k \in I : \E i \in I : p[i] = k
  BY DEF Bijection, Injection, Surjection
<1>2. (\E i \in I : ~validateVote(vs[i])) <=> (\E i \in I : ~validateVote(ws[i]))
  <2>1. ASSUME NEW k \in I, ~validateVote(vs[k]) PROVE \E i \in I : ~validateVote(ws[i])
    <3>1. PICK i \in I : p[i] = k
      BY <1>1
    <3> QED
      BY <2>1, <3>1
  <2>2. ASSUME NEW k \in I, ~validateVote(ws[k]) PROVE \E i \in I : ~validateVote(vs[i])
    <3>1. p[k] \in I
      BY <1>1
    <3> QED
      BY <2>2, <3>1
  <2> QED
    BY <2>1, <2>2
<1>3. CASE Len(vs) = 0
  <2>1. ComputeConsensus(vs, setSize) = Failed("ErrNoVotes") /\ ComputeConsensus(ws, setSize) = Failed("ErrNoVotes")
    BY <1>3 DEF ComputeConsensus
  <2> QED
    BY <2>1 DEF Failed
<1>4. CASE Len(vs) > 0 /\ \E i \in I : ~validateVote(vs[i])
  <2>1. ComputeConsensus(vs, setSize) = Failed("ErrInvalidVote")
    BY <1>4 DEF ComputeConsensus
  <2>2. ComputeConsensus(ws, setSize) = Failed("ErrInvalidVote")
    BY <1>2, <1>4 DEF ComputeConsensus
  <2> QED
    BY <2>1, <2>2 DEF Failed
<1>5. CASE Len(vs) > 0 /\ Valid(vs)
  <2>1. /\ Valid(ws)
        /\ \A x \in VerdictStates : Mass(ws, x) = Mass(vs, x)
                                    /\ Mass(ws, "TotalMass") = Mass(vs, "TotalMass")
    BY <1>5, MassReordered
  <2> DEFINE r == ComputeConsensus(vs, setSize)
             s == ComputeConsensus(ws, setSize)
  <2>2. /\ r.err = "nil" /\ r.Verdict \in VerdictStates
        /\ s.err = "nil" /\ s.Verdict \in VerdictStates
    BY <1>5, <2>1, VerdictType
  <2>3. ASSUME NEW x \in VerdictStates \ {"INDETERMINATE"}, ~NearTie(vs, x), ~NearTie(ws, x)
        PROVE  r.Verdict = x <=> s.Verdict = x
    <3>1. /\ MassOf(vs, {x}) = Mass(vs, x) /\ MassOf(vs, VerdictStates \ {x}) \in Nat
          /\ MassOf(vs, {x}) \in Nat
          /\ MassOf(vs, {x}) + MassOf(vs, VerdictStates \ {x}) = Mass(vs, "TotalMass")
      BY <1>5, MassOfVotes
    <3>2. /\ MassOf(ws, {x}) = Mass(ws, x) /\ MassOf(ws, VerdictStates \ {x}) \in Nat
          /\ MassOf(ws, {x}) \in Nat
          /\ MassOf(ws, {x}) + MassOf(ws, VerdictStates \ {x}) = Mass(ws, "TotalMass")
      BY <2>1, MassOfVotes
    <3>3. Mass(ws, x) = Mass(vs, x) /\ Mass(ws, "TotalMass") = Mass(vs, "TotalMass")
      BY <2>1
    <3>4. /\ MassOf(ws, {x}) = MassOf(vs, {x})
          /\ MassOf(ws, VerdictStates \ {x}) = MassOf(vs, VerdictStates \ {x})
      BY <3>1, <3>2, <3>3
    <3>5. r.Verdict = x <=> /\ HasQuorum(Len(vs), setSize)
                            /\ MassOf(vs, {x}) > MassOf(vs, VerdictStates \ {x})
      BY <1>5, <2>3, VerdictUnlessNearTie
    <3>6. s.Verdict = x <=> /\ HasQuorum(Len(ws), setSize)
                            /\ MassOf(ws, {x}) > MassOf(ws, VerdictStates \ {x})
      BY <1>5, <2>1, <2>3, VerdictUnlessNearTie
    <3> QED
      BY <3>4, <3>5, <3>6
  <2> HIDE DEF r, s
  <2>4. (\A x \in VerdictStates : ~NearTie(vs, x) /\ ~NearTie(ws, x)) => s.Verdict = r.Verdict
    BY <2>2, <2>3
  <2>5. r.err = s.err
    BY <2>2
  <2> QED
    BY <2>4, <2>5 DEF r, s
<1> QED
  BY <1>3, <1>4, <1>5 DEF Valid

LEMMA OrderHolds == CInv => OrderDecidesOnlyTies
<1> SUFFICES ASSUME CInv, NEW p \in Bijection(1..Len(votes), 1..Len(votes))
             PROVE  LET ws == [i \in 1..Len(votes) |-> votes[p[i]]]
                        s  == ComputeConsensus(ws, validatorSetSize)
                    IN  /\ s.err = Current.err
                        /\ \/ Current.err # "nil" \/ s.Verdict = Current.Verdict
                           \/ \E x \in VerdictStates : NearTie(votes, x) \/ NearTie(ws, x)
  BY DEF OrderDecidesOnlyTies
<1> DEFINE ws == [i \in 1..Len(votes) |-> votes[p[i]]]
<1>1. Len(votes) \in Nat /\ validatorSetSize \in Int
  BY SetSizesAssumption DEF CInv, TypeOK
<1>2. Len(ws) = Len(votes) /\ \A i \in 1..Len(votes) : ws[i] = votes[p[i]]
  BY <1>1
<1> HIDE DEF ws
<1>3. 2 * Len(votes) <= Significand
  BY VotesAreFew
<1>4. /\ ComputeConsensus(ws, validatorSetSize).err = Current.err
      /\ \/ Current.err # "nil"
         \/ ComputeConsensus(ws, validatorSetSize).Verdict = Current.Verdict
         \/ \E x \in VerdictStates : NearTie(votes, x) \/ NearTie(ws, x)
  <2>1. PICK vs, setSize : vs = votes /\ setSize = validatorSetSize
    OBVIOUS
  <2>2. /\ Len(vs) \in Nat /\ 2 * Len(vs) <= Significand /\ setSize \in Int
        /\ Len(ws) = Len(vs) /\ p \in Bijection(1..Len(vs), 1..Len(vs))
        /\ \A i \in 1..Len(vs) : ws[i] = vs[p[i]]
    BY <1>1, <1>2, <1>3, <2>1
  <2>3. /\ ComputeConsensus(ws, setSize).err = ComputeConsensus(vs, setSize).err
        /\ \/ ComputeConsensus(vs, setSize).err # "nil"
           \/ ComputeConsensus(ws, setSize).Verdict = ComputeConsensus(vs, setSize).Verdict
           \/ \E x \in VerdictStates : NearTie(vs, x) \/ NearTie(ws, x)
    BY ONLY <2>2, SameVotes
  <2> QED
    BY <2>1, <2>3 DEF Current
<1> QED
  BY <1>4 DEF ws

\* The order in which the same votes are passed decides the verdict only where
\* rounding could hide whether a verdict has a majority; any two orders agree on
\* the error.
THEOREM OrderDecidesOnlyNearTies == Spec => []OrderDecidesOnlyTies
BY Invariance, OrderHolds, PTL

-----------------------------------------------------------------------------
\* One more vote adds its share to each mass.
LEMMA MassAppend ==
    ASSUME NEW vs, Len(vs) \in Nat, NEW ws, Valid(ws), Len(ws) = Len(vs) + 1,
           \A i \in 1..Len(vs) : ws[i] = vs[i], NEW x
    PROVE  /\ Valid(vs)
           /\ Mass(vs, x) \in Int
           /\ Mass(ws, x) = Mass(vs, x) +
                  (IF x = "TotalMass" \/ ws[Len(ws)].Verdict = x THEN adjustedWeight(ws[Len(ws)]) ELSE 0)
<1> DEFINE n == Len(vs)
           f == Share(ws, x)
           g == Share(vs, x)
<1>1. Valid(vs)
  BY DEF Valid
<1>2. \A i \in 1..(n + 1) : f[i] \in Int
  BY ShareType
<1>3. Summable(g, 1..n)
  BY <1>1, ShareType
<1>4. \A i \in 1..n : g[i] = f[i]
  BY DEF Share
<1>5. f[n + 1] = IF x = "TotalMass" \/ ws[n + 1].Verdict = x THEN adjustedWeight(ws[n + 1]) ELSE 0
  BY DEF Share
<1> HIDE DEF f, g
<1>6. SumFunctionOnSet(f, 1..(n + 1)) = f[n + 1] + SumFunctionOnSet(f, 1..n)
  BY <1>2, SumOfInterval
<1>7. SumFunctionOnSet(g, 1..n) = SumFunctionOnSet(f, 1..n) /\ SumFunctionOnSet(g, 1..n) \in Int
  BY <1>3, <1>4, SumSame, SumType
<1>8. f[n + 1] \in Int
  BY <1>2
<1>9. SumFunctionOnSet(f, 1..(n + 1)) = SumFunctionOnSet(g, 1..n) + f[n + 1]
  BY <1>6, <1>7, <1>8
<1> QED
  BY <1>1, <1>5, <1>7, <1>9 DEF f, g, Mass

LEMMA ValidAppend ==
    ASSUME NEW vs, Valid(vs), NEW ws, Len(ws) = Len(vs) + 1,
           \A i \in 1..Len(vs) : ws[i] = vs[i], validateVote(ws[Len(ws)])
    PROVE  Valid(ws) /\ Len(ws) > 0
<1>1. \A i \in 1..Len(ws) : i \in 1..Len(vs) \/ i = Len(ws)
  BY DEF Valid
<1> QED
  BY <1>1 DEF Valid

\* A vote without weight leaves every running mass as it is, for a float64 is
\* its own nearest: the decision stands.
LEMMA SilentVote ==
    ASSUME NEW vs, Len(vs) \in Nat, NEW ws, Len(ws) = Len(vs) + 1,
           \A i \in 1..Len(vs) : ws[i] = vs[i], NEW setSize \in Int,
           Decided(ComputeConsensus(vs, setSize)), validateVote(ws[Len(ws)]),
           adjustedWeight(ws[Len(ws)]) = 0
    PROVE  /\ Decided(ComputeConsensus(ws, setSize))
           /\ ComputeConsensus(ws, setSize).Verdict = ComputeConsensus(vs, setSize).Verdict
<1> DEFINE r == ComputeConsensus(vs, setSize)
           b == aggregateWeights(vs)
           x == findWinner(b)
           v == ws[Len(ws)].Verdict
<1>1. Valid(vs) /\ Len(vs) > 0
  BY NilMeansValid DEF Decided
<1>2. Valid(ws) /\ Len(ws) > 0
  BY <1>1, ValidAppend
<1>3. b \in [Masses -> Nat] /\ \A y \in Masses : Round(b[y]) = b[y] /\ Round(b[y] + 0) = b[y]
  <2>1. b \in [Masses -> Nat] /\ \A y \in Masses : Round(b[y]) = b[y]
    BY <1>1, AggregateIsNear DEF Near
  <2> HIDE DEF b
  <2>2. \A y \in Masses : b[y] + 0 = b[y]
    BY <2>1
  <2> QED
    BY <2>1, <2>2
<1>4. v \in Masses /\ "TotalMass" \in Masses /\ v # "TotalMass"
  BY DEF validateVote, Masses, VerdictStates
<1>5. aggregateWeights(ws) = b
  <2>1. aggregateWeights(ws) = Added(ws, b, Len(ws))
    BY AggregateAppend
  <2> HIDE DEF b
  <2>2. Added(ws, b, Len(ws)) = [b EXCEPT ![v] = Round(@ + 0), !["TotalMass"] = Round(@ + 0)]
    BY DEF Added
  <2> HIDE DEF v
  <2>3. [b EXCEPT ![v] = Round(@ + 0), !["TotalMass"] = Round(@ + 0)] = b
    BY <1>3, <1>4
  <2> QED
    BY <2>1, <2>2, <2>3
<1>6. /\ x \in VerdictStates /\ HasQuorum(Len(vs), setSize) /\ Outweighs(vs, x)
      /\ r = Result(x, computeConfidence(vs, x), b)
  <2>1. r # Result("INDETERMINATE", 0, b)
    BY DEF Decided, Result
  <2> QED
    BY <1>1, <2>1, Decision
<1>7. r.Verdict = x /\ x # "INDETERMINATE"
  BY <1>6 DEF Decided, Result
<1>8. HasQuorum(Len(ws), setSize) /\ Outweighs(ws, x)
  BY <1>5, <1>6 DEF HasQuorum, Outweighs
<1>9. ComputeConsensus(ws, setSize) = Result(x, computeConfidence(ws, x), b)
  BY <1>2, <1>5, <1>8, Decision
<1> HIDE DEF x, b
<1> QED
  BY <1>7, <1>9 DEF Decided, Result

\* A vote in favour only adds to the lead of a verdict.
LEMMA VoteInFavour ==
    ASSUME NEW vs, Len(vs) \in Nat, NEW ws, Len(ws) = Len(vs) + 1, 2 * Len(ws) <= Significand,
           \A i \in 1..Len(vs) : ws[i] = vs[i], NEW setSize \in Int,
           Decided(ComputeConsensus(vs, setSize)), validateVote(ws[Len(ws)]),
           ws[Len(ws)].Verdict = ComputeConsensus(vs, setSize).Verdict,
           ~NearTie(vs, ws[Len(ws)].Verdict), ~NearTie(ws, ws[Len(ws)].Verdict)
    PROVE  /\ Decided(ComputeConsensus(ws, setSize))
           /\ ComputeConsensus(ws, setSize).Verdict = ComputeConsensus(vs, setSize).Verdict
<1> DEFINE x == ws[Len(ws)].Verdict
<1>1. Valid(vs) /\ Len(vs) > 0
  BY NilMeansValid DEF Decided
<1>2. Valid(ws) /\ Len(ws) > 0
  BY <1>1, ValidAppend
<1>3. x \in VerdictStates \ {"INDETERMINATE"} /\ x # "TotalMass"
  BY DEF validateVote, Decided, VerdictStates
<1>4. HasQuorum(Len(vs), setSize) /\ MassOf(vs, {x}) > MassOf(vs, VerdictStates \ {x})
  <2>1. 2 * Len(vs) <= Significand
    BY SignificandAssumption
  <2> QED
    BY <1>1, <1>3, <2>1, VerdictUnlessNearTie
<1>5. MassOf(ws, {x}) > MassOf(ws, VerdictStates \ {x})
  <2>1. PICK d \in Nat : d = adjustedWeight(ws[Len(ws)])
    BY WeightType
  <2>2. /\ MassOf(vs, {x}) = Mass(vs, x) /\ MassOf(vs, VerdictStates \ {x}) \in Nat
        /\ MassOf(vs, {x}) \in Nat
        /\ MassOf(vs, {x}) + MassOf(vs, VerdictStates \ {x}) = Mass(vs, "TotalMass")
    BY <1>1, <1>3, MassOfVotes
  <2>3. /\ MassOf(ws, {x}) = Mass(ws, x) /\ MassOf(ws, VerdictStates \ {x}) \in Nat
        /\ MassOf(ws, {x}) \in Nat
        /\ MassOf(ws, {x}) + MassOf(ws, VerdictStates \ {x}) = Mass(ws, "TotalMass")
    BY <1>2, <1>3, MassOfVotes
  <2>4. Mass(ws, x) = Mass(vs, x) + d
    BY <1>2, <1>3, <2>1, MassAppend
  <2>5. Mass(ws, "TotalMass") = Mass(vs, "TotalMass") + d
    BY <1>2, <2>1, MassAppend
  <2> QED
    BY <1>4, <2>2, <2>3, <2>4, <2>5
<1>6. HasQuorum(Len(ws), setSize)
  BY <1>4 DEF HasQuorum
<1>7. ComputeConsensus(ws, setSize).Verdict = x
  BY <1>2, <1>3, <1>5, <1>6, VerdictUnlessNearTie
<1>8. ComputeConsensus(ws, setSize).err = "nil"
  BY <1>2, VerdictType
<1> QED
  BY <1>3, <1>7, <1>8 DEF Decided

\* A vote that arrives after a verdict could be decided overturns it only if it
\* is for another verdict and has weight, or where rounding could hide the
\* majority.
THEOREM LateVotesKeepVerdict == Spec => LateVoteKeepsVerdict
<1> DEFINE Kept ==
        Decided(ComputeConsensus(votes', validatorSetSize'))
            /\ ComputeConsensus(votes', validatorSetSize').Verdict = Current.Verdict
           new == votes'[Len(votes')]
           Survives ==
               votes' # votes /\ Decided(Current) /\ validateVote(new) =>
                   /\ adjustedWeight(new) = 0 => Kept
                   /\ new.Verdict = Current.Verdict =>
                          Kept \/ NearTie(votes, Current.Verdict) \/ NearTie(votes', Current.Verdict)
<1>1. CInv /\ CInv' /\ [Next]_vars => [Survives]_vars
  <2> SUFFICES ASSUME CInv, CInv', Next, votes' # votes, Decided(Current), validateVote(new)
               PROVE  /\ adjustedWeight(new) = 0 => Kept
                      /\ new.Verdict = Current.Verdict =>
                            Kept \/ NearTie(votes, Current.Verdict) \/ NearTie(votes', Current.Verdict)
    OBVIOUS
  <2>1. votes \in Seq(Revealed) /\ Len(votes) \in Nat /\ validatorSetSize \in Int
    BY SetSizesAssumption DEF CInv, TypeOK
  <2>2. PICK v \in Validators, ballot \in Ballots : Reveal(v, ballot)
    BY DEF Next, Compute
  <2> DEFINE vote == [ballot EXCEPT !.ValidatorID = v]
  <2>3. votes' = Append(votes, vote) /\ validatorSetSize' = validatorSetSize /\ vote \in Revealed
    BY <2>2 DEF Reveal, Revealed
  <2> HIDE DEF vote
  <2>4. Len(votes') = Len(votes) + 1 /\ \A i \in 1..Len(votes) : votes'[i] = votes[i]
    BY <2>1, <2>3
  <2>5. 2 * Len(votes') <= Significand
    <3>1. (CInv => 2 * Len(votes) <= Significand)'
      BY VotesAreFew, PTL
    <3> QED
      BY <3>1
  <2>6. PICK vs, ws, setSize, x :
            vs = votes /\ ws = votes' /\ setSize = validatorSetSize /\ x = Current.Verdict
    OBVIOUS
  <2>7. /\ Len(vs) \in Nat /\ Len(ws) = Len(vs) + 1 /\ setSize \in Int
        /\ 2 * Len(ws) <= Significand /\ \A i \in 1..Len(vs) : ws[i] = vs[i]
        /\ Decided(ComputeConsensus(vs, setSize)) /\ validateVote(ws[Len(ws)])
        /\ x = ComputeConsensus(vs, setSize).Verdict
    BY <2>1, <2>4, <2>5, <2>6 DEF Current
  <2>8. adjustedWeight(ws[Len(ws)]) = 0 =>
            /\ Decided(ComputeConsensus(ws, setSize))
            /\ ComputeConsensus(ws, setSize).Verdict = x
    BY ONLY <2>7, SilentVote
  <2>9. ASSUME ws[Len(ws)].Verdict = x, ~NearTie(vs, x), ~NearTie(ws, x)
        PROVE  /\ Decided(ComputeConsensus(ws, setSize))
               /\ ComputeConsensus(ws, setSize).Verdict = x
    <3>1. /\ Len(vs) \in Nat /\ Len(ws) = Len(vs) + 1 /\ 2 * Len(ws) <= Significand
          /\ \A i \in 1..Len(vs) : ws[i] = vs[i]
          /\ setSize \in Int
          /\ Decided(ComputeConsensus(vs, setSize)) /\ validateVote(ws[Len(ws)])
          /\ ws[Len(ws)].Verdict = ComputeConsensus(vs, setSize).Verdict
          /\ ~NearTie(vs, ws[Len(ws)].Verdict) /\ ~NearTie(ws, ws[Len(ws)].Verdict)
      BY <2>7, <2>9
    <3>2. /\ Decided(ComputeConsensus(ws, setSize))
          /\ ComputeConsensus(ws, setSize).Verdict = ComputeConsensus(vs, setSize).Verdict
      BY ONLY <3>1, VoteInFavour, SMTT(60)
    <3> QED
      BY <2>7, <3>2
  <2> QED
    BY <2>3, <2>6, <2>8, <2>9
<1>2. CInv /\ CInv' /\ [Next]_vars =>
          [LET r     == Current
               late  == votes'[Len(votes')]
               after == ComputeConsensus(votes', validatorSetSize')
               kept  == Decided(after) /\ after.Verdict = r.Verdict
           IN  votes' # votes /\ Decided(r) /\ validateVote(late) =>
                   /\ adjustedWeight(late) = 0 => kept
                   /\ late.Verdict = r.Verdict =>
                          kept \/ NearTie(votes, r.Verdict) \/ NearTie(votes', r.Verdict)]_vars
  BY <1>1
<1> QED
  BY <1>2, Invariance, PTL DEF Spec, LateVoteKeepsVerdict
=============================================================================

----------------------------- MODULE BiasProofs -----------------------------
(***************************************************************************)
(* Proofs about Bias, for any validators, domains, observations and window *)
(* sizes.                                                                  *)
(***************************************************************************)
EXTENDS Bias, Sums, SequenceTheorems, TLAPS

\* A sequence of valid observations.
Accepted(s) ==
    s \in Seq(Observations) /\ \A i \in 1..Len(s) : validateObservation(s[i])

LEMMA DeviationType ==
    ASSUME NEW obs, validateObservation(obs)
    PROVE  deviation(obs) \in 0..One
<1>1. obs.PopulationAverageScore \in 0..100
  BY DEF validateObservation, One
<1>2. verdictScore[obs.ValidatorVerdict] \in 0..100
  BY DEF validateObservation, verdictScore, One
<1> QED
  BY <1>1, <1>2, SMTT(30) DEF deviation, One

Deviations(s) == [i \in 1..Len(s) |-> deviation(s[i])]

\* The sum of deviations that the loop of ComputeBias arrives at.
Total(s) == SumFunctionOnSet(Deviations(s), 1..Len(s))

LEMMA DeviationsType ==
    ASSUME NEW s, Accepted(s)
    PROVE  /\ Len(s) \in Nat
           /\ \A i \in 1..Len(s) : /\ Deviations(s)[i] = deviation(s[i])
                                   /\ Deviations(s)[i] \in Int
                                   /\ 0 <= Deviations(s)[i] /\ Deviations(s)[i] <= One
           /\ Summable(Deviations(s), 1..Len(s))
           /\ Total(s) \in Nat
<1>1. Len(s) \in Nat
  BY DEF Accepted
<1>2. \A i \in 1..Len(s) : /\ Deviations(s)[i] = deviation(s[i])
                           /\ Deviations(s)[i] \in Int
                           /\ 0 <= Deviations(s)[i] /\ Deviations(s)[i] <= One
  <2>1. \A x \in 0..One : x \in Int /\ 0 <= x /\ x <= One
    BY DEF One
  <2> QED
    BY <2>1, DeviationType DEF Accepted, Deviations
<1>3. Summable(Deviations(s), 1..Len(s)) /\ Cardinality(1..Len(s)) \in Nat
  BY <1>1, <1>2, IntervalGrows DEF Summable
<1>4. Total(s) \in Int /\ 0 * Cardinality(1..Len(s)) <= Total(s)
  <2> DEFINE f == Deviations(s)
             I == 1..Len(s)
  <2>1. 0 \in Int /\ One \in Int /\ Summable(f, I) /\ \A i \in I : 0 <= f[i] /\ f[i] <= One
    BY <1>2, <1>3 DEF One
  <2> HIDE DEF f, I
  <2>2. SumFunctionOnSet(f, I) \in Int /\ 0 * Cardinality(I) <= SumFunctionOnSet(f, I)
    BY ONLY <2>1, SumType, SumBounds
  <2> QED
    BY <2>2 DEF Total, f, I
<1> QED
  BY <1>1, <1>2, <1>3, <1>4

\* The coefficient of a window with entries s.
Coefficient(s) == IF Len(s) < MinObservationsForBias THEN 0 ELSE Total(s) \div Len(s)

LEMMA ComputedBias ==
    ASSUME NEW w, Accepted(w.entries)
    PROVE  ComputeBias(w) = BiasResult(Coefficient(w.entries), Len(w.entries))
<1> DEFINE s == w.entries
           n == Len(s)
           Loop(t) == t = [i \in 0..n |-> IF i = 0 THEN 0 ELSE t[i - 1] + deviation(s[i])]
<1>1. n \in Nat /\ \A i \in 1..n : Deviations(s)[i] \in Int /\ Deviations(s)[i] = deviation(s[i])
  BY DeviationsType
<1>2. \A t : Loop(t) <=> IsRunningSum(t, Deviations(s), n)
  <2> SUFFICES ASSUME NEW t PROVE Loop(t) <=> IsRunningSum(t, Deviations(s), n)
    OBVIOUS
  <2>1. \A i \in 0..n : i # 0 => i \in 1..n
    BY <1>1
  <2>2. \A i \in 0..n : (IF i = 0 THEN 0 ELSE t[i - 1] + deviation(s[i])) =
                        (IF i = 0 THEN 0 ELSE t[i - 1] + Deviations(s)[i])
    BY <1>1, <2>1
  <2> QED
    BY <2>2 DEF IsRunningSum
<1>3. ComputeBias(w) = BiasResult(IF n < MinObservationsForBias THEN 0
                                  ELSE (CHOOSE t : Loop(t))[n] \div n, n)
  BY DEF ComputeBias
<1>4. PICK t : t = (CHOOSE u : Loop(u)) /\ Loop(t)
  BY <1>1, <1>2, RunningSum
<1>5. t[n] = Total(s)
  BY <1>1, <1>2, <1>4, RunningSum DEF Total
<1> QED
  BY <1>3, <1>4, <1>5 DEF Coefficient

LEMMA CoefficientType ==
    ASSUME NEW s, Accepted(s)
    PROVE  /\ Coefficient(s) \in 0..One
           /\ Len(s) >= MinObservationsForBias =>
                  /\ Coefficient(s) * Len(s) <= Total(s)
                  /\ Total(s) < (Coefficient(s) + 1) * Len(s)
<1>1. Len(s) \in Nat /\ Total(s) \in Nat /\ One \in Nat /\ MinObservationsForBias = 5
  BY DeviationsType DEF One, MinObservationsForBias
<1>2. CASE Len(s) < MinObservationsForBias
  BY <1>1, <1>2 DEF Coefficient
<1>3. CASE Len(s) >= MinObservationsForBias
  <2> DEFINE n == Len(s)
             q == Total(s) \div n
  <2>1. n \in Nat \ {0}
    BY <1>1, <1>3
  <2>2. Coefficient(s) = q
    BY <1>1, <1>3 DEF Coefficient
  <2>3. q \in 0..One
    <3>1. Cardinality(1..n) = n /\ 1..n # {}
      BY <2>1, IntervalGrows
    <3> DEFINE f == Deviations(s)
               I == 1..n
    <3>2. 0 \in Int /\ One \in Int /\ Summable(f, I) /\ \A i \in I : 0 <= f[i] /\ f[i] <= One
      BY <1>1, DeviationsType
    <3>3. I # {} /\ Total(s) = SumFunctionOnSet(f, I)
      BY <3>1 DEF Total
    <3> HIDE DEF f, I
    <3>4. SumFunctionOnSet(f, I) \div Cardinality(I) \in 0..One
      BY ONLY <3>2, <3>3, MeanBounds
    <3> QED
      BY <3>1, <3>3, <3>4 DEF I
  <2>4. q * n <= Total(s) /\ Total(s) < (q + 1) * n
    <3> HIDE DEF n
    <3>1. q \in Int /\ n * q <= Total(s) /\ Total(s) < n * q + n
      BY <1>1, <2>1
    <3> HIDE DEF q
    <3>2. q * n = n * q /\ (q + 1) * n = n * q + n
      BY <2>1, <3>1
    <3> QED
      BY <3>1, <3>2
  <2> HIDE DEF q
  <2> QED
    BY <2>2, <2>3, <2>4
<1> QED
  BY <1>1, <1>2, <1>3

-----------------------------------------------------------------------------
\* The entries of a window with entries e after Add of a valid observation.
Added(e, obs) == Append(IF Len(e) >= windowSize THEN Tail(e) ELSE e, obs)

\* One more observation: a full window keeps its length and loses the first
\* deviation.
LEMMA AddedEntries ==
    ASSUME NEW e, Accepted(e), Len(e) <= windowSize, windowSize \in Nat, windowSize > 0,
           NEW obs \in Observations, validateObservation(obs)
    PROVE  LET full == Len(e) >= windowSize
               f    == Added(e, obs)
           IN  /\ Accepted(f)
               /\ Len(f) = (IF full THEN Len(e) ELSE Len(e) + 1)
               /\ Len(f) <= windowSize
               /\ full => Len(e) >= 1
               /\ Total(f) = Total(e) + deviation(obs) - (IF full THEN deviation(e[1]) ELSE 0)
               /\ f[Len(f)] = obs
               /\ \A i \in 1..(Len(f) - 1) : f[i] = IF full THEN e[i + 1] ELSE e[i]
<1> DEFINE full == Len(e) >= windowSize
           t == IF full THEN Tail(e) ELSE e
           f == Added(e, obs)
<1>1. Len(e) \in Nat /\ e \in Seq(Observations)
  BY DEF Accepted
<1>2. full => Len(e) >= 1 /\ e # <<>>
  BY <1>1
<1>3. /\ t \in Seq(Observations)
      /\ Len(t) = (IF full THEN Len(e) - 1 ELSE Len(e))
      /\ \A i \in 1..Len(t) : t[i] = IF full THEN e[i + 1] ELSE e[i]
  <2>1. CASE full
    <3>1. /\ Tail(e) \in Seq(Observations) /\ Len(Tail(e)) = Len(e) - 1
          /\ \A i \in 1..Len(Tail(e)) : Tail(e)[i] = e[i + 1]
      BY <1>1, <1>2, <2>1, HeadTailProperties
    <3> QED
      BY <2>1, <3>1
  <2>2. CASE ~full
    BY <1>1, <2>2
  <2> QED
    BY <2>1, <2>2
<1>4. Accepted(t)
  <2>1. \A i \in 1..Len(t) : (full => i + 1 \in 1..Len(e)) /\ (~full => i \in 1..Len(e))
    BY <1>1, <1>3
  <2> QED
    BY <1>3, <2>1 DEF Accepted
<1>5. Total(t) = Total(e) - (IF full THEN deviation(e[1]) ELSE 0)
  <2>1. CASE ~full
    BY <2>1, DeviationsType
  <2>2. CASE full
    <3> DEFINE n == Len(t)
               a == Deviations(e)
               b == Deviations(t)
    <3>1. n \in Nat /\ n + 1 = Len(e) /\ 1 \in 1..(n + 1)
      BY <1>1, <1>2, <1>3, <2>2
    <3>2. \A j \in 1..(n + 1) : a[j] \in Int /\ a[j] = deviation(e[j])
      BY <3>1, DeviationsType
    <3>3. \A j \in 1..n : j + 1 \in 1..(n + 1)
      BY <3>1
    <3>4. \A j \in 1..n : b[j] = a[j + 1]
      BY <1>3, <2>2, <3>2, <3>3 DEF Deviations
    <3>5. Total(e) = SumFunctionOnSet(a, 1..(n + 1)) /\ Total(t) = SumFunctionOnSet(b, 1..n)
      BY <3>1 DEF Total
    <3> HIDE DEF a, b, n
    <3>6. SumFunctionOnSet(a, 1..(n + 1)) = a[1] + SumFunctionOnSet(b, 1..n)
      BY <3>1, <3>2, <3>4, SumShift
    <3>7. Total(t) \in Int
      BY <1>4, DeviationsType
    <3>8. Total(t) = Total(e) - deviation(e[1])
      BY <3>1, <3>2, <3>5, <3>6, <3>7
    <3> QED
      BY <2>2, <3>8
  <2> QED
    BY <2>1, <2>2
<1>6. f = Append(t, obs)
  BY DEF Added
<1> HIDE DEF t, f
<1>7. /\ f \in Seq(Observations) /\ Len(f) = Len(t) + 1 /\ f[Len(t) + 1] = obs
      /\ \A i \in 1..Len(t) : f[i] = t[i]
  BY <1>3, <1>6, AppendProperties
<1>8. Len(t) \in Nat
  BY <1>3
<1>9. Accepted(f)
  <2>1. \A i \in 1..Len(f) : i \in 1..Len(t) \/ i = Len(t) + 1
    BY <1>7, <1>8
  <2> QED
    BY <1>4, <1>7, <2>1 DEF Accepted
<1>10. Total(f) = Total(t) + deviation(obs)
  <2> DEFINE n == Len(t)
             a == Deviations(f)
             b == Deviations(t)
  <2>1. \A j \in 1..(n + 1) : a[j] \in Int /\ a[j] = deviation(f[j])
    BY <1>7, <1>9, DeviationsType
  <2>2. \A j \in 1..n : b[j] = a[j] /\ j \in 1..(n + 1)
    BY <1>7, <1>8, <2>1 DEF Deviations
  <2>3. Summable(b, 1..n) /\ Total(t) \in Int
    BY <1>4, DeviationsType
  <2>4. a[n + 1] = deviation(obs) /\ a[n + 1] \in Int
    BY <1>7, <1>8, <2>1
  <2>5. Total(f) = SumFunctionOnSet(a, 1..(n + 1)) /\ Total(t) = SumFunctionOnSet(b, 1..n)
    BY <1>7 DEF Total
  <2> HIDE DEF a, b
  <2>6. SumFunctionOnSet(a, 1..(n + 1)) = a[n + 1] + SumFunctionOnSet(a, 1..n)
    BY <1>8, <2>1, SumOfInterval
  <2>7. SumFunctionOnSet(b, 1..n) = SumFunctionOnSet(a, 1..n)
    BY <2>2, <2>3, SumSame
  <2> QED
    BY <2>3, <2>4, <2>5, <2>6, <2>7
<1>11. Total(e) \in Int /\ deviation(obs) \in Int /\ (full => deviation(e[1]) \in Int)
  <2>1. \A x \in 0..One : x \in Int
    BY DEF One
  <2>2. full => validateObservation(e[1])
    BY <1>1, <1>2 DEF Accepted
  <2> QED
    BY <2>1, <2>2, DeviationType, DeviationsType
<1>12. Total(f) = Total(e) + deviation(obs) - (IF full THEN deviation(e[1]) ELSE 0)
  BY <1>5, <1>10, <1>11
<1>13. /\ Len(f) = (IF full THEN Len(e) ELSE Len(e) + 1) /\ Len(f) <= windowSize
       /\ Len(f) = Len(t) + 1
  BY <1>1, <1>3, <1>7
<1>14. f[Len(f)] = obs /\ \A i \in 1..(Len(f) - 1) : f[i] = IF full THEN e[i + 1] ELSE e[i]
  BY <1>3, <1>7, <1>8, <1>13
<1> QED
  BY <1>2, <1>9, <1>12, <1>13, <1>14 DEF f

-----------------------------------------------------------------------------
\* The entries recorded under a key, none when there is no window.
EntriesIn(ws, k) == IF k \in DOMAIN ws THEN ws[k].entries ELSE <<>>

Windows(ws) ==
    \A k \in DOMAIN ws : /\ "entries" \in DOMAIN ws[k]
                         /\ Accepted(ws[k].entries)
                         /\ Len(ws[k].entries) <= windowSize

\* The inductive invariant: the windows hold valid observations, no more of
\* them than fit.  Valid, because a refused observation is never appended; it is
\* what makes every deviation, and so the mean, a number in [0.0, 1.0].
BInv ==
    /\ windowSize \in Nat /\ windowSize >= MinObservationsForBias
    /\ Windows(windows)
    /\ log \in [Pairs -> Seq(Observations)]

LEMMA EntriesAreAccepted ==
    ASSUME NEW ws, Windows(ws), windowSize \in Nat, NEW k
    PROVE  Accepted(EntriesIn(ws, k)) /\ Len(EntriesIn(ws, k)) <= windowSize
<1>1. Accepted(<<>>) /\ Len(<<>>) = 0
  BY DEF Accepted
<1> QED
  BY <1>1 DEF EntriesIn, Windows

\* BiasFor is the coefficient of the entries under its key.
LEMMA BiasIs ==
    ASSUME NEW ws, Windows(ws), NEW v, NEW d
    PROVE  biasIn(ws, v, d) =
               BiasResult(Coefficient(EntriesIn(ws, key(TrimSpace(v), Normalise(d)))),
                          Len(EntriesIn(ws, key(TrimSpace(v), Normalise(d)))))
<1> DEFINE k == key(TrimSpace(v), Normalise(d))
<1>1. CASE k \in DOMAIN ws
  <2>1. Accepted(ws[k].entries)
    BY <1>1 DEF Windows
  <2>2. ComputeBias(ws[k]) = BiasResult(Coefficient(ws[k].entries), Len(ws[k].entries))
    BY <2>1, ComputedBias
  <2> QED
    BY <1>1, <2>2 DEF biasIn, EntriesIn
<1>2. CASE k \notin DOMAIN ws
  <2>1. EntriesIn(ws, k) = <<>> /\ Len(<<>>) = 0 /\ Coefficient(<<>>) = 0
    BY <1>2 DEF EntriesIn, Coefficient, MinObservationsForBias
  <2> QED
    BY <1>2, <2>1 DEF biasIn
<1> QED
  BY <1>1, <1>2

\* What Record does to the entries under every key.
LEMMA RecordedEntries ==
    ASSUME BInv, NEW id, NEW dom, NEW obs \in Observations, NEW k
    PROVE  LET ws == recordIn(windows, id, dom, obs)
           IN  EntriesIn(ws, k) =
                   IF k = key(id, dom) /\ validateObservation(obs)
                   THEN Added(EntriesIn(windows, k), obs) ELSE EntriesIn(windows, k)
<1> DEFINE k0 == key(id, dom)
           w == IF k0 \in DOMAIN windows THEN windows[k0] ELSE NewWindow(id, dom)
           ws == recordIn(windows, id, dom, obs)
<1>1. "entries" \in DOMAIN w /\ w.entries = EntriesIn(windows, k0)
  BY DEF BInv, Windows, EntriesIn, NewWindow
<1>2. Add(w, obs).entries = IF validateObservation(obs) THEN Added(w.entries, obs) ELSE w.entries
  <2> HIDE DEF w
  <2> QED
    BY <1>1 DEF Add, Added
<1>3. ws = [j \in DOMAIN windows \cup {k0} |-> IF j = k0 THEN Add(w, obs) ELSE windows[j]]
  BY DEF recordIn
<1> HIDE DEF w, ws, k0
<1>4. CASE k = k0
  <2>1. EntriesIn(ws, k) = Add(w, obs).entries
    BY <1>3, <1>4 DEF EntriesIn
  <2> QED
    BY <1>1, <1>2, <1>4, <2>1 DEF k0, ws
<1>5. CASE k # k0
  <2>1. EntriesIn(ws, k) = EntriesIn(windows, k)
    BY <1>3, <1>5 DEF EntriesIn
  <2> QED
    BY <1>5, <2>1 DEF k0, ws
<1> QED
  BY <1>4, <1>5

LEMMA RecordKeepsWindows ==
    ASSUME BInv, NEW id, NEW dom, NEW obs \in Observations
    PROVE  Windows(recordIn(windows, id, dom, obs))
<1> DEFINE ws == recordIn(windows, id, dom, obs)
<1> SUFFICES ASSUME NEW k \in DOMAIN ws
             PROVE  /\ "entries" \in DOMAIN ws[k]
                    /\ Accepted(ws[k].entries)
                    /\ Len(ws[k].entries) <= windowSize
  BY DEF Windows
<1>1. "entries" \in DOMAIN ws[k]
  BY DEF BInv, Windows, recordIn, NewWindow, Add
<1>2. ws[k].entries = EntriesIn(ws, k)
  BY DEF EntriesIn
<1>3. windowSize \in Nat /\ windowSize > 0
  BY DEF BInv, MinObservationsForBias
<1>4. Accepted(EntriesIn(windows, k)) /\ Len(EntriesIn(windows, k)) <= windowSize
  BY <1>3, EntriesAreAccepted DEF BInv
<1>5. validateObservation(obs) =>
          /\ Accepted(Added(EntriesIn(windows, k), obs))
          /\ Len(Added(EntriesIn(windows, k), obs)) <= windowSize
  BY <1>3, <1>4, AddedEntries
<1>6. Accepted(EntriesIn(ws, k)) /\ Len(EntriesIn(ws, k)) <= windowSize
  BY <1>4, <1>5, RecordedEntries
<1> QED
  BY <1>1, <1>2, <1>6

LEMMA InitBInv == Init => BInv
<1> SUFFICES ASSUME Init PROVE BInv
  OBVIOUS
<1>1. windowSize \in Nat /\ windowSize >= MinObservationsForBias
  BY SizesAssumption DEF Init, NewTracker, MinObservationsForBias, DefaultWindowSize
<1>2. Windows(windows)
  BY DEF Init, NewTracker, Windows
<1>3. log \in [Pairs -> Seq(Observations)]
  BY DEF Init
<1> QED
  BY <1>1, <1>2, <1>3 DEF BInv

LEMMA NextBInv == BInv /\ [Next]_vars => BInv'
<1> SUFFICES ASSUME BInv, [Next]_vars PROVE BInv'
  OBVIOUS
<1>1. ASSUME NEW v \in ValidatorIDs, NEW d \in DomainNames, NEW obs \in Observations,
             Record(v, d, obs)
      PROVE  BInv'
  <2>1. windowSize' = windowSize /\ windowSize \in Nat /\ windowSize >= MinObservationsForBias
    BY <1>1 DEF Record, BInv
  <2>2. Windows(windows')
    BY <1>1, RecordKeepsWindows DEF Record
  <2>3. Windows(windows)'
    BY <2>1, <2>2 DEF Windows, Accepted
  <2>4. log' \in [Pairs -> Seq(Observations)]
    <3>1. \A s \in Seq(Observations) : Append(s, obs) \in Seq(Observations)
      OBVIOUS
    <3> QED
      BY <1>1, <3>1 DEF Record, BInv
  <2> QED
    BY <2>1, <2>3, <2>4 DEF BInv
<1>2. CASE UNCHANGED vars
  <2>1. windows' = windows /\ windowSize' = windowSize /\ log' = log
    BY <1>2 DEF vars
  <2> QED
    BY <2>1 DEF BInv, Windows, Accepted
<1> QED
  BY <1>1, <1>2 DEF Next

THEOREM Windowed == Spec => []BInv
BY InitBInv, NextBInv, PTL DEF Spec

\* No window outgrows its size, an observation that Record refuses is in none,
\* and every coefficient is in [0.0, 1.0].
THEOREM TypeCorrect == Spec => []TypeOK
<1>1. BInv => TypeOK
  <2> SUFFICES ASSUME BInv, NEW k \in DOMAIN windows
               PROVE  /\ Len(windows[k].entries) <= windowSize
                      /\ \A i \in 1..Len(windows[k].entries) :
                             validateObservation(windows[k].entries[i])
                      /\ ComputeBias(windows[k]).Coefficient \in 0..One
    BY DEF TypeOK, BInv
  <2>1. Accepted(windows[k].entries) /\ Len(windows[k].entries) <= windowSize
    BY DEF BInv, Windows
  <2>2. ComputeBias(windows[k]).Coefficient = Coefficient(windows[k].entries)
    BY <2>1, ComputedBias DEF BiasResult
  <2> QED
    BY <2>1, <2>2, CoefficientType DEF Accepted
<1> QED
  BY <1>1, Windowed, PTL

-----------------------------------------------------------------------------
\* What a step does to what BiasFor reads: a validator's entries stay, or they
\* gain one valid observation, the one that its history gains.
Step(v, d) ==
    LET q == <<TrimSpace(v), Normalise(d)>>
        k == key(q[1], q[2])
    IN  \/ EntriesIn(windows', k) = EntriesIn(windows, k)
        \/ \E obs \in Observations :
               /\ validateObservation(obs)
               /\ EntriesIn(windows', k) = Added(EntriesIn(windows, k), obs)
               /\ log'[q] # log[q] => log'[q] = Append(log[q], obs)

LEMMA NextSteps ==
    ASSUME BInv, [Next]_vars, NEW v \in ValidatorIDs, NEW d \in DomainNames
    PROVE  Step(v, d)
<1> DEFINE q == <<TrimSpace(v), Normalise(d)>>
           k == key(q[1], q[2])
<1>1. CASE UNCHANGED vars
  BY <1>1 DEF vars, Step
<1>2. CASE Next
  <2>1. PICK u \in ValidatorIDs, c \in DomainNames, obs \in Observations : Record(u, c, obs)
    BY <1>2 DEF Next
  <2> DEFINE p == <<TrimSpace(u), Normalise(c)>>
             k0 == key(TrimSpace(u), Normalise(c))
  <2>2. windows' = recordIn(windows, TrimSpace(u), Normalise(c), obs)
    BY <2>1 DEF Record
  <2>3. EntriesIn(windows', k) = IF k = k0 /\ validateObservation(obs)
                                 THEN Added(EntriesIn(windows, k), obs) ELSE EntriesIn(windows, k)
    BY <2>2, RecordedEntries
  <2>4. log'[q] # log[q] => log'[q] = Append(log[q], obs)
    <3>1. q \in DOMAIN log
      BY DEF BInv, Pairs
    <3>2. log' = [log EXCEPT ![p] = IF validateObservation(obs) THEN Append(@, obs) ELSE @]
      BY <2>1 DEF Record
    <3> HIDE DEF p, q
    <3> QED
      BY <3>1, <3>2
  <2>5. CASE k = k0 /\ validateObservation(obs)
    <3>1. EntriesIn(windows', k) = Added(EntriesIn(windows, k), obs)
      BY <2>3, <2>5
    <3> HIDE DEF q, k
    <3>2. \E o \in Observations :
              /\ validateObservation(o)
              /\ EntriesIn(windows', k) = Added(EntriesIn(windows, k), o)
              /\ log'[q] # log[q] => log'[q] = Append(log[q], o)
      BY <2>4, <2>5, <3>1
    <3> QED
      BY <3>2 DEF Step, q, k
  <2>6. CASE ~(k = k0 /\ validateObservation(obs))
    BY <2>3, <2>6 DEF Step
  <2> QED
    BY <2>5, <2>6
<1> QED
  BY <1>1, <1>2

LEMMA Products ==
    ASSUME NEW c \in Int, NEW x \in Int, NEW n \in Int
    PROVE  /\ c * n \in Int
           /\ (c + 1) * n = c * n + n
           /\ c * (n + 1) = c * n + c
           /\ (c + 1) * (n + 1) = c * n + c + n + 1
           /\ (c - x - 1) * n = c * n - x * n - n
<1>1. (c + 1) * n = c * n + n
  OBVIOUS
<1>2. c * (n + 1) = c * n + c
  OBVIOUS
<1>3. (c + 1) * (n + 1) = c * n + c + n + 1
  OBVIOUS
<1>4. (c - x - 1) * n = c * n - x * n - n
  OBVIOUS
<1> QED
  BY <1>1, <1>2, <1>3, <1>4

\* A mean c of n deviations becomes a mean c2 of n2: one deviation out, one in.
LEMMA MeanMoves ==
    ASSUME NEW n \in Nat, NEW n2 \in Nat, NEW c \in 0..100, NEW c2 \in 0..100,
           NEW t \in Nat, NEW t2 \in Nat, NEW in \in 0..100, NEW out \in 0..100,
           c * n <= t, t < (c + 1) * n, c2 * n2 <= t2, t2 < (c2 + 1) * n2,
           \/ n2 = n /\ t2 = t + in - out
           \/ n2 = n + 1 /\ t2 = t + in
    PROVE  (c2 - c - 1) * n <= 100 /\ (c - c2 - 1) * n <= 100
<1> DEFINE p == c * n
           p2 == c2 * n
<1>1. /\ p \in Int /\ p2 \in Int
      /\ (c + 1) * n = p + n
      /\ (c2 + 1) * n = p2 + n /\ c2 * (n + 1) = p2 + c2 /\ (c2 + 1) * (n + 1) = p2 + c2 + n + 1
      /\ (c2 - c - 1) * n = p2 - p - n
      /\ (c - c2 - 1) * n = p - p2 - n
  BY Products
<1>2. CASE n2 = n /\ t2 = t + in - out
  <2>1. p <= t /\ t < p + n /\ p2 <= t2 /\ t2 < p2 + n
    BY <1>1, <1>2
  <2> HIDE DEF p, p2
  <2> QED
    BY <1>1, <1>2, <2>1
<1>3. CASE n2 = n + 1 /\ t2 = t + in
  <2>1. p <= t /\ t < p + n /\ p2 + c2 <= t2 /\ t2 < p2 + c2 + n + 1
    BY <1>1, <1>3
  <2> HIDE DEF p, p2
  <2> QED
    BY <1>1, <1>3, <2>1
<1> QED
  BY <1>2, <1>3

\* A mean below a whole bound stays below it when nothing is added to the sum.
LEMMA MeanStaysBelow ==
    ASSUME NEW n \in Nat, NEW n2 \in Nat, NEW c \in Nat, NEW c2 \in Nat,
           NEW t \in Nat, NEW t2 \in Nat,
           t < (c + 1) * n, c2 * n2 <= t2, t2 <= t, n <= n2, n > 0, c < 50
    PROVE  c2 < 50
<1>1. (c + 1) * n <= 50 * n
  OBVIOUS
<1>2. c2 * n2 < 50 * n2
  <2>1. (c + 1) * n \in Int /\ c2 * n2 \in Int
    OBVIOUS
  <2> QED
    BY <1>1, <2>1
<1>3. c2 >= 50 => c2 * n2 >= 50 * n2
  OBVIOUS
<1>4. c2 * n2 \in Int
  OBVIOUS
<1> QED
  BY <1>2, <1>3, <1>4

\* The facts about a gained observation that the two properties use.
LEMMA Gained ==
    ASSUME BInv, NEW k, NEW obs \in Observations, validateObservation(obs),
           Len(EntriesIn(windows, k)) >= MinObservationsForBias
    PROVE  LET e    == EntriesIn(windows, k)
               f    == Added(e, obs)
               full == Len(e) >= windowSize
           IN  /\ Len(e) \in Nat /\ Len(f) \in Nat /\ Len(e) > 0
               /\ Coefficient(e) \in 0..100 /\ Coefficient(f) \in 0..100
               /\ Total(e) \in Nat /\ Total(f) \in Nat
               /\ deviation(obs) \in 0..100
               /\ Coefficient(e) * Len(e) <= Total(e)
               /\ Total(e) < (Coefficient(e) + 1) * Len(e)
               /\ Coefficient(f) * Len(f) <= Total(f)
               /\ Total(f) < (Coefficient(f) + 1) * Len(f)
               /\ \E out \in 0..100 :
                      \/ Len(f) = Len(e) /\ Total(f) = Total(e) + deviation(obs) - out
                      \/ Len(f) = Len(e) + 1 /\ Total(f) = Total(e) + deviation(obs)
<1> DEFINE e == EntriesIn(windows, k)
           f == Added(e, obs)
           full == Len(e) >= windowSize
<1>1. windowSize \in Nat /\ windowSize > 0
  BY DEF BInv, MinObservationsForBias
<1>2. Accepted(e) /\ Len(e) <= windowSize
  BY <1>1, EntriesAreAccepted DEF BInv
<1>3. /\ Accepted(f)
      /\ Len(f) = (IF full THEN Len(e) ELSE Len(e) + 1)
      /\ full => Len(e) >= 1
      /\ Total(f) = Total(e) + deviation(obs) - (IF full THEN deviation(e[1]) ELSE 0)
  BY <1>1, <1>2, AddedEntries
<1>4. Len(e) \in Nat /\ Len(f) \in Nat /\ Total(e) \in Nat /\ Total(f) \in Nat
  BY <1>2, <1>3, DeviationsType
<1>5. One = 100 /\ MinObservationsForBias = 5
  BY DEF One, MinObservationsForBias
<1>6. deviation(obs) \in 0..100 /\ (full => deviation(e[1]) \in 0..100)
  <2>1. full => 1 \in 1..Len(e)
    BY <1>3, <1>4
  <2> QED
    BY <1>2, <1>5, <2>1, DeviationType DEF Accepted
<1> HIDE DEF e, f
<1>7. Len(e) >= MinObservationsForBias /\ Len(f) >= MinObservationsForBias /\ Len(e) > 0
  BY <1>3, <1>4, <1>5 DEF e
<1>8. /\ Coefficient(e) \in 0..100 /\ Coefficient(f) \in 0..100
      /\ Coefficient(e) * Len(e) <= Total(e)
      /\ Total(e) < (Coefficient(e) + 1) * Len(e)
      /\ Coefficient(f) * Len(f) <= Total(f)
      /\ Total(f) < (Coefficient(f) + 1) * Len(f)
  BY <1>2, <1>3, <1>5, <1>7, CoefficientType
<1>9. \E out \in 0..100 :
          \/ Len(f) = Len(e) /\ Total(f) = Total(e) + deviation(obs) - out
          \/ Len(f) = Len(e) + 1 /\ Total(f) = Total(e) + deviation(obs)
  <2>1. CASE full
    BY <1>3, <1>6, <2>1
  <2>2. CASE ~full
    <3>1. Total(f) = Total(e) + deviation(obs) - 0 /\ Len(f) = Len(e) + 1
      BY <1>3, <2>2
    <3>2. \A t \in Nat, x \in 0..100 : t + x - 0 = t + x
      OBVIOUS
    <3>3. 0 \in 0..100
      OBVIOUS
    <3> QED
      BY <1>4, <1>6, <3>1, <3>2, <3>3
  <2> QED
    BY <2>1, <2>2
<1> QED
  BY <1>4, <1>6, <1>7, <1>8, <1>9 DEF e, f

\* BiasFor before and after a step.
LEMMA BiasesOfAStep ==
    ASSUME BInv, BInv', [Next]_vars, NEW v \in ValidatorIDs, NEW d \in DomainNames
    PROVE  LET k == key(TrimSpace(v), Normalise(d))
           IN  /\ BiasFor(v, d).Coefficient = Coefficient(EntriesIn(windows, k))
               /\ BiasFor(v, d).ObservationCount = Len(EntriesIn(windows, k))
               /\ BiasFor(v, d)'.Coefficient = Coefficient(EntriesIn(windows', k))
<1> DEFINE k == key(TrimSpace(v), Normalise(d))
           e == EntriesIn(windows, k)
           f == EntriesIn(windows', k)
<1>1. BiasFor(v, d).Coefficient = Coefficient(e) /\ BiasFor(v, d).ObservationCount = Len(e)
  BY BiasIs DEF BInv, BiasFor, BiasResult
<1>2. BiasFor(v, d)'.Coefficient = Coefficient(f)
  <2>1. Windows(windows')
    <3>1. windowSize' = windowSize
      BY Zenon DEF Next, Record, vars
    <3> QED
      BY <3>1 DEF BInv, Windows, Accepted
  <2>2. BiasFor(v, d)' = biasIn(windows', v, d)
    BY DEF BiasFor, biasIn
  <2>3. biasIn(windows', v, d) = BiasResult(Coefficient(f), Len(f))
    BY <2>1, BiasIs
  <2> QED
    BY <2>2, <2>3 DEF BiasResult
<1> QED
  BY <1>1, <1>2

Slow(v, d) ==
    LET before == BiasFor(v, d)
        after  == BiasFor(v, d)'
    IN  before.ObservationCount >= MinObservationsForBias =>
            /\ (after.Coefficient - before.Coefficient - 1) * before.ObservationCount <= One
            /\ (before.Coefficient - after.Coefficient - 1) * before.ObservationCount <= One

LEMMA StepIsSlow ==
    ASSUME BInv, BInv', [Next]_vars, NEW v \in ValidatorIDs, NEW d \in DomainNames
    PROVE  Slow(v, d)
<1> DEFINE k == key(TrimSpace(v), Normalise(d))
           e == EntriesIn(windows, k)
           f == EntriesIn(windows', k)
<1>1. BiasFor(v, d).Coefficient = Coefficient(e) /\ BiasFor(v, d).ObservationCount = Len(e)
  BY BiasesOfAStep
<1>2. BiasFor(v, d)'.Coefficient = Coefficient(f)
  BY BiasesOfAStep
<1> SUFFICES ASSUME Len(e) >= MinObservationsForBias
             PROVE  /\ (Coefficient(f) - Coefficient(e) - 1) * Len(e) <= 100
                    /\ (Coefficient(e) - Coefficient(f) - 1) * Len(e) <= 100
  BY <1>1, <1>2 DEF Slow, One
<1>3. \/ f = e
      \/ \E obs \in Observations : validateObservation(obs) /\ f = Added(e, obs)
  BY NextSteps DEF Step
<1>4. CASE f = e
  <2>1. Accepted(e) /\ Len(e) \in Nat /\ Coefficient(e) \in Int
    <3>1. Accepted(e)
      BY EntriesAreAccepted DEF BInv
    <3>2. \A x \in 0..One : x \in Int
      BY DEF One
    <3> QED
      BY <3>1, <3>2, CoefficientType DEF Accepted
  <2> HIDE DEF e, f
  <2>2. Coefficient(e) - Coefficient(e) - 1 = -1 /\ (-1) * Len(e) <= 100
    BY <2>1
  <2> QED
    BY <1>4, <2>2
<1>5. ASSUME NEW obs \in Observations, validateObservation(obs), f = Added(e, obs)
      PROVE  /\ (Coefficient(f) - Coefficient(e) - 1) * Len(e) <= 100
             /\ (Coefficient(e) - Coefficient(f) - 1) * Len(e) <= 100
  <2>1. /\ Len(e) \in Nat /\ Len(f) \in Nat
        /\ Coefficient(e) \in 0..100 /\ Coefficient(f) \in 0..100
        /\ Total(e) \in Nat /\ Total(f) \in Nat
        /\ deviation(obs) \in 0..100
        /\ Coefficient(e) * Len(e) <= Total(e)
        /\ Total(e) < (Coefficient(e) + 1) * Len(e)
        /\ Coefficient(f) * Len(f) <= Total(f)
        /\ Total(f) < (Coefficient(f) + 1) * Len(f)
        /\ \E out \in 0..100 :
               \/ Len(f) = Len(e) /\ Total(f) = Total(e) + deviation(obs) - out
               \/ Len(f) = Len(e) + 1 /\ Total(f) = Total(e) + deviation(obs)
    BY <1>5, Gained, ZenonT(60)
  <2> HIDE DEF e, f
  <2> QED
    BY ONLY <2>1, MeanMoves, ZenonT(30)
<1> QED
  BY <1>3, <1>4, <1>5

\* A computed bias never jumps: one observation moves it by its share of the
\* window at most, whichever observation the full window drops for it.
THEOREM SlowBias == Spec => BiasMovesSlowly
<1>1. BInv /\ BInv' /\ [Next]_vars =>
          [\A v \in ValidatorIDs, d \in DomainNames : Slow(v, d)]_vars
  BY StepIsSlow
<1> QED
  BY <1>1, Windowed, PTL DEF Spec, BiasMovesSlowly, Slow

Kind(v, d) ==
    LET q == <<TrimSpace(v), Normalise(d)>>
    IN  /\ log'[q] # log[q] /\ deviation(Last(log'[q])) = 0
        /\ BiasFor(v, d).ObservationCount >= MinObservationsForBias
        /\ IsEligibleForDomain(BiasFor(v, d))
        => IsEligibleForDomain(BiasFor(v, d)')

LEMMA StepIsKind ==
    ASSUME BInv, BInv', [Next]_vars, NEW v \in ValidatorIDs, NEW d \in DomainNames
    PROVE  Kind(v, d)
<1> DEFINE q == <<TrimSpace(v), Normalise(d)>>
           k == key(TrimSpace(v), Normalise(d))
           e == EntriesIn(windows, k)
           f == EntriesIn(windows', k)
<1>1. /\ BiasFor(v, d).Coefficient = Coefficient(e)
      /\ BiasFor(v, d).ObservationCount = Len(e)
      /\ BiasFor(v, d)'.Coefficient = Coefficient(f)
  BY BiasesOfAStep
<1> SUFFICES ASSUME log'[q] # log[q], deviation(Last(log'[q])) = 0,
                    Len(e) >= MinObservationsForBias, Coefficient(e) < 50
             PROVE  Coefficient(f) < 50
  BY <1>1 DEF Kind, IsEligibleForDomain, BiasHighThreshold
<1>2. CASE f = e
  BY <1>2
<1>3. ASSUME NEW obs \in Observations, validateObservation(obs), f = Added(e, obs),
             log'[q] = Append(log[q], obs)
      PROVE  Coefficient(f) < 50
  <2>1. deviation(obs) = 0
    <3>1. log[q] \in Seq(Observations)
      BY DEF BInv, Pairs
    <3>2. Last(log'[q]) = obs
      BY <1>3, <3>1, AppendProperties DEF Last
    <3> QED
      BY <3>2
  <2>2. /\ Len(e) \in Nat /\ Len(f) \in Nat /\ Len(e) > 0
        /\ Coefficient(e) \in 0..100 /\ Coefficient(f) \in 0..100
        /\ Total(e) \in Nat /\ Total(f) \in Nat
        /\ Total(e) < (Coefficient(e) + 1) * Len(e)
        /\ Coefficient(f) * Len(f) <= Total(f)
        /\ \E out \in 0..100 :
               \/ Len(f) = Len(e) /\ Total(f) = Total(e) + 0 - out
               \/ Len(f) = Len(e) + 1 /\ Total(f) = Total(e) + 0
    BY <1>3, <2>1, Gained, ZenonT(60)
  <2>3. Coefficient(e) < 50
    OBVIOUS
  <2> HIDE DEF e, f
  <2>4. Total(f) <= Total(e) /\ Len(e) <= Len(f)
    BY ONLY <2>2
  <2>5. Coefficient(e) \in Nat /\ Coefficient(f) \in Nat
    <3>1. \A x \in 0..100 : x \in Nat
      OBVIOUS
    <3> QED
      BY ONLY <2>2, <3>1
  <2> QED
    BY ONLY <2>2, <2>3, <2>4, <2>5, MeanStaysBelow
<1>4. \/ f = e
      \/ \E obs \in Observations : /\ validateObservation(obs) /\ f = Added(e, obs)
                                   /\ log'[q] = Append(log[q], obs)
  BY NextSteps DEF Step
<1> QED
  BY <1>2, <1>3, <1>4

\* A validator that agrees with the population keeps its place: the coefficient
\* does not grow, although the window may drop another agreement for it.
THEOREM AgreementIsSafe == Spec => AgreementNeverExcludes
<1>1. BInv /\ BInv' /\ [Next]_vars =>
          [\A v \in ValidatorIDs, d \in DomainNames : Kind(v, d)]_vars
  BY StepIsKind
<1> QED
  BY <1>1, Windowed, PTL DEF Spec, AgreementNeverExcludes, Kind

-----------------------------------------------------------------------------
\* e is the most recent part of s, and all of s while that fits.
IsRecent(e, s) ==
    /\ Len(e) = IF Len(s) > windowSize THEN windowSize ELSE Len(s)
    /\ \A i \in 1..Len(e) : e[i] = s[Len(s) - Len(e) + i]

\* The strengthening for BiasFollowsRecent: a window is not merely of the right
\* length, it is the end of the history of the pair that its key stands for.
\* It is inductive because no other pair has that key.
History == \A q \in Pairs : IsRecent(EntriesIn(windows, key(q[1], q[2])), log[q])

LEMMA RecentGrows ==
    ASSUME windowSize \in Nat, windowSize > 0, NEW e, Accepted(e),
           NEW s \in Seq(Observations), IsRecent(e, s),
           NEW obs \in Observations, validateObservation(obs)
    PROVE  IsRecent(Added(e, obs), Append(s, obs))
<1> DEFINE f == Added(e, obs)
           t == Append(s, obs)
           full == Len(e) >= windowSize
<1>1. Len(e) \in Nat /\ Len(s) \in Nat /\ Len(e) <= windowSize /\ Len(e) <= Len(s)
  BY DEF Accepted, IsRecent
<1>2. /\ Len(t) = Len(s) + 1 /\ t[Len(s) + 1] = obs
      /\ \A i \in 1..Len(s) : t[i] = s[i]
  BY AppendProperties
<1>3. /\ Len(f) = (IF full THEN Len(e) ELSE Len(e) + 1)
      /\ f[Len(f)] = obs
      /\ \A i \in 1..(Len(f) - 1) : f[i] = IF full THEN e[i + 1] ELSE e[i]
  BY <1>1, AddedEntries
<1> HIDE DEF f, t
<1>4. /\ Len(e) = (IF Len(s) > windowSize THEN windowSize ELSE Len(s))
      /\ \A i \in 1..Len(e) : e[i] = s[Len(s) - Len(e) + i]
  BY DEF IsRecent
<1>5. Len(f) = IF Len(t) > windowSize THEN windowSize ELSE Len(t)
  BY <1>1, <1>2, <1>3, <1>4
<1>6. ASSUME NEW i \in 1..Len(f)
      PROVE  f[i] = t[Len(t) - Len(f) + i]
  <2>1. CASE i = Len(f)
    <3>1. Len(t) - Len(f) + i = Len(s) + 1
      BY <1>1, <1>2, <1>3, <2>1
    <3> QED
      BY <1>2, <1>3, <2>1, <3>1
  <2>2. CASE i # Len(f)
    <3> DEFINE j == IF full THEN i + 1 ELSE i
    <3>1. i \in 1..(Len(f) - 1) /\ j \in 1..Len(e) /\ j \in Nat
      BY <1>1, <1>3, <2>2
    <3>2. Len(t) - Len(f) + i = Len(s) - Len(e) + j /\ Len(s) - Len(e) + j \in 1..Len(s)
      BY <1>1, <1>2, <1>3, <3>1
    <3>3. f[i] = e[j]
      BY <1>3, <3>1
    <3> HIDE DEF j
    <3> QED
      BY <1>2, <1>4, <3>1, <3>2, <3>3
  <2> QED
    BY <2>1, <2>2
<1> QED
  BY <1>5, <1>6 DEF IsRecent, f, t

LEMMA InitHistory == ASSUME Init PROVE History
<1>1. windowSize \in Nat
  BY InitBInv DEF BInv
<1>2. Len(<<>>) = 0 /\ \A i : i \notin 1..0
  OBVIOUS
<1>3. IsRecent(<<>>, <<>>)
  BY <1>1, <1>2 DEF IsRecent
<1>4. \A k : EntriesIn(windows, k) = <<>>
  BY DEF Init, NewTracker, EntriesIn
<1>5. \A q \in Pairs : log[q] = <<>>
  BY DEF Init
<1> QED
  BY <1>3, <1>4, <1>5 DEF History

LEMMA NextHistory ==
    ASSUME KeysAreUnique, BInv, History, [Next]_vars
    PROVE  History'
<1>0. windowSize' = windowSize
  BY Zenon DEF Next, Record, vars
<1> SUFFICES ASSUME NEW q \in Pairs
             PROVE  IsRecent(EntriesIn(windows', key(q[1], q[2])), log'[q])
  BY <1>0 DEF History, EntriesIn, IsRecent
<1> DEFINE k == key(q[1], q[2])
<1>1. IsRecent(EntriesIn(windows, k), log[q])
  BY DEF History
<1>2. CASE UNCHANGED vars
  BY <1>1, <1>2 DEF vars
<1>3. ASSUME NEW u \in ValidatorIDs, NEW c \in DomainNames, NEW obs \in Observations,
             Record(u, c, obs)
      PROVE  IsRecent(EntriesIn(windows', k), log'[q])
  <2> DEFINE p == <<TrimSpace(u), Normalise(c)>>
  <2>1. windows' = recordIn(windows, p[1], p[2], obs)
    BY <1>3 DEF Record
  <2>2. EntriesIn(windows', k) = IF k = key(p[1], p[2]) /\ validateObservation(obs)
                                 THEN Added(EntriesIn(windows, k), obs)
                                 ELSE EntriesIn(windows, k)
    BY <2>1, RecordedEntries
  <2>3. q \in DOMAIN log /\ log[q] \in Seq(Observations) /\ p \in Pairs
    BY DEF BInv, Pairs
  <2>4. log' = [log EXCEPT ![p] = IF validateObservation(obs) THEN Append(@, obs) ELSE @]
    BY <1>3 DEF Record
  <2>5. k = key(p[1], p[2]) <=> q = p
    BY <2>3 DEF KeysAreUnique
  <2> HIDE DEF p, k
  <2>6. CASE q = p /\ validateObservation(obs)
    <3>1. EntriesIn(windows', k) = Added(EntriesIn(windows, k), obs)
      BY <2>2, <2>5, <2>6
    <3>2. log'[q] = Append(log[q], obs)
      BY <2>3, <2>4, <2>6
    <3>3. windowSize \in Nat /\ windowSize > 0 /\ Accepted(EntriesIn(windows, k))
      BY EntriesAreAccepted DEF BInv, MinObservationsForBias
    <3> QED
      BY <1>1, <2>3, <2>6, <3>1, <3>2, <3>3, RecentGrows
  <2>7. CASE ~(q = p /\ validateObservation(obs))
    BY <1>1, <2>2, <2>3, <2>4, <2>5, <2>7
  <2> QED
    BY <2>6, <2>7
<1> QED
  BY <1>2, <1>3 DEF Next

LEMMA RecentIs ==
    ASSUME windowSize \in Nat, windowSize > 0, NEW e, Accepted(e),
           NEW s \in Seq(Observations), IsRecent(e, s)
    PROVE  Recent(s) = e
<1> DEFINE m == IF Len(s) > windowSize THEN Len(s) - windowSize + 1 ELSE 1
           n == Len(s)
           r == Recent(s)
<1>1. e \in Seq(Observations) /\ Len(e) \in Nat /\ n \in Nat
  BY DEF Accepted
<1>2. /\ Len(e) = (IF Len(s) > windowSize THEN windowSize ELSE Len(s))
      /\ \A i \in 1..Len(e) : e[i] = s[Len(s) - Len(e) + i]
  BY DEF IsRecent
<1>3. m \in Int /\ m >= 1 /\ m <= n + 1 /\ n - m + 1 = Len(e) /\ m - 1 = Len(s) - Len(e)
  BY <1>1, <1>2
<1>4. r = [i \in 1..Len(e) |-> s[i + m - 1]]
  <2>1. r = SubSeq(s, m, n)
    BY DEF Recent
  <2> HIDE DEF m, n, r
  <2>2. SubSeq(s, m, n) = [i \in 1..(1 + n - m) |-> s[i + m - 1]]
    BY <1>1, <1>3
  <2>3. 1 + n - m = Len(e)
    BY <1>1, <1>3
  <2> QED
    BY <2>1, <2>2, <2>3
<1>5. \A i \in 1..Len(e) : i + m - 1 = Len(s) - Len(e) + i
  BY <1>1, <1>3
<1>6. e = [i \in 1..Len(e) |-> e[i]]
  BY <1>1
<1> QED
  BY <1>2, <1>4, <1>5, <1>6

\* Whatever the sequence of calls, BiasFor answers with the mean deviation of
\* the pair's own recent history, provided that no two pairs share a key (the
\* tracker joins names with ":" and does not look for one in a name).
THEOREM RecentBias == ASSUME KeysAreUnique PROVE Spec => []BiasFollowsRecent
<1>1. BInv /\ History => BiasFollowsRecent
  <2> SUFFICES ASSUME BInv, History, NEW v \in ValidatorIDs, NEW d \in DomainNames
               PROVE  LET s == Recent(log[<<TrimSpace(v), Normalise(d)>>])
                          b == BiasFor(v, d)
                      IN  /\ b.ObservationCount = Len(s)
                          /\ b.Coefficient = IF Len(s) < 5 THEN 0
                                             ELSE SumOfDeviations(s) \div Len(s)
    BY DEF BiasFollowsRecent
  <2> DEFINE q == <<TrimSpace(v), Normalise(d)>>
             e == EntriesIn(windows, key(TrimSpace(v), Normalise(d)))
  <2>1. q \in Pairs /\ log[q] \in Seq(Observations)
    BY DEF Pairs, BInv
  <2>2. IsRecent(e, log[q])
    BY <2>1 DEF History
  <2>3. windowSize \in Nat /\ windowSize > 0 /\ Accepted(e)
    BY EntriesAreAccepted DEF BInv, MinObservationsForBias
  <2>4. Recent(log[q]) = e
    BY <2>1, <2>2, <2>3, RecentIs
  <2>5. BiasFor(v, d).Coefficient = Coefficient(e) /\ BiasFor(v, d).ObservationCount = Len(e)
    BY BiasIs DEF BInv, BiasFor, BiasResult
  <2>6. SumOfDeviations(e) = Total(e)
    BY DEF SumOfDeviations, SumFunction, Total, Deviations
  <2> QED
    BY <2>4, <2>5, <2>6 DEF Coefficient, MinObservationsForBias
<1>2. Init => History
  BY InitHistory
<1>3. BInv /\ History /\ [Next]_vars => History'
  BY NextHistory
<1> QED
  BY <1>1, <1>2, <1>3, Windowed, PTL DEF Spec
=============================================================================

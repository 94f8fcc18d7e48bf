---------------------------- MODULE ClaimProofs ----------------------------
(***************************************************************************)
(* Proofs about Claim, for any inputs, any number of holders and copies,   *)
(* and transitions in any order.                                           *)
(***************************************************************************)
EXTENDS Claim, SequenceTheorems, TLAPS

\* What validateInput has checked of an input it accepts.
Valid(in) ==
    /\ RuneCount(TrimSpace(in.ClaimText)) \in MinClaimTextLength..MaxClaimTextLength
    /\ in.ClaimType \in ClaimTypes
    /\ in.GeographicScope \in GeographicScopes
    /\ in.TimeReference.instant # ZeroInstant
    /\ TrimSpace(in.SubmitterID) # Blank
    /\ TrimSpace(in.ContentHash) # Blank
    /\ IsURL(TrimSpace(in.ContentURL))

\* The states a claim has been in when it is in state s.
Before(s) ==
    CASE s = "SUBMITTED" -> {}
      [] s = "QUEUED" -> {"SUBMITTED"}
      [] s = "ACTIVE" -> {"SUBMITTED", "QUEUED"}
      [] s = "COMPUTING" -> {"SUBMITTED", "QUEUED", "ACTIVE"}
      [] s = "PROVISIONAL" -> {"SUBMITTED", "QUEUED", "ACTIVE", "COMPUTING"}
      [] s \in {"DISPUTED", "FINALIZED"} ->
             {"SUBMITTED", "QUEUED", "ACTIVE", "COMPUTING", "PROVISIONAL"}

\* A copy of a claim in some state, made from an accepted input.
IsCopy(c) ==
    /\ c.State \in LifecycleStates
    /\ \E in \in Inputs : Valid(in) /\ c = [ClaimOf(in) EXCEPT !.State = c.State]

\* The history of every copy anyone holds: its own state and all before it.
HasHistory(c) == \A s \in Before(c.State) \cup {c.State} : <<c.ClaimID, s>> \in passed

CInv ==
    /\ made \in 0..MaxClaims
    /\ held = [h \in Holders |-> held[h]]
    /\ \A h \in Holders : held[h] # NoClaim => IsCopy(held[h]) /\ HasHistory(held[h])

-----------------------------------------------------------------------------
\* An input that validateInput accepts meets all its conditions.
LEMMA AcceptedIsValid ==
    ASSUME NEW in \in Inputs, NEW reachable \in BOOLEAN, validateInput(in, reachable) = "nil"
    PROVE  Valid(in)
<1> DEFINE text   == textOf(in)
           url    == TrimSpace(in.ContentURL)
           c == << <<text # Blank, "ErrClaimTextEmpty">>,
                     <<RuneCount(text) >= MinClaimTextLength, "ErrClaimTextTooShort">>,
                     <<RuneCount(text) <= MaxClaimTextLength, "ErrClaimTextTooLong">>,
                     <<in.ClaimType \in ClaimTypes, "ErrClaimTypeInvalid">>,
                     <<in.GeographicScope \in GeographicScopes, "ErrGeographicScopeInvalid">>,
                     <<in.DomainTags # {}, "ErrDomainTagsEmpty">>,
                     <<in.TimeReference.instant # ZeroInstant, "ErrTimeReferenceEmpty">>,
                     <<TrimSpace(in.SubmitterID) # Blank, "ErrSubmitterIDEmpty">>,
                     <<TrimSpace(in.ContentHash) # Blank, "ErrContentHashEmpty">>,
                     <<url # Blank, "ErrContentURLEmpty">>,
                     <<IsURL(url), "ErrContentURLInvalid">>,
                     <<reachable, "ErrContentURLUnreachable">>, <<FALSE, "nil">> >>
           First(i) == ~c[i][1] /\ \A j \in 1..(i - 1) : c[j][1]
<1>1. Len(c) = 13
  OBVIOUS
<1>2. validateInput(in, reachable) = c[CHOOSE i \in 1..13 : First(i)][2]
  BY <1>1 DEF validateInput
<1>3. ~c[13][1]
  OBVIOUS
<1>4. \A i \in 1..12 : c[i][2] # "nil"
  OBVIOUS
<1>5. /\ c[2][1] <=> RuneCount(text) >= MinClaimTextLength
      /\ c[3][1] <=> RuneCount(text) <= MaxClaimTextLength
      /\ c[4][1] <=> in.ClaimType \in ClaimTypes
      /\ c[5][1] <=> in.GeographicScope \in GeographicScopes
      /\ c[7][1] <=> in.TimeReference.instant # ZeroInstant
      /\ c[8][1] <=> TrimSpace(in.SubmitterID) # Blank
      /\ c[9][1] <=> TrimSpace(in.ContentHash) # Blank
      /\ c[11][1] <=> IsURL(url)
  OBVIOUS
<1> HIDE DEF c
<1>6. \E i \in 1..13 : First(i)
  BY <1>3
<1> DEFINE i == CHOOSE i \in 1..13 : First(i)
<1>7. i \in 1..13 /\ First(i)
  BY <1>6
<1>8. c[i][2] = "nil"
  BY <1>2
<1> HIDE DEF i
<1>9. i = 13
  <2>1. i \notin 1..12
    BY <1>4, <1>8
  <2> QED
    BY <1>7, <2>1
<1>10. \A j \in 1..12 : c[j][1]
  BY <1>7, <1>9
<1>11. /\ c[2][1] /\ c[3][1] /\ c[4][1] /\ c[5][1] /\ c[7][1] /\ c[8][1] /\ c[9][1] /\ c[11][1]
  BY <1>10
<1>12. RuneCount(TrimSpace(in.ClaimText)) \in Nat
  BY InputsAssumption
<1>13. RuneCount(TrimSpace(in.ClaimText)) \in MinClaimTextLength..MaxClaimTextLength
  BY <1>5, <1>11, <1>12 DEF textOf, MinClaimTextLength, MaxClaimTextLength
<1> QED
  BY <1>5, <1>11, <1>13 DEF Valid

-----------------------------------------------------------------------------
\* What a transition may follow.
LEMMA TransitionExtendsHistory ==
    ASSUME NEW s \in LifecycleStates, NEW t \in validTransitions[s]
    PROVE  t \in LifecycleStates /\ Before(t) \subseteq Before(s) \cup {s}
<1>1. /\ s = "SUBMITTED" => t = "QUEUED"
      /\ s = "QUEUED" => t = "ACTIVE"
      /\ s = "ACTIVE" => t = "COMPUTING"
      /\ s = "COMPUTING" => t = "PROVISIONAL"
      /\ s = "PROVISIONAL" => t \in {"FINALIZED", "DISPUTED"}
      /\ s = "DISPUTED" => t = "FINALIZED"
      /\ s # "FINALIZED"
  BY DEF validTransitions, LifecycleStates
<1> QED
  BY <1>1 DEF LifecycleStates, Before

\* A copy that NewClaim or Transition makes, held by anyone, keeps the invariant.
LEMMA HoldKeepsCInv ==
    ASSUME CInv, NEW g \in Holders, NEW c, Hold(g, c), IsCopy(c), made' \in 0..MaxClaims,
           \A s \in Before(c.State) : <<c.ClaimID, s>> \in passed
    PROVE  CInv'
<1>1. held' = [held EXCEPT ![g] = c] /\ passed' = passed \cup {<<c.ClaimID, c.State>>}
  BY DEF Hold
<1>2. held' = [h \in Holders |-> held'[h]] /\ \A h \in Holders : held'[h] = c \/ held'[h] = held[h]
  BY <1>1 DEF CInv
<1>3. \A s \in Before(c.State) \cup {c.State} : <<c.ClaimID, s>> \in passed'
  BY <1>1
<1>4. ASSUME NEW h \in Holders, held'[h] # NoClaim
      PROVE  IsCopy(held'[h]) /\ HasHistory(held[h])'
  <2>1. CASE held'[h] = c
    BY <1>3, <2>1 DEF HasHistory
  <2>2. CASE held'[h] = held[h]
    <3>1. IsCopy(held[h]) /\ HasHistory(held[h])
      BY <1>4, <2>2 DEF CInv
    <3> QED
      BY <1>1, <2>2, <3>1 DEF HasHistory
  <2> QED
    BY <1>2, <2>1, <2>2
<1> QED
  BY <1>2, <1>4 DEF CInv

LEMMA NewClaimKeepsCInv ==
    ASSUME CInv, NEW h \in Holders, NEW in \in Inputs, NEW reachable \in BOOLEAN,
           NewClaim(h, in, reachable)
    PROVE  CInv'
<1>1. CASE result' = "nil" /\ Hold(h, ClaimOf(in)) /\ made' = made + 1
  <2> DEFINE c == ClaimOf(in)
  <2>1. Valid(in)
    BY <1>1, AcceptedIsValid DEF NewClaim
  <2>2. c.State = "SUBMITTED" /\ c = [c EXCEPT !.State = c.State]
    BY DEF ClaimOf
  <2>3. IsCopy(c)
    BY <2>1, <2>2 DEF IsCopy, LifecycleStates
  <2>4. made' \in 0..MaxClaims
    BY <1>1, BoundAssumption DEF NewClaim, CInv
  <2>5. Before("SUBMITTED") = {}
    BY DEF Before
  <2> HIDE DEF c
  <2> QED
    BY <1>1, <2>2, <2>3, <2>4, <2>5, HoldKeepsCInv DEF c
<1>2. CASE UNCHANGED <<held, made, passed>>
  BY <1>2 DEF CInv, HasHistory
<1> QED
  BY <1>1, <1>2 DEF NewClaim

LEMMA TransitionKeepsCInv ==
    ASSUME CInv, NEW h \in Holders, NEW g \in Holders, NEW next, Transition(h, g, next)
    PROVE  CInv'
<1>1. CASE next \in validTransitions[held[h].State] /\ Hold(g, [held[h] EXCEPT !.State = next])
  <2> DEFINE old == held[h]
             new == [old EXCEPT !.State = next]
  <2>1. IsCopy(old) /\ HasHistory(old)
    BY DEF Transition, CInv
  <2>2. next \in LifecycleStates /\ Before(next) \subseteq Before(old.State) \cup {old.State}
    BY <1>1, <2>1, TransitionExtendsHistory DEF IsCopy
  <2>3. PICK in \in Inputs : Valid(in) /\ old = [ClaimOf(in) EXCEPT !.State = old.State]
    BY <2>1 DEF IsCopy
  <2>4. new.State = next /\ new.ClaimID = old.ClaimID /\ new = [ClaimOf(in) EXCEPT !.State = next]
    BY <2>3 DEF ClaimOf
  <2>5. IsCopy(new)
    BY <2>2, <2>3, <2>4 DEF IsCopy
  <2>6. \A s \in Before(new.State) : <<new.ClaimID, s>> \in passed
    BY <2>1, <2>2, <2>4 DEF HasHistory
  <2>7. made' \in 0..MaxClaims
    BY DEF Transition, CInv
  <2> HIDE DEF new
  <2> QED
    BY <1>1, <2>5, <2>6, <2>7, HoldKeepsCInv DEF new
<1>2. CASE UNCHANGED <<held, passed>>
  BY <1>2 DEF CInv, HasHistory, Transition
<1> QED
  BY <1>1, <1>2 DEF Transition

LEMMA Invariance == Spec => []CInv
<1>1. Init => CInv
  BY BoundAssumption DEF Init, CInv
<1>2. CInv /\ [Next]_vars => CInv'
  <2>1. CInv /\ Next => CInv'
    BY NewClaimKeepsCInv, TransitionKeepsCInv DEF Next
  <2>2. CInv /\ UNCHANGED vars => CInv'
    BY DEF vars, CInv, HasHistory
  <2> QED
    BY <2>1, <2>2
<1> QED
  BY <1>1, <1>2, PTL DEF Spec

-----------------------------------------------------------------------------
\* The fields of a copy are those of the claim that was constructed.
LEMMA CopyFields ==
    ASSUME NEW c, NEW in, c = [ClaimOf(in) EXCEPT !.State = c.State]
    PROVE  /\ c.ClaimID = computeClaimID(in)
           /\ c.ClaimText = TrimSpace(in.ClaimText)
           /\ c.ClaimType = in.ClaimType
           /\ c.GeographicScope = in.GeographicScope
           /\ c.TimeReference = in.TimeReference
           /\ c.ContentHash = ToLower(TrimSpace(in.ContentHash))
           /\ c.ContentURL = TrimSpace(in.ContentURL)
           /\ c.SubmitterID = TrimSpace(in.SubmitterID)
           /\ c.DomainTags = normaliseDomainTags(in.DomainTags)
BY DEF ClaimOf

\* Whatever is submitted, the text of every claim anyone holds has 20 to 500
\* characters as it is stored, its type, scope, time, submitter, hash and URL
\* are what the schema asks for, and no tag is blank.  (It may have no tag.)
THEOREM TypeCorrect == Spec => []TypeOK
<1>1. CInv => TypeOK
  <2> SUFFICES ASSUME CInv, NEW c \in Held
               PROVE  /\ RuneCount(c.ClaimText) \in MinClaimTextLength..MaxClaimTextLength
                      /\ c.ClaimType \in ClaimTypes
                      /\ c.GeographicScope \in GeographicScopes
                      /\ c.TimeReference.instant # ZeroInstant
                      /\ c.SubmitterID # Blank /\ c.ContentHash # Blank /\ IsURL(c.ContentURL)
                      /\ Blank \notin c.DomainTags
                      /\ c.State \in LifecycleStates
    BY DEF TypeOK, CInv
  <2>1. IsCopy(c)
    BY DEF Held, CInv
  <2>2. PICK in \in Inputs : Valid(in) /\ c = [ClaimOf(in) EXCEPT !.State = c.State]
    BY <2>1 DEF IsCopy
  <2>3. ToLower(TrimSpace(in.ContentHash)) # Blank
    BY <2>2, InputsAssumption DEF Valid, Blank
  <2>4. Blank \notin c.DomainTags
    BY <2>2, CopyFields DEF normaliseDomainTags
  <2> QED
    BY <2>1, <2>2, <2>3, <2>4, CopyFields DEF IsCopy, Valid
<1> QED
  BY <1>1, Invariance, PTL

\* No copy, however many there are and in whatever order they are advanced,
\* reaches a verdict before the claim was queued, active and computing.
THEOREM VerdictsAreValidated == Spec => []NoVerdictWithoutVotes
<1>1. CInv => NoVerdictWithoutVotes
  <2> SUFFICES ASSUME CInv, NEW c \in Held
               PROVE  /\ c.State \in {"PROVISIONAL", "DISPUTED", "FINALIZED"} =>
                             \A s \in {"SUBMITTED", "QUEUED", "ACTIVE", "COMPUTING"} :
                                 <<c.ClaimID, s>> \in passed
                      /\ IsTerminal(c) => <<c.ClaimID, "PROVISIONAL">> \in passed
    BY DEF NoVerdictWithoutVotes
  <2>1. HasHistory(c)
    BY DEF Held, CInv
  <2> QED
    BY <2>1 DEF HasHistory, Before, IsTerminal
<1> QED
  BY <1>1, Invariance, PTL

-----------------------------------------------------------------------------
\* Two concatenations with second parts of one length are equal only if their
\* parts are.
LEMMA PartsOfConcat ==
    ASSUME NEW S, NEW a \in Seq(S), NEW b \in Seq(S), NEW c \in Seq(S), NEW d \in Seq(S),
           Len(b) = Len(d), a \o b = c \o d
    PROVE  a = c /\ b = d
<1>1. /\ Len(a) \in Nat /\ Len(b) \in Nat /\ Len(c) \in Nat
      /\ Len(a \o b) = Len(a) + Len(b) /\ Len(c \o d) = Len(c) + Len(d)
  <2>1. Len(a \o b) = Len(a) + Len(b)
    BY ConcatProperties
  <2>2. Len(c \o d) = Len(c) + Len(d)
    BY ConcatProperties
  <2> QED
    BY <2>1, <2>2
<1>2. Len(a) = Len(c)
  BY <1>1
<1>3. \A i \in 1..Len(a) : a[i] = c[i]
  <2>1. ASSUME NEW i \in 1..Len(a)
        PROVE  a[i] = c[i]
    <3>1. (a \o b)[i] = a[i]
      BY <1>1, ConcatProperties
    <3>2. (c \o d)[i] = c[i]
      BY <1>1, <1>2, ConcatProperties
    <3> QED
      BY <3>1, <3>2
  <2> QED
    BY <2>1
<1>4. a = c
  BY <1>2, <1>3, SeqEqual
<1>5. b = d
  BY <1>4, ConcatSimplifications
<1> QED
  BY <1>4, <1>5

\* The id tells the four fields apart, once hash and submitter have one length.
LEMMA IdOfContent ==
    ASSUME FixedLengths, NEW in \in Inputs, NEW other \in Inputs, Valid(in), Valid(other)
    PROVE  computeClaimID(in) = computeClaimID(other) <=>
               /\ TrimSpace(in.ClaimText) = TrimSpace(other.ClaimText)
               /\ ToLower(TrimSpace(in.ContentHash)) = ToLower(TrimSpace(other.ContentHash))
               /\ TrimSpace(in.SubmitterID) = TrimSpace(other.SubmitterID)
               /\ in.TimeReference.instant = other.TimeReference.instant
<1> DEFINE utc(x) == [x.TimeReference EXCEPT !.zone = "UTC"]
           S == STRING \cup {utc(in), utc(other)}
           t1 == TrimSpace(in.ClaimText)
           t2 == TrimSpace(other.ClaimText)
           h1 == ToLower(TrimSpace(in.ContentHash))
           h2 == ToLower(TrimSpace(other.ContentHash))
           s1 == TrimSpace(in.SubmitterID)
           s2 == TrimSpace(other.SubmitterID)
           u1 == <<utc(in)>>
           u2 == <<utc(other)>>
<1>1. /\ t1 \in Seq(STRING) /\ t2 \in Seq(STRING) /\ h1 \in Seq(STRING) /\ h2 \in Seq(STRING)
      /\ s1 \in Seq(STRING) /\ s2 \in Seq(STRING)
  BY InputsAssumption
<1>2. u1 \in Seq(S) /\ u2 \in Seq(S) /\ Len(u1) = Len(u2)
  OBVIOUS
<1>3. Len(h1) = Len(h2) /\ Len(s1) = Len(s2)
  BY DEF FixedLengths, Valid
<1>4. /\ in.TimeReference = [instant |-> in.TimeReference.instant, zone |-> in.TimeReference.zone]
      /\ other.TimeReference = [instant |-> other.TimeReference.instant,
                                zone |-> other.TimeReference.zone]
  BY InputsAssumption
<1>5. u1 = u2 <=> in.TimeReference.instant = other.TimeReference.instant
  <2>1. utc(in) = [instant |-> in.TimeReference.instant, zone |-> "UTC"]
    BY <1>4
  <2>2. utc(other) = [instant |-> other.TimeReference.instant, zone |-> "UTC"]
    BY <1>4
  <2> HIDE DEF utc
  <2>3. u1 = u2 <=> utc(in) = utc(other)
    OBVIOUS
  <2> QED
    BY <2>1, <2>2, <2>3
<1>6. computeClaimID(in) = sha256(t1 \o h1 \o s1 \o u1)
      /\ computeClaimID(other) = sha256(t2 \o h2 \o s2 \o u2)
  BY DEF computeClaimID
<1>7. STRING \subseteq S
  OBVIOUS
<1> HIDE DEF S, t1, t2, h1, h2, s1, s2, u1, u2
<1>8. /\ t1 \in Seq(S) /\ t2 \in Seq(S) /\ h1 \in Seq(S) /\ h2 \in Seq(S)
      /\ s1 \in Seq(S) /\ s2 \in Seq(S)
  BY <1>1, <1>7, SeqMonotonic
<1>9. /\ t1 \o h1 \in Seq(S) /\ t2 \o h2 \in Seq(S)
      /\ t1 \o h1 \o s1 \in Seq(S) /\ t2 \o h2 \o s2 \in Seq(S)
  BY <1>8, ConcatProperties
<1>10. ASSUME computeClaimID(in) = computeClaimID(other)
       PROVE  t1 = t2 /\ h1 = h2 /\ s1 = s2 /\ u1 = u2
  <2>1. t1 \o h1 \o s1 \o u1 = t2 \o h2 \o s2 \o u2
    BY <1>6, <1>10, SMTT(30) DEF sha256
  <2> DEFINE p == t1 \o h1
             q == t2 \o h2
             p3 == p \o s1
             q3 == q \o s2
  <2>2. p3 = q3 /\ u1 = u2
    <3>1. p3 \in Seq(S) /\ q3 \in Seq(S) /\ p3 \o u1 = q3 \o u2
      BY <1>9, <2>1
    <3> HIDE DEF p3, q3
    <3> QED
      BY ONLY <1>2, <3>1, PartsOfConcat, ZenonT(30)
  <2>3. p = q /\ s1 = s2
    <3>1. p \in Seq(S) /\ q \in Seq(S) /\ p \o s1 = q \o s2
      BY <1>9, <2>2
    <3>2. s1 \in Seq(S) /\ s2 \in Seq(S) /\ Len(s1) = Len(s2)
      BY <1>3, <1>8
    <3> HIDE DEF p, q
    <3> QED
      BY ONLY <3>1, <3>2, PartsOfConcat, ZenonT(30)
  <2>4. t1 = t2 /\ h1 = h2
    <3>1. t1 \o h1 = t2 \o h2
      BY <2>3
    <3> QED
      BY ONLY <1>3, <1>8, <3>1, PartsOfConcat
  <2> QED
    BY <2>2, <2>3, <2>4
<1>11. t1 = t2 /\ h1 = h2 /\ s1 = s2 /\ u1 = u2 => computeClaimID(in) = computeClaimID(other)
  BY <1>6
<1> QED
  BY <1>5, <1>10, <1>11 DEF t1, t2, h1, h2, s1, s2

\* Claims have one id exactly when they assert the same content, among all
\* submissions that keep the contract on hash and submitter.
THEOREM IdentityIsContent ==
    ASSUME FixedLengths
    PROVE  Spec => []IdIffContent
<1>1. CInv => IdIffContent
  <2> SUFFICES ASSUME CInv, NEW c \in Held, NEW d \in Held
               PROVE  c.ClaimID = d.ClaimID <=>
                          /\ c.ClaimText = d.ClaimText
                          /\ c.ContentHash = d.ContentHash
                          /\ c.SubmitterID = d.SubmitterID
                          /\ c.TimeReference.instant = d.TimeReference.instant
    BY DEF IdIffContent
  <2>1. IsCopy(c) /\ IsCopy(d)
    BY DEF Held, CInv
  <2>2. PICK in \in Inputs : Valid(in) /\ c = [ClaimOf(in) EXCEPT !.State = c.State]
    BY <2>1 DEF IsCopy
  <2>3. PICK other \in Inputs : Valid(other) /\ d = [ClaimOf(other) EXCEPT !.State = d.State]
    BY <2>1 DEF IsCopy
  <2> QED
    BY <2>2, <2>3, CopyFields, IdOfContent
<1> QED
  BY <1>1, Invariance, PTL
=============================================================================

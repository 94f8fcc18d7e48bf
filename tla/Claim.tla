------------------------------- MODULE Claim -------------------------------
(***************************************************************************)
(* core/claim: the construction of a claim from a submitter's input and    *)
(* its lifecycle.  A Claim is immutable: Transition returns a new copy and *)
(* the old one stays with whoever holds it, so a claim may be held by      *)
(* several parties in different states.                                    *)
(*                                                                         *)
(* A string is a sequence of pieces, so that writing strings to the hasher *)
(* is concatenation; SHA-256 is ideal.  A time is an instant and the zone  *)
(* it is given in.  The tags of a claim are a set: nothing reads their     *)
(* order or a repetition.                                                  *)
(***************************************************************************)
EXTENDS Integers, Sequences, SequencesExt

CONSTANTS
    Holders,         \* parties that hold a copy of a claim
    Inputs,          \* what a submitter may pass to NewClaim
    TrimSpace(_),    \* strings.TrimSpace
    ToLower(_),      \* strings.ToLower
    RuneCount(_),    \* utf8.RuneCountInString
    IsURL(_),        \* url.ParseRequestURI succeeds, with a scheme and a host
    MaxClaims        \* bound on the claims constructed

ASSUME BoundAssumption == MaxClaims \in Nat

\* What Go's string and time functions return for the fields of an input: strings,
\* a length, and a time with its zone; lower case empties no string.
ASSUME InputsAssumption ==
    \A in \in Inputs :
        /\ TrimSpace(in.ClaimText) \in Seq(STRING)
        /\ TrimSpace(in.SubmitterID) \in Seq(STRING)
        /\ ToLower(TrimSpace(in.ContentHash)) \in Seq(STRING)
        /\ TrimSpace(in.ContentHash) # <<>> => ToLower(TrimSpace(in.ContentHash)) # <<>>
        /\ RuneCount(TrimSpace(in.ClaimText)) \in Nat
        /\ in.TimeReference = [instant |-> in.TimeReference.instant, zone |-> in.TimeReference.zone]

VARIABLES
    held,      \* held[h]: the copy h holds, or NoClaim
    result,    \* the error of the last NewClaim or Transition, "nil" for none
    made,      \* the number of claims constructed
    passed     \* history: the pairs of a ClaimID and a state some copy was in

vars == <<held, result, made, passed>>

NoClaim == [ClaimID |-> <<>>]

-----------------------------------------------------------------------------
Blank == <<>>                  \* the empty string
ZeroInstant == 0               \* time.Time.IsZero

MinClaimTextLength == 20
MaxClaimTextLength == 500

ClaimTypes == {"FACTUAL", "CONTEXTUAL", "PREDICTIVE"}
GeographicScopes == {"LOCAL", "NATIONAL", "INTERNATIONAL"}

LifecycleStates ==
    {"SUBMITTED", "QUEUED", "ACTIVE", "COMPUTING", "PROVISIONAL", "DISPUTED", "FINALIZED"}

\* Mutant of validTransitions: a dispute may be settled before the votes are in.
validTransitionsWithShortcut ==
    [s \in LifecycleStates |->
        CASE s = "SUBMITTED" -> {"QUEUED"}
          [] s = "QUEUED" -> {"ACTIVE", "DISPUTED"}
          [] s = "ACTIVE" -> {"COMPUTING"}
          [] s = "COMPUTING" -> {"PROVISIONAL"}
          [] s = "PROVISIONAL" -> {"FINALIZED", "DISPUTED"}
          [] s = "DISPUTED" -> {"FINALIZED"}
          [] s = "FINALIZED" -> {}]

validTransitions ==
    [s \in LifecycleStates |->
        CASE s = "SUBMITTED" -> {"QUEUED"}
          [] s = "QUEUED" -> {"ACTIVE"}
          [] s = "ACTIVE" -> {"COMPUTING"}
          [] s = "COMPUTING" -> {"PROVISIONAL"}
          [] s = "PROVISIONAL" -> {"FINALIZED", "DISPUTED"}
          [] s = "DISPUTED" -> {"FINALIZED"}
          [] s = "FINALIZED" -> {}]

\* Mutant of textOf: the white space around the text counts.
textAsGiven(in) == in.ClaimText

\* The text that is measured.
textOf(in) == TrimSpace(in.ClaimText)

\* validateInput, with validateClaimType, validateGeographicScope and
\* validateContentURL: the error of the first check that fails, or "nil".
\* reachable is the outcome of the HEAD request.
validateInput(in, reachable) ==
    LET text   == textOf(in)
        url    == TrimSpace(in.ContentURL)
        checks == << <<text # Blank, "ErrClaimTextEmpty">>,
                     <<RuneCount(text) >= MinClaimTextLength, "ErrClaimTextTooShort">>,
                     <<RuneCount(text) <= MaxClaimTextLength, "ErrClaimTextTooLong">>,
                     <<in.ClaimType \in ClaimTypes, "ErrClaimTypeInvalid">>,
                     <<in.GeographicScope \in GeographicScopes, "ErrGeographicScopeInvalid">>,
                     <<in.DomainTags # {}, "ErrDomainTagsEmpty">>,
                     <<in.TimeReference.instant # ZeroInstant, "ErrTimeReferenceEmpty">>,
                     <<TrimSpace(in.SubmitterID) # Blank, "ErrSubmitterIDEmpty">>,
                     <<TrimSpace(in.ContentHash) # Blank, "ErrContentHashEmpty">>,
                     <<url # Blank, "ErrContentURLEmpty">>,
                     <<IsURL(url), "ErrContentURLInvalid">>,
                     <<reachable, "ErrContentURLUnreachable">>, <<FALSE, "nil">> >>
    IN  checks[CHOOSE i \in 1..Len(checks) :
                   ~checks[i][1] /\ \A j \in 1..(i - 1) : checks[j][1]][2]

sha256(bytes) == <<"sha256", bytes>>

\* Mutant of computeClaimID: the time is formatted in the zone it was given in.
computeClaimIDInZone(in) ==
    sha256(TrimSpace(in.ClaimText) \o ToLower(TrimSpace(in.ContentHash))
               \o TrimSpace(in.SubmitterID) \o <<in.TimeReference>>)

\* The hash of the fields one after the other; formatting an instant in UTC is injective.
computeClaimID(in) ==
    sha256(TrimSpace(in.ClaimText) \o ToLower(TrimSpace(in.ContentHash))
               \o TrimSpace(in.SubmitterID) \o <<[in.TimeReference EXCEPT !.zone = "UTC"]>>)

normaliseDomainTags(tags) == {ToLower(TrimSpace(t)) : t \in tags} \ {Blank}

ClaimOf(in) ==
    [ClaimID         |-> computeClaimID(in),
     ClaimText       |-> TrimSpace(in.ClaimText),
     ClaimType       |-> in.ClaimType,
     DomainTags      |-> normaliseDomainTags(in.DomainTags),
     GeographicScope |-> in.GeographicScope,
     TimeReference   |-> in.TimeReference,
     ContentHash     |-> ToLower(TrimSpace(in.ContentHash)),
     ContentURL      |-> TrimSpace(in.ContentURL),
     SubmitterID     |-> TrimSpace(in.SubmitterID),
     State           |-> "SUBMITTED"]

IsTerminal(c) == c.State = "FINALIZED"

-----------------------------------------------------------------------------
Init ==
    /\ held = [h \in Holders |-> NoClaim]
    /\ result = "nil"
    /\ made = 0
    /\ passed = {}

\* h gets claim c, in place of the copy it held.
Hold(h, c) ==
    /\ held' = [held EXCEPT ![h] = c]
    /\ passed' = passed \cup {<<c.ClaimID, c.State>>}

NewClaim(h, in, reachable) ==
    /\ made < MaxClaims
    /\ result' = validateInput(in, reachable)
    /\ \/ result' = "nil" /\ Hold(h, ClaimOf(in)) /\ made' = made + 1
       \/ result' # "nil" /\ UNCHANGED <<held, made, passed>>

\* g gets the copy that Transition makes of the claim h holds.
Transition(h, g, next) ==
    /\ held[h] # NoClaim
    /\ \/ /\ next \in validTransitions[held[h].State]
          /\ Hold(g, [held[h] EXCEPT !.State = next])
          /\ result' = "nil"
       \/ /\ next \notin validTransitions[held[h].State]
          /\ result' = "ErrInvalidTransition"
          /\ UNCHANGED <<held, passed>>
    /\ UNCHANGED made

Next ==
    \E h \in Holders :
        \/ \E in \in Inputs, reachable \in BOOLEAN : NewClaim(h, in, reachable)
        \/ \E g \in Holders, next \in LifecycleStates : Transition(h, g, next)

Spec == Init /\ [][Next]_vars

-----------------------------------------------------------------------------
Held == {held[h] : h \in Holders} \ {NoClaim}

\* The text, type, scope, time, submitter, hash and URL of a claim that anyone
\* holds meet the limits of the schema, in the form that is stored and not only
\* in the form that was submitted, and none of its tags is blank.  That it has a
\* tag, which the schema also asks for (claim.go:92), does not hold and is not
\* stated: validateInput counts the tags before blank ones are dropped.
TypeOK ==
    /\ \A c \in Held :
           /\ RuneCount(c.ClaimText) \in MinClaimTextLength..MaxClaimTextLength
           /\ c.ClaimType \in ClaimTypes
           /\ c.GeographicScope \in GeographicScopes
           /\ c.TimeReference.instant # ZeroInstant
           /\ c.SubmitterID # Blank /\ c.ContentHash # Blank /\ IsURL(c.ContentURL)
           /\ Blank \notin c.DomainTags
           /\ c.State \in LifecycleStates
    /\ made \in 0..MaxClaims

\* What the comments on Input and Claim ask of a submitter (claim.go:101, 109, 121)
\* and validateInput does not check: a content hash is a SHA-256 hex digest and a
\* submitter id a public key hash, so that each has one length.
FixedLengths ==
    \A in, other \in Inputs :
        /\ TrimSpace(in.ContentHash) # Blank /\ TrimSpace(other.ContentHash) # Blank =>
               Len(ToLower(TrimSpace(in.ContentHash))) = Len(ToLower(TrimSpace(other.ContentHash)))
        /\ TrimSpace(in.SubmitterID) # Blank /\ TrimSpace(other.SubmitterID) # Blank =>
               Len(TrimSpace(in.SubmitterID)) = Len(TrimSpace(other.SubmitterID))

\* Two claims, constructed by different submissions or carried through different
\* transitions, have one ClaimID exactly when they assert the same text on the
\* same evidence, by the same submitter and about the same instant: spelling of
\* the input and the zone of the time do not matter, nor does the state.
IdIffContent ==
    \A c, d \in Held :
        c.ClaimID = d.ClaimID <=>
            /\ c.ClaimText = d.ClaimText
            /\ c.ContentHash = d.ContentHash
            /\ c.SubmitterID = d.SubmitterID
            /\ c.TimeReference.instant = d.TimeReference.instant

\* No claim reaches a verdict that was not validated: when any copy is
\* provisional, disputed or final, the claim has been queued, active and
\* computing, whoever held it then and whatever older copies are still advanced.
NoVerdictWithoutVotes ==
    \A c \in Held :
        /\ c.State \in {"PROVISIONAL", "DISPUTED", "FINALIZED"} =>
               \A s \in {"SUBMITTED", "QUEUED", "ACTIVE", "COMPUTING"} : <<c.ClaimID, s>> \in passed
        /\ IsTerminal(c) => <<c.ClaimID, "PROVISIONAL">> \in passed
=============================================================================

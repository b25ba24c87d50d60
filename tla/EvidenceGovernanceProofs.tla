---------------------- MODULE EvidenceGovernanceProofs ----------------------
(* Theorems about evidence governance, for any claims, derivations, sources,  *)
(* findings, requests and batches, any number of decisions under way, and     *)
(* whatever contradictions, lineages and the clock do meanwhile.              *)
EXTENDS EvidenceGovernance, TLAPS

-----------------------------------------------------------------------------
(* The chains.  An event is only ever stored as it was offered, and what an   *)
(* offer resolves was in the chain that its reviewer has been shown.          *)

Targets == GovClaims \cup GovSnapshots
OfferedEvents == {o.event : o \in offers}

ChainsOfOffers ==
    /\ chains \in [Targets -> Seq(OfferedEvents)]
    /\ DOMAIN answers \subseteq offers
    /\ answers = [o \in DOMAIN answers |-> answers[o]]

Reassesses(chain, event, i) == DOMAIN chain[i].finding \subseteq DOMAIN event.finding

OffersLookBack ==
    \A o \in offers :
        /\ o.target \in Targets
        /\ o.shown \in 0..Len(chains[o.target])
        /\ o.event.resolved \subseteq 1..o.shown
        /\ \A i \in o.event.resolved : Reassesses(chains[o.target], o.event, i)

EventsLookBack == \A t \in Targets : \A j \in 1..Len(chains[t]) : chains[t][j].resolved \subseteq 1..(j - 1)

\* An answer given is about an event still at the place it was reviewed for.
AnswersKept ==
    \A o \in DOMAIN answers :
        answers[o] \in {"applied", "replayed"} =>
            o.shown + 1 \in 1..Len(chains[o.target]) /\ chains[o.target][o.shown + 1] = o.event

GovernanceInv == ChainsOfOffers /\ OffersLookBack /\ EventsLookBack /\ AnswersKept

LEMMA AppendedRow ==
    ASSUME NEW S, NEW s \in Seq(S), NEW e \in S
    PROVE  /\ Append(s, e) \in Seq(S)
           /\ Len(s) \in Nat /\ Len(Append(s, e)) = Len(s) + 1
           /\ \A i \in 1..Len(s) : Append(s, e)[i] = s[i]
           /\ Append(s, e)[Len(s) + 1] = e
  OBVIOUS

LEMMA InvInit == GovernanceInit => GovernanceInv /\ FindingsStand
<1> SUFFICES ASSUME GovernanceInit PROVE GovernanceInv /\ FindingsStand
  OBVIOUS
<1>1. offers = {} /\ DOMAIN answers = {} /\ \A t \in Targets : chains[t] = <<>>
  BY DEF GovernanceInit, Targets
<1>2. ChainsOfOffers
  <2>1. \A S : <<>> \in Seq(S)
    OBVIOUS
  <2>2. chains \in [Targets -> Seq(OfferedEvents)]
    BY <2>1 DEF GovernanceInit, Targets
  <2> QED BY <1>1, <2>2 DEF ChainsOfOffers, GovernanceInit
<1>3. OffersLookBack /\ EventsLookBack /\ AnswersKept
  BY <1>1 DEF OffersLookBack, EventsLookBack, AnswersKept
<1>4. FindingsStand
  BY <1>1 DEF FindingsStand, Targets
<1> QED BY <1>2, <1>3, <1>4 DEF GovernanceInv

-----------------------------------------------------------------------------
(* A step adds an offer, extends one chain by the event of an offer that is   *)
(* still about its end, answers, or leaves all three alone.                   *)

LEMMA MoreOffers ==
    ASSUME ChainsOfOffers, offers \subseteq offers', UNCHANGED <<chains, answers>> PROVE ChainsOfOffers'
<1>1. ASSUME NEW t \in Targets PROVE chains[t] \in Seq(OfferedEvents')
  <2>1. chains[t] \in Seq(OfferedEvents) /\ OfferedEvents \subseteq OfferedEvents'
    BY DEF ChainsOfOffers, OfferedEvents
  <2>2. \A i \in 1..Len(chains[t]) : chains[t][i] \in OfferedEvents'
    BY <2>1
  <2> QED BY <2>1, <2>2
<1> QED BY <1>1 DEF ChainsOfOffers, Targets

LEMMA StepReview ==
    ASSUME GovernanceInv, NEW t \in Targets, NEW op, NEW finding, NEW resolved,
           resolved = {} \/ Resolves(chains[t], finding, resolved),
           NEW req, NEW batch, Offer(t, Event(req, batch, op, finding, resolved))
    PROVE  GovernanceInv'
<1> DEFINE new == [target |-> t, shown |-> Len(chains[t]), event |-> Event(req, batch, op, finding, resolved)]
<1>1. offers' = offers \cup {new} /\ UNCHANGED <<chains, answers>>
  BY DEF Offer
<1>2. ChainsOfOffers'
  BY <1>1, MoreOffers DEF GovernanceInv
<1>3. OffersLookBack'
  <2>1. Len(chains[t]) \in Nat /\ DOMAIN chains[t] = 1..Len(chains[t])
    BY DEF GovernanceInv, ChainsOfOffers
  <2>2. /\ new.event.resolved \subseteq 1..new.shown
        /\ \A i \in new.event.resolved : Reassesses(chains[t], new.event, i)
    BY <2>1 DEF Event, Resolves, Reassesses
  <2> QED BY <1>1, <2>1, <2>2 DEF GovernanceInv, OffersLookBack, Targets, Reassesses
<1>4. EventsLookBack' /\ AnswersKept'
  BY <1>1 DEF GovernanceInv, EventsLookBack, AnswersKept, Targets
<1> QED BY <1>2, <1>3, <1>4 DEF GovernanceInv

\* What applying an offer stores and answers.
LEMMA AppliedAtTheEnd ==
    ASSUME GovernanceInv, NEW offer \in offers, AnswerTo(offer) = "applied"
    PROVE  /\ ~ RequestKnown(offer)
           /\ Len(chains[offer.target]) = offer.shown
  BY DEF AnswerTo, AnswerByReview, ReviewUnchanged

LEMMA StepApply ==
    ASSUME GovernanceInv, NEW offer \in offers, NEW delivered \in BOOLEAN,
           ApplyGovernanceDecision(offer, delivered)
    PROVE  GovernanceInv'
<1> DEFINE t == offer.target
<1>1. /\ t \in Targets /\ offer.shown \in 0..Len(chains[t]) /\ offer.event.resolved \subseteq 1..offer.shown
      /\ offers' = offers /\ offer.event \in OfferedEvents
      /\ chains \in [Targets -> Seq(OfferedEvents)]
  BY DEF GovernanceInv, OffersLookBack, ChainsOfOffers, ApplyGovernanceDecision, OfferedEvents
<1>2. \A u \in Targets : Len(chains[u]) \in Nat
  BY <1>1
<1>3. \/ AnswerTo(offer) # "applied" /\ chains' = chains
      \/ /\ AnswerTo(offer) = "applied" /\ Len(chains[t]) = offer.shown
         /\ chains' = [chains EXCEPT ![t] = Append(@, offer.event)]
  BY AppliedAtTheEnd DEF ApplyGovernanceDecision
<1>4. /\ chains' \in [Targets -> Seq(OfferedEvents)]
      /\ \A u \in Targets : /\ Len(chains'[u]) >= Len(chains[u])
                            /\ \A i \in 1..Len(chains[u]) : chains'[u][i] = chains[u][i]
  <2>1. CASE chains' = chains
    BY <1>1, <1>2, <2>1
  <2>2. CASE chains' = [chains EXCEPT ![t] = Append(@, offer.event)]
    <3>1. chains[t] \in Seq(OfferedEvents)
      BY <1>1
    <3>2. /\ Append(chains[t], offer.event) \in Seq(OfferedEvents)
          /\ Len(Append(chains[t], offer.event)) = Len(chains[t]) + 1
          /\ \A i \in 1..Len(chains[t]) : Append(chains[t], offer.event)[i] = chains[t][i]
      BY <1>1, <3>1, AppendedRow
    <3> QED BY <1>1, <1>2, <2>2, <3>2
  <2> QED BY <1>3, <2>1, <2>2
<1>5. \A u \in Targets : /\ Len(chains'[u]) >= Len(chains[u])
                         /\ \A i \in 1..Len(chains[u]) : chains'[u][i] = chains[u][i]
  BY <1>4
<1>6. \A o \in DOMAIN answers' : \/ o = offer /\ answers'[o] = AnswerTo(offer)
                                 \/ o \in DOMAIN answers /\ answers'[o] = answers[o]
  <2>1. CASE answers' = [o \in DOMAIN answers \cup {offer} |-> IF o = offer THEN AnswerTo(offer) ELSE answers[o]]
    BY <2>1
  <2>2. CASE answers' = answers
    BY <2>2
  <2>3. \/ answers' = [o \in DOMAIN answers \cup {offer} |-> IF o = offer THEN AnswerTo(offer) ELSE answers[o]]
        \/ answers' = answers
    BY DEF ApplyGovernanceDecision
  <2> QED BY <2>1, <2>2, <2>3
<1>7. ChainsOfOffers'
  <2>1. DOMAIN answers' \subseteq offers' /\ answers' = [o \in DOMAIN answers' |-> answers'[o]]
    BY <1>1 DEF GovernanceInv, ChainsOfOffers, ApplyGovernanceDecision
  <2> QED BY <1>1, <1>4, <2>1 DEF ChainsOfOffers, OfferedEvents, Targets
<1>8. OffersLookBack'
  <2> SUFFICES ASSUME NEW o \in offers
               PROVE  /\ o.target \in Targets
                      /\ o.shown \in 0..Len(chains'[o.target])
                      /\ o.event.resolved \subseteq 1..o.shown
                      /\ \A i \in o.event.resolved : Reassesses(chains'[o.target], o.event, i)
    BY <1>1 DEF OffersLookBack, Targets, Reassesses
  <2>1. /\ o.target \in Targets /\ o.shown \in 0..Len(chains[o.target])
        /\ o.event.resolved \subseteq 1..o.shown
        /\ \A i \in o.event.resolved : Reassesses(chains[o.target], o.event, i)
    BY DEF GovernanceInv, OffersLookBack
  <2>2. o.shown \in 0..Len(chains'[o.target])
    BY <1>2, <1>4, <1>5, <2>1
  <2>3. ASSUME NEW i \in o.event.resolved PROVE Reassesses(chains'[o.target], o.event, i)
    <3>1. i \in 1..Len(chains[o.target])
      BY <1>2, <2>1
    <3> QED BY <1>5, <2>1, <3>1 DEF Reassesses
  <2> QED BY <2>1, <2>2, <2>3
<1>9. EventsLookBack'
  <2> SUFFICES ASSUME NEW u \in Targets, NEW j \in 1..Len(chains'[u])
               PROVE  chains'[u][j].resolved \subseteq 1..(j - 1)
    BY DEF EventsLookBack, Targets
  <2>1. CASE j \in 1..Len(chains[u])
    BY <1>5, <2>1 DEF GovernanceInv, EventsLookBack
  <2>2. CASE j \notin 1..Len(chains[u])
    <3>1. u = t /\ chains'[u] = Append(chains[u], offer.event) /\ Len(chains[u]) = offer.shown
      BY <1>1, <1>2, <1>3, <2>2
    <3>2. j = offer.shown + 1 /\ chains'[u][j] = offer.event
      BY <1>1, <1>2, <2>2, <3>1
    <3> QED BY <1>1, <1>2, <3>2
  <2> QED BY <2>1, <2>2
<1>10. AnswersKept'
  <2> SUFFICES ASSUME NEW o \in DOMAIN answers', answers'[o] \in {"applied", "replayed"}
               PROVE  /\ o.shown + 1 \in 1..Len(chains'[o.target])
                      /\ chains'[o.target][o.shown + 1] = o.event
    BY DEF AnswersKept
  <2>1. CASE o \in DOMAIN answers /\ answers'[o] = answers[o]
    <3>1. o \in offers /\ o.target \in Targets
      BY <2>1 DEF GovernanceInv, ChainsOfOffers, OffersLookBack
    <3>2. o.shown + 1 \in 1..Len(chains[o.target]) /\ chains[o.target][o.shown + 1] = o.event
      BY <2>1 DEF GovernanceInv, AnswersKept
    <3> QED BY <1>2, <1>4, <1>5, <3>1, <3>2
  <2>2. CASE o = offer /\ answers'[o] = AnswerTo(offer) /\ AnswerTo(offer) = "applied"
    <3>1. chains'[t] = Append(chains[t], offer.event) /\ Len(chains[t]) = offer.shown
      BY <1>1, <1>3, <2>2
    <3> QED BY <1>1, <1>2, <2>2, <3>1
  <2>3. CASE o = offer /\ answers'[o] = AnswerTo(offer) /\ AnswerTo(offer) = "replayed"
    <3>1. \E i \in DOMAIN chains[t] : i = offer.shown + 1 /\ chains[t][i] = offer.event
      BY <2>3 DEF AnswerTo, AnswerByReview, Replay
    <3> QED BY <1>1, <1>2, <1>3, <2>3, <3>1
  <2> QED BY <1>6, <2>1, <2>2, <2>3
<1> QED BY <1>7, <1>8, <1>9, <1>10 DEF GovernanceInv

LEMMA StepElsewhere ==
    ASSUME GovernanceInv, UNCHANGED <<chains, offers, answers>> PROVE GovernanceInv'
  BY DEF GovernanceInv, ChainsOfOffers, OfferedEvents, OffersLookBack, EventsLookBack, AnswersKept,
         Targets, Reassesses

-----------------------------------------------------------------------------
\* The three kinds of step.
LEMMA Steps ==
    ASSUME GovernanceInv, [GovernanceNext]_governanceVars
    PROVE  \/ \E t \in Targets : \E op, finding, resolved, req, batch :
                /\ resolved = {} \/ Resolves(chains[t], finding, resolved)
                /\ Offer(t, Event(req, batch, op, finding, resolved))
           \/ \E offer \in offers, delivered \in BOOLEAN : ApplyGovernanceDecision(offer, delivered)
           \/ UNCHANGED <<chains, offers, answers>>
<1>1. CASE UNCHANGED governanceVars
  BY <1>1 DEF governanceVars
<1>2. ASSUME NEW t \in Targets, NEW op, NEW finding, NEW resolved, Review(t, op, finding, resolved),
             resolved = {} \/ op = "assess"
      PROVE  \E req, batch : /\ resolved = {} \/ Resolves(chains[t], finding, resolved)
                            /\ Offer(t, Event(req, batch, op, finding, resolved))
  BY <1>2 DEF Review, ReviewOne, PrepareBatchItem, Reviewable
<1>3. CASE \E c \in GovClaims, op \in {"withdraw", "restore"} : Review(c, op, NoFinding, {})
  BY <1>2, <1>3 DEF Targets
<1>4. CASE \E k \in GovSnapshots, finding \in Findings, resolved \in SUBSET (1..MaxOffers) :
             Review(k, "assess", finding, resolved)
  BY <1>2, <1>4 DEF Targets
<1>5. CASE \/ \E c, d \in GovClaims : c # d /\ RecordContradiction({c, d})
           \/ \E c \in GovSources, status \in Currency : LineageMoves(c, status)
           \/ Tick
  BY <1>5 DEF RecordContradiction, LineageMoves, Tick
<1> QED BY <1>1, <1>3, <1>4, <1>5 DEF GovernanceNext

LEMMA InvStep ==
    ASSUME GovernanceInv, [GovernanceNext]_governanceVars PROVE GovernanceInv'
  BY Steps, StepReview, StepApply, StepElsewhere

\* What was offered and approved is all that is ever stored, in the place it was reviewed for.
LEMMA InvAlways == GovernanceSpec => []GovernanceInv
<1>1. GovernanceInit => GovernanceInv
  BY InvInit
<1> QED BY <1>1, InvStep, PTL DEF GovernanceSpec

-----------------------------------------------------------------------------
\* Once a criterion of a source has a finding it keeps an unresolved one,
\* through any sequence of assessments that resolve each other: a resolution
\* finds anew what it resolves, and nothing resolves the last event.
THEOREM CriteriaStayAssessed == GovernanceSpec => []FindingsStand
<1>1. ASSUME GovernanceInv, FindingsStand, NEW offer \in offers, NEW delivered \in BOOLEAN,
             ApplyGovernanceDecision(offer, delivered), AnswerTo(offer) = "applied"
      PROVE  FindingsStand'
  <2> DEFINE t == offer.target
             n == offer.shown + 1
  <2>1. /\ t \in Targets /\ Len(chains[t]) = offer.shown /\ offer.shown \in Nat
        /\ offer.event.resolved \subseteq 1..offer.shown
        /\ \A i \in offer.event.resolved : DOMAIN chains[t][i].finding \subseteq DOMAIN offer.event.finding
        /\ chains \in [Targets -> Seq(OfferedEvents)] /\ offer.event \in OfferedEvents
    BY <1>1, AppliedAtTheEnd DEF GovernanceInv, OffersLookBack, ChainsOfOffers, Reassesses, OfferedEvents
  <2>2. /\ DOMAIN chains[t] = 1..offer.shown
        /\ chains' = [chains EXCEPT ![t] = Append(@, offer.event)]
        /\ DOMAIN chains'[t] = 1..n
        /\ \A i \in 1..offer.shown : chains'[t][i] = chains[t][i]
        /\ chains'[t][n] = offer.event
    <3>1. chains' = [chains EXCEPT ![t] = Append(@, offer.event)]
      BY <1>1 DEF ApplyGovernanceDecision
    <3>2. chains[t] \in Seq(OfferedEvents)
      BY <2>1
    <3>3. /\ Append(chains[t], offer.event) \in Seq(OfferedEvents)
          /\ Len(Append(chains[t], offer.event)) = n
          /\ \A i \in 1..offer.shown : Append(chains[t], offer.event)[i] = chains[t][i]
          /\ Append(chains[t], offer.event)[n] = offer.event
      BY <2>1, <3>2, AppendedRow
    <3> QED BY <2>1, <3>1, <3>2, <3>3
  <2>3. \A j \in 1..n : chains'[t][j].resolved \subseteq 1..(j - 1)
    BY <1>1, <2>1, <2>2 DEF GovernanceInv, EventsLookBack
  <2> SUFFICES ASSUME NEW k \in GovSnapshots, NEW i \in DOMAIN chains'[k], NEW x \in DOMAIN chains'[k][i].finding
               PROVE  \E m \in Unresolved(k)' : x \in DOMAIN chains'[k][m].finding
    BY DEF FindingsStand, ResultsFor
  <2>4. CASE k # t
    <3>1. chains'[k] = chains[k]
      BY <2>1, <2>2, <2>4
    <3>2. \E m \in Unresolved(k) : x \in DOMAIN chains[k][m].finding
      BY <1>1, <3>1 DEF FindingsStand, ResultsFor
    <3> QED BY <3>1, <3>2 DEF Unresolved
  <2>5. CASE k = t /\ x \in DOMAIN offer.event.finding
    <3>1. n \in Unresolved(t)'
      BY <2>1, <2>2, <2>3 DEF Unresolved
    <3> QED BY <2>2, <2>5, <3>1
  <2>6. CASE k = t /\ x \notin DOMAIN offer.event.finding
    <3>1. i \in 1..offer.shown
      BY <2>1, <2>2, <2>6
    <3>2. PICK m \in Unresolved(t) : x \in DOMAIN chains[t][m].finding
      BY <1>1, <2>2, <2>6, <3>1 DEF FindingsStand, ResultsFor
    <3>3. m \in 1..offer.shown /\ m \notin offer.event.resolved
      BY <2>1, <2>2, <2>6, <3>2 DEF Unresolved
    <3>4. m \in Unresolved(t)'
      BY <2>1, <2>2, <3>2, <3>3 DEF Unresolved
    <3> QED BY <2>2, <2>6, <3>2, <3>3, <3>4
  <2> QED BY <2>4, <2>5, <2>6
<1>2. ASSUME FindingsStand, UNCHANGED chains PROVE FindingsStand'
  <2>1. \A k : Unresolved(k)' = Unresolved(k)
    BY <1>2 DEF Unresolved
  <2>2. \A k, x : ResultsFor(k, x)' = ResultsFor(k, x)
    BY <1>2, <2>1 DEF ResultsFor
  <2> QED BY <1>2, <2>2 DEF FindingsStand
<1>3. ASSUME GovernanceInv, FindingsStand, [GovernanceNext]_governanceVars PROVE FindingsStand'
  <2>1. ASSUME NEW offer \in offers, NEW delivered \in BOOLEAN, ApplyGovernanceDecision(offer, delivered)
        PROVE  AnswerTo(offer) = "applied" \/ UNCHANGED chains
    BY <2>1 DEF ApplyGovernanceDecision
  <2> QED BY <1>1, <1>2, <1>3, <2>1, Steps DEF Offer
<1>4. GovernanceInit => FindingsStand
  BY InvInit
<1> QED BY <1>3, <1>4, InvAlways, PTL DEF GovernanceSpec

\* A decision answered as applied, or as a replay, is answered as a replay ever
\* after, however often it is sent and whatever has been decided since.
THEOREM RepeatedDecisionsAgree == GovernanceSpec => AppliedStaysApplied
<1>1. ASSUME GovernanceInv, NEW o \in DOMAIN answers, answers[o] \in {"applied", "replayed"}
      PROVE  AnswerTo(o) = "replayed"
  <2>1. /\ o \in offers /\ o.target \in Targets /\ o.shown + 1 \in 1..Len(chains[o.target])
        /\ chains[o.target][o.shown + 1] = o.event
        /\ chains \in [Targets -> Seq(OfferedEvents)]
    BY <1>1 DEF GovernanceInv, ChainsOfOffers, OffersLookBack, AnswersKept
  <2>2. o.target \in DOMAIN chains /\ o.shown + 1 \in DOMAIN chains[o.target]
    BY <2>1
  <2>3. RequestStored(o, o.target, o.shown + 1)
    BY <2>1 DEF RequestStored, SameTable
  <2>4. RequestKnown(o) /\ Replay(o)
    BY <2>1, <2>2, <2>3 DEF RequestKnown, Replay
  <2> QED BY <2>4 DEF AnswerTo
<1>2. ASSUME GovernanceInv, [GovernanceNext]_governanceVars,
             NEW o \in DOMAIN answers, answers[o] \in {"applied", "replayed"}
      PROVE  answers'[o] \in {"replayed", answers[o]}
  <2>1. ASSUME NEW offer \in offers, NEW delivered \in BOOLEAN, ApplyGovernanceDecision(offer, delivered)
        PROVE  answers'[o] \in {answers[o], AnswerTo(o)}
    BY <2>1 DEF ApplyGovernanceDecision
  <2>2. AnswerTo(o) = "replayed"
    BY <1>1, <1>2
  <2> QED BY <1>2, <2>1, <2>2, Steps DEF Offer
<1>3. GovernanceInv /\ [GovernanceNext]_governanceVars =>
        [\A o \in DOMAIN answers : answers[o] \in {"applied", "replayed"} => answers'[o] \in {"replayed", answers[o]}]_governanceVars
  BY <1>2
<1> QED BY <1>3, InvAlways, PTL DEF GovernanceSpec, AppliedStaysApplied

-----------------------------------------------------------------------------
(* The current-use decision.  Assessment is recursive over the derivations: it *)
(* is unfolded by exhibiting a solution, from the smallest sets of claims that *)
(* everything derived from a member belongs to.                               *)

TaintClosed(base, S) == base \subseteq S /\ \A c \in GovClaims : Parents(c) \cap S # {} => c \in S
Tainted(base) == {c \in GovClaims : \A S \in SUBSET GovClaims : TaintClosed(base, S) => c \in S}

LEMMA ParentsAreClaims == \A c \in GovClaims : Parents(c) \subseteq GovClaims
  BY GovernanceAssumption DEF Parents

LEMMA TaintUnfolds ==
    ASSUME NEW base \in SUBSET GovClaims, NEW c \in GovClaims
    PROVE  c \in Tainted(base) <=> c \in base \/ Parents(c) \cap Tainted(base) # {}
<1> DEFINE D == Tainted(base)
<1>1. base \subseteq D
  BY DEF Tainted, TaintClosed
<1>2. \A S \in SUBSET GovClaims : TaintClosed(base, S) => D \subseteq S
  BY DEF Tainted
<1>3. TaintClosed(base, D)
  <2> SUFFICES ASSUME NEW d \in GovClaims, Parents(d) \cap D # {},
                      NEW S \in SUBSET GovClaims, TaintClosed(base, S)
               PROVE  d \in S
    BY <1>1 DEF TaintClosed, Tainted
  <2> QED BY <1>2 DEF TaintClosed
<1>4. CASE c \in base \/ Parents(c) \cap D # {}
  BY <1>3, <1>4 DEF TaintClosed
<1>5. CASE c \notin base /\ Parents(c) \cap D = {}
  <2>1. TaintClosed(base, D \ {c})
    BY <1>1, <1>3, <1>5 DEF TaintClosed
  <2>2. D \ {c} \in SUBSET GovClaims
    BY DEF Tainted
  <2> QED BY <1>2, <1>5, <2>1, <2>2
<1> QED BY <1>4, <1>5

\* What an assessment says of a claim, in terms of what it says of the parents.
AssessedBy(outcome, c, policy) == Worst(OwnOutcomes(c, policy) \cup {outcome[p][policy] : p \in Parents(c)})

LEMMA AssessmentUnfolds ==
    \A c \in GovClaims, policy \in Policies : Assessment[c][policy] = AssessedBy(Assessment, c, policy)
<1> DEFINE bad(word, policy) == {c \in GovClaims : word \in OwnOutcomes(c, policy)}
           outcome == [c \in GovClaims |-> [policy \in Policies |->
                         IF c \in Tainted(bad("excluded", policy)) THEN "excluded"
                         ELSE IF c \in Tainted(bad("blocked", policy)) THEN "blocked" ELSE "eligible"]]
<1>1. ASSUME NEW c \in GovClaims, NEW policy \in Policies
      PROVE  outcome[c][policy] = AssessedBy(outcome, c, policy)
  <2> DEFINE X == Tainted(bad("excluded", policy))
             B == Tainted(bad("blocked", policy))
             above == {outcome[p][policy] : p \in Parents(c)}
  <2>1. \A d \in GovClaims : outcome[d][policy] = IF d \in X THEN "excluded" ELSE IF d \in B THEN "blocked" ELSE "eligible"
    OBVIOUS
  <2>2. c \in X <=> c \in bad("excluded", policy) \/ Parents(c) \cap X # {}
    BY TaintUnfolds
  <2>3. c \in B <=> c \in bad("blocked", policy) \/ Parents(c) \cap B # {}
    BY TaintUnfolds
  <2>4. /\ c \in bad("excluded", policy) <=> "excluded" \in OwnOutcomes(c, policy)
        /\ c \in bad("blocked", policy) <=> "blocked" \in OwnOutcomes(c, policy)
    OBVIOUS
  <2> HIDE DEF outcome, X, B, bad
  <2>5. "excluded" \in above <=> Parents(c) \cap X # {}
    BY <2>1, ParentsAreClaims
  <2>6. Parents(c) \cap X = {} => ("blocked" \in above <=> Parents(c) \cap B # {})
    BY <2>1, ParentsAreClaims
  <2>7. AssessedBy(outcome, c, policy) = Worst(OwnOutcomes(c, policy) \cup above)
    BY DEF AssessedBy
  <2> HIDE DEF above
  <2> QED BY <2>1, <2>2, <2>3, <2>4, <2>5, <2>6, <2>7 DEF Worst
<1>2. outcome = [c \in GovClaims |-> [policy \in Policies |-> AssessedBy(outcome, c, policy)]]
  BY <1>1
<1>3. \E f : f = [c \in GovClaims |-> [policy \in Policies |-> AssessedBy(f, c, policy)]]
  BY <1>2
<1>4. Assessment = CHOOSE f : f = [c \in GovClaims |-> [policy \in Policies |-> AssessedBy(f, c, policy)]]
  BY DEF Assessment, AssessedBy
<1>5. Assessment = [c \in GovClaims |-> [policy \in Policies |-> AssessedBy(Assessment, c, policy)]]
  BY <1>3, <1>4
<1> QED BY <1>5

\* What is eligible has nothing against it and is derived from what is eligible.
LEMMA EligibleAllTheWay ==
    ASSUME NEW c \in GovClaims, NEW policy \in Policies, Assessment[c][policy] = "eligible"
    PROVE  /\ OwnOutcomes(c, policy) \cap {"excluded", "blocked"} = {}
           /\ \A p \in Parents(c) : Assessment[p][policy] = "eligible"
<1> DEFINE above == {Assessment[p][policy] : p \in Parents(c)}
<1>1. Worst(OwnOutcomes(c, policy) \cup above) = "eligible"
  BY AssessmentUnfolds DEF AssessedBy
<1>2. \A p \in Parents(c) : Assessment[p][policy] \in {"excluded", "blocked", "eligible"}
  BY AssessmentUnfolds, ParentsAreClaims DEF AssessedBy, Worst
<1> QED BY <1>1, <1>2 DEF Worst

LEMMA EligibleOnItsOwn ==
    ASSUME NEW c \in GovClaims, NEW policy \in Policies,
           OwnOutcomes(c, policy) \cap {"excluded", "blocked"} = {}
    PROVE  /\ ExplicitState(c) = "eligible" /\ c \notin HistoricalOnly
           /\ \A x \in Criteria : "fail" \notin ResultsFor(SnapshotOf[c], x)
           /\ \A d \in GovClaims : {c, d} \in conflicts /\ d # c => ExplicitState(d) = "excluded"
<1>1. ExplicitState(c) = "eligible"
  BY DEF OwnOutcomes, ExplicitState, Worst
<1>2. c \notin HistoricalOnly
  BY DEF OwnOutcomes
<1>3. ASSUME NEW x \in Criteria, "fail" \in ResultsFor(SnapshotOf[c], x) PROVE FALSE
  <2> DEFINE k == SnapshotOf[c]
             assessed == {y \in Criteria : policy = "grounded" \/ ResultsFor(k, y) # {}}
  <2>1. x \in assessed /\ SourceCriterion(ResultsFor(k, x)) \in {"excluded", "blocked"}
    BY <1>3 DEF SourceCriterion
  <2>2. SourceOutcome(k, policy) \in {"excluded", "blocked"}
    BY <2>1 DEF SourceOutcome, Worst
  <2> QED BY <2>2 DEF OwnOutcomes
<1>4. ASSUME NEW d \in GovClaims, {c, d} \in conflicts, d # c PROVE ExplicitState(d) = "excluded"
  <2>1. d \in Peers(c)
    BY <1>4 DEF Peers
  <2>2. (IF ExplicitState(d) = "excluded" THEN "eligible" ELSE "blocked") \in OwnOutcomes(c, policy)
    BY <2>1 DEF OwnOutcomes, ConflictOutcomes
  <2> QED BY <2>2
<1> QED BY <1>1, <1>2, <1>3, <1>4

LEMMA PlansConsistent == AcceptedPlansConsistent
<1> SUFFICES ASSUME NEW policy \in Policies,
                    NEW c \in Ancestry({d \in GovClaims : CheckPlan(policy, {d})})
             PROVE  /\ ExplicitState(c) = "eligible" /\ c \notin HistoricalOnly
                    /\ \A x \in Criteria : "fail" \notin ResultsFor(SnapshotOf[c], x)
                    /\ \A d \in GovClaims : {c, d} \in conflicts /\ d # c => ExplicitState(d) = "excluded"
  BY DEF AcceptedPlansConsistent
<1> DEFINE accepted == {d \in GovClaims : Assessment[d][policy] = "eligible"}
<1>1. {d \in GovClaims : CheckPlan(policy, {d})} = accepted
  BY DEF CheckPlan, Assess
<1>2. \A d \in accepted : Parents(d) \subseteq accepted
  BY EligibleAllTheWay, ParentsAreClaims
<1>3. c \in accepted
  BY <1>1, <1>2 DEF Ancestry
<1> QED BY <1>3, EligibleAllTheWay, EligibleOnItsOwn

\* Whatever was withdrawn, assessed, superseded or contradicted, in any order
\* and at any time: what a plan may be built on under either policy rests,
\* through every derivation, on claims in force whose sources have no failed
\* check standing and that nothing in force contradicts (evidenceuse).
THEOREM AcceptedPlansHold == GovernanceSpec => []AcceptedPlansConsistent
  BY PlansConsistent, PTL
=============================================================================

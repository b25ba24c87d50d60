------------------------- MODULE EvidenceGovernance -------------------------
(***************************************************************************)
(* Governance of admitted evidence and the current-use decision over it    *)
(* (governance_*.go of internal/evidenceingestion, internal/evidenceuse).  *)
(* Reviewers withdraw and restore claims and assess source snapshots; each *)
(* target has a chain of events, extended only by a decision about exactly *)
(* the chain that was reviewed.  A plan may be built on a claim when the   *)
(* claim and everything it was derived from are eligible.                  *)
(*                                                                         *)
(* An event is written under the governance lock, so applying a decision   *)
(* is one step; its review is another, earlier one.                        *)
(***************************************************************************)
EXTENDS Naturals, Sequences, FiniteSets

CONSTANTS
    GovSources,      \* admitted source claims
    GovDerived,      \* admitted derived claims
    ParentsOf,       \* ParentsOf[d]: the claims d was derived from
    HistoricalOnly,  \* derived claims admitted for historical use only
    SnapshotOf,      \* SnapshotOf[c]: the source snapshot c was extracted from
    ValidFrom,       \* ValidFrom[c], ValidTo[c]: declared validity of c
    ValidTo,
    Findings,        \* what assessments find: a result for some of the criteria
    GovRequests,     \* request IDs of single decisions
    GovBatches,      \* manifest subjects of batches; a batch derives its request IDs
    MaxOffers,       \* bound: decisions approved
    MaxConflicts,    \* bound: contradictions recorded
    MaxNow           \* bound: the clock

GovClaims == GovSources \cup GovDerived
GovSnapshots == {SnapshotOf[c] : c \in GovClaims}
Criteria == {"retention", "correspondence", "coverage"}

ASSUME GovernanceAssumption ==
    /\ HistoricalOnly \subseteq GovDerived
    /\ ParentsOf \in [GovDerived -> (SUBSET GovClaims) \ {{}}]
    /\ \A f \in Findings : DOMAIN f \subseteq Criteria /\ DOMAIN f # {}

VARIABLES
    chains,     \* chains[t]: tables canonical_withdrawal_events and source_assessment_events
    conflicts,  \* the reviewed contradictions, each a pair of claims
    currency,   \* currency[c]: what the lineage projection says of c
    now,        \* the clock of assessments
    offers,     \* decisions that have been approved and may be sent, and sent again
    answers     \* the last answer each decision got
governanceVars == <<chains, conflicts, currency, now, offers, answers>>

Currency == {"no lineage", "current", "superseded", "incomplete"}

GovernanceInit ==
    /\ chains = [t \in GovClaims \cup GovSnapshots |-> <<>>]
    /\ conflicts = {}
    /\ currency = [c \in GovClaims |-> "no lineage"]
    /\ now = 0
    /\ offers = {}
    /\ answers = [o \in {} |-> "none"]

-----------------------------------------------------------------------------
(* Reviews and decisions.                                                   *)

\* A resolution must name events of this chain and find anew what they found.
ResolvesAnything(chain, finding, resolved) == resolved \subseteq DOMAIN chain
Resolves(chain, finding, resolved) ==
    /\ resolved \subseteq DOMAIN chain
    /\ \A i \in resolved : DOMAIN chain[i].finding \subseteq DOMAIN finding

Withdrawn(c) == chains[c] # <<>> /\ chains[c][Len(chains[c])].op = "withdraw"

Event(req, batch, op, finding, resolved) ==
    [req |-> req, batch |-> batch, op |-> op, finding |-> finding, resolved |-> resolved]

\* What a review of the target as it is now may display.
Reviewable(t, op, finding, resolved) ==
    \/ t \in GovClaims /\ op = "withdraw"
    \/ t \in GovClaims /\ op = "restore" /\ Withdrawn(t)
    \/ t \in GovSnapshots /\ op = "assess" /\ Resolves(chains[t], finding, resolved)

\* The request ID of a batch item is a digest of the record and of what was reviewed.
MigrationRequest(t, op, finding, resolved, shown) == <<"migration", t, op, finding, resolved, shown>>

Offer(t, event) ==
    LET offer == [target |-> t, shown |-> Len(chains[t]), event |-> event] IN
    /\ Cardinality(offers) < MaxOffers /\ offer \notin offers
    /\ offers' = offers \cup {offer}
    /\ UNCHANGED <<chains, conflicts, currency, now, answers>>

ReviewOne(req, t, op, finding, resolved) ==
    /\ Reviewable(t, op, finding, resolved)
    /\ Offer(t, Event(req, "none", op, finding, resolved))

PrepareBatchItem(batch, t, op, finding, resolved) ==
    /\ op # "restore"
    /\ Reviewable(t, op, finding, resolved)
    /\ Offer(t, Event(MigrationRequest(t, op, finding, resolved, Len(chains[t])), batch, op, finding, resolved))

\* Withdrawals and assessments are kept in two tables, each with its own request IDs.
SameTable(t, u) == (t \in GovClaims) = (u \in GovClaims)
RequestStored(offer, t, i) == SameTable(t, offer.target) /\ chains[t][i].req = offer.event.req
RequestKnown(offer) == \E t \in DOMAIN chains : \E i \in DOMAIN chains[t] : RequestStored(offer, t, i)

\* A stored request answers an exact retry; the request may have been for another review.
Replay(offer) ==
    \E t \in DOMAIN chains : \E i \in DOMAIN chains[t] :
        /\ RequestStored(offer, t, i)
        /\ t = offer.target /\ i = offer.shown + 1 /\ chains[t][i] = offer.event

ReviewUnchanged(offer) == Len(chains[offer.target]) = offer.shown

AnswerByReview(offer) == IF ReviewUnchanged(offer) THEN "applied" ELSE "conflict"
AnswerTo(offer) ==
    CASE RequestKnown(offer) -> IF Replay(offer) THEN "replayed" ELSE "failed"
      [] ~ RequestKnown(offer) -> AnswerByReview(offer)

\* The caller may lose the answer, and sends the same decision again.
ApplyGovernanceDecision(offer, delivered) ==
    LET answer == AnswerTo(offer) IN
    /\ offer \in offers
    /\ chains' = IF answer = "applied" THEN [chains EXCEPT ![offer.target] = Append(@, offer.event)] ELSE chains
    /\ answers' = IF delivered THEN [o \in DOMAIN answers \cup {offer} |-> IF o = offer THEN answer ELSE answers[o]]
                               ELSE answers
    /\ UNCHANGED <<conflicts, currency, now, offers>>

-----------------------------------------------------------------------------
(* What other writers change: contradictions and lineages; and the time.    *)

RecordContradiction(pair) ==
    /\ Cardinality(conflicts) < MaxConflicts
    /\ conflicts' = conflicts \cup {pair}
    /\ UNCHANGED <<chains, currency, now, offers, answers>>

LineageMoves(c, status) ==
    /\ c \in GovSources /\ currency[c] # "superseded" /\ status # "no lineage"
    /\ currency' = [currency EXCEPT ![c] = status]
    /\ UNCHANGED <<chains, conflicts, now, offers, answers>>

Tick ==
    /\ now < MaxNow
    /\ now' = now + 1
    /\ UNCHANGED <<chains, conflicts, currency, offers, answers>>

NoFinding == [x \in {} |-> "none"]
Review(t, op, finding, resolved) ==
    \/ \E req \in GovRequests : ReviewOne(req, t, op, finding, resolved)
    \/ \E batch \in GovBatches : PrepareBatchItem(batch, t, op, finding, resolved)

GovernanceNext ==
    \/ \E c \in GovClaims, op \in {"withdraw", "restore"} : Review(c, op, NoFinding, {})
    \/ \E k \in GovSnapshots, finding \in Findings, resolved \in SUBSET (1..MaxOffers) :
         Review(k, "assess", finding, resolved)
    \/ \E offer \in offers, delivered \in BOOLEAN : ApplyGovernanceDecision(offer, delivered)
    \/ \E c, d \in GovClaims : c # d /\ RecordContradiction({c, d})
    \/ \E c \in GovSources, status \in Currency : LineageMoves(c, status)
    \/ Tick

GovernanceSpec == GovernanceInit /\ [][GovernanceNext]_governanceVars

-----------------------------------------------------------------------------
(* The current-use decision.  An exclusion outweighs a block.               *)

Worst(outcomes) ==
    IF "excluded" \in outcomes THEN "excluded" ELSE IF "blocked" \in outcomes THEN "blocked" ELSE "eligible"

\* Findings of a source that no later event has resolved.
Unresolved(k) ==
    LET chain == chains[k] IN
    {i \in DOMAIN chain : \A j \in DOMAIN chain : i \notin chain[j].resolved}
ResultsFor(k, criterion) == {chains[k][i].finding[criterion] : i \in {j \in Unresolved(k) : criterion \in DOMAIN chains[k][j].finding}}

SourceCriterion(results) ==
    IF results = {"pass"} THEN "eligible" ELSE IF results = {"fail"} THEN "excluded" ELSE "blocked"

Policies == {"current", "grounded"}

\* The weaker policy only skips a criterion nobody has a finding for.
SourceOutcome(k, policy) ==
    Worst({SourceCriterion(ResultsFor(k, criterion)) :
           criterion \in {x \in Criteria : policy = "grounded" \/ ResultsFor(k, x) # {}}})

CurrencyOutcome(c) ==
    CASE currency[c] = "superseded" -> "excluded"
      [] currency[c] = "incomplete" -> "blocked"
      [] currency[c] = "current"    -> "eligible"
      [] currency[c] = "no lineage" -> IF c \in GovDerived THEN "eligible" ELSE "blocked"

ExplicitState(c) ==
    Worst({IF Withdrawn(c) THEN "excluded" ELSE "eligible",
           IF ValidFrom[c] <= now /\ now < ValidTo[c] THEN "eligible" ELSE "excluded",
           CurrencyOutcome(c)})

\* A contradiction counts from both of its ends.
PeersOnOneSide(c) == {d \in GovClaims : {c, d} \in conflicts /\ d # c /\ c \in GovDerived}
Peers(c) == {d \in GovClaims : {c, d} \in conflicts /\ d # c}

\* A peer that is itself excluded no longer contradicts; what else is wrong with it does not matter.
ConflictOutcomes(c) == {IF ExplicitState(d) = "excluded" THEN "eligible" ELSE "blocked" : d \in Peers(c)}

OwnOutcomes(c, policy) ==
    {ExplicitState(c), SourceOutcome(SnapshotOf[c], policy),
     IF c \in HistoricalOnly THEN "excluded" ELSE "eligible"} \cup ConflictOutcomes(c)

Parents(c) == IF c \in GovDerived THEN ParentsOf[c] ELSE {}

\* A derived claim is at most as usable as its parents.
Assessment[c \in GovClaims] ==
    [policy \in Policies |-> Worst(OwnOutcomes(c, policy) \cup {Assessment[p][policy] : p \in Parents(c)})]

Assess(policy) == [c \in GovClaims |-> Assessment[c][policy]]

CheckPlan(policy, basis) ==
    LET outcome == Assess(policy) IN \A c \in basis : outcome[c] = "eligible"

-----------------------------------------------------------------------------
(* Properties.                                                              *)

\* The claims a basis rests on: the smallest set with all parents of its members.
Ancestry(basis) ==
    {c \in GovClaims : \A S \in SUBSET GovClaims :
        basis \subseteq S /\ (\A d \in S : Parents(d) \subseteq S) => c \in S}

\* An accepted plan, the largest one included, rests through every step of every
\* derivation on claims that are neither withdrawn nor superseded nor out of their validity, whose
\* sources have no failed check standing against them, and that no claim still
\* standing contradicts: in particular no two of them contradict each other.
AcceptedPlansConsistent ==
    \A policy \in Policies :
        LET basis == {c \in GovClaims : CheckPlan(policy, {c})}
        IN  \A c \in Ancestry(basis) :
                /\ ExplicitState(c) = "eligible" /\ c \notin HistoricalOnly
                /\ \A x \in Criteria : "fail" \notin ResultsFor(SnapshotOf[c], x)
                /\ \A d \in GovClaims : {c, d} \in conflicts /\ d # c => ExplicitState(d) = "excluded"

\* A criterion on which a source was ever assessed keeps an unresolved finding:
\* no sequence of resolutions makes the weaker policy skip it again.
FindingsStand ==
    \A k \in GovSnapshots : \A i \in DOMAIN chains[k] : \A x \in DOMAIN chains[k][i].finding :
        ResultsFor(k, x) # {}

\* A decision that was applied stays applied for whoever repeats it, whatever
\* has been decided about the target since.
AppliedStaysApplied ==
    [][\A o \in DOMAIN answers :
         answers[o] \in {"applied", "replayed"} => answers'[o] \in {"replayed", answers[o]}]_governanceVars

=============================================================================

------------------------ MODULE SupersessionLineages ------------------------
(***************************************************************************)
(* Lineages of external source claims and their supersession               *)
(* (internal/evidencesupersession, internal/evidenceingestion/             *)
(* supersession_*.go, initial_lineage_*.go, joint_lineage_closure.go).     *)
(*                                                                         *)
(* A claim enters a lineage in one of three ways: as the replacement of a  *)
(* supersession event, as a target that the event bootstraps, or by an     *)
(* initial registration, which does not move the chain of events but is    *)
(* anchored to it.  Currentness is never stored: a read replays events and *)
(* registrations from the beginning and refuses to answer unless the       *)
(* stored members and edges are exactly what the replay gives.             *)
(*                                                                         *)
(* Every write below is one REPEATABLE READ transaction that updates the   *)
(* single row of evidence_governance_head before it reads: two of them     *)
(* never overlap (the later one fails with 40001 and is run again).        *)
(***************************************************************************)
EXTENDS Naturals, Sequences, FiniteSets, SequencesExt

CONSTANTS Statements,     \* pending statement proposals about external sources
          Claims,         \* canonical source_claim nodes
          ClaimOf,        \* the node that a statement's admission builds
          ObjectOf,       \* the external object a node's source is a version of
          Slots,          \* semantic slots of an object
          LineageRequests,\* request_id values of reviews
          MaxGovernance,  \* bound: withdrawals and restorations
          NoLineage, NoReview

ASSUME LineageAssumption ==
    /\ ClaimOf \in [Statements -> Claims]
    /\ DOMAIN ObjectOf = Claims
    /\ MaxGovernance \in Nat

VARIABLES
  outcome,     \* column proposal_occurrences.admission_outcome
  nodes,       \* admitted source claims
  chain,       \* supersession events, in order; its length is the head's revision
  members,     \* table canonical_supersession_members
  supersedes,  \* edges of canonical_graph_edges
  catalog,     \* table canonical_initial_lineage_registrations
  withdrawn,   \* claims whose last withdrawal event withdraws them
  governance,  \* withdrawal events so far
  epoch,       \* evidence_governance_head.revision, moved by every write
  bindings,    \* table supersession_review_bindings
  review,      \* the supersession that a reviewer has been shown
  entry        \* the registration that a reviewer has been shown

lineageVars == <<outcome, nodes, chain, members, supersedes, catalog, withdrawn,
                 governance, epoch, bindings, review, entry>>

Lineages == {<<ObjectOf[c], s>> : c \in Claims, s \in Slots}

ASSUME NoLineageAssumption == NoLineage \notin Lineages

\* Membership as stored, and as a review displays it.
LineageOf(c) == IF c \in DOMAIN members THEN members[c].lineage ELSE NoLineage
KnownLineages == {e.lineage : e \in ToSet(chain)} \cup {r.lineage : r \in catalog}
ObjectClaims(object) == {c \in nodes : ObjectOf[c] = object}

LineageInit ==
    /\ outcome = [p \in Statements |-> "pending"]
    /\ nodes = {} /\ chain = <<>> /\ supersedes = {} /\ catalog = {}
    /\ members = [c \in {} |-> 0]
    /\ withdrawn = {} /\ governance = 0 /\ epoch = 0
    /\ bindings = {} /\ review = NoReview /\ entry = NoReview

-----------------------------------------------------------------------------
(* Replay of events and registrations, and the projection of a lineage.     *)

ReplayStart == [ok |-> TRUE, members |-> [c \in {} |-> 0], edges |-> {}]

Enrolled(state, c) == c \in DOMAIN state.members
Enrol(known, claims, lineage, kind, by) ==
    [d \in DOMAIN known \cup claims |->
        IF d \in claims THEN [lineage |-> lineage, kind |-> kind, by |-> by] ELSE known[d]]

\* The replacement is new; each target is bootstrapped exactly when it was not
\* enrolled before, and otherwise belongs to the event's lineage.
ReplayEvent(state, n) ==
    LET e == chain[n]
        booted == Enrol(state.members, e.booted, e.lineage, "bootstrap", n)
    IN  [ok |-> /\ state.ok /\ ~ Enrolled(state, e.claim)
                /\ \A t \in e.targets :
                     IF t \in e.booted THEN ~ Enrolled(state, t)
                     ELSE Enrolled(state, t) /\ state.members[t].lineage = e.lineage,
         members |-> Enrol(booted, {e.claim}, e.lineage, "replacement", n),
         edges |-> state.edges \cup {[from |-> e.claim, to |-> t, by |-> n] : t \in e.targets}]

\* The registrations of one revision.  Each needs a claim, a lineage and an object
\* that nothing has used before, neither an earlier revision nor another of these.
RegistrationsAt(n) == {r \in catalog : r.anchor = n}
Fresh(state, batch, r) ==
    /\ \A c \in DOMAIN state.members : ObjectOf[c] # ObjectOf[r.claim]
    /\ \A q \in batch \ {r} : ObjectOf[q.claim] # ObjectOf[r.claim]
Registered(r) == [lineage |-> r.lineage, kind |-> "registration", by |-> r.req]
ReplayRegistrations(state, batch) ==
    [ok |-> state.ok /\ \A r \in batch : Fresh(state, batch, r),
     members |-> [c \in DOMAIN state.members \cup {r.claim : r \in batch} |->
                    IF Enrolled(state, c) THEN state.members[c]
                    ELSE Registered(CHOOSE r \in batch : r.claim = c)],
     edges |-> state.edges]

\* An anchor grants membership only once its event has been replayed.
Replayed[n \in 0..Len(chain)] ==
    ReplayRegistrations(IF n = 0 THEN ReplayStart ELSE ReplayEvent(Replayed[n - 1], n), RegistrationsAt(n))

JointReplay == Replayed[Len(chain)]

\* Kahn's algorithm removes all the nodes.
Acyclic(edges) ==
    \A S \in (SUBSET {e.to : e \in edges}) \ {{}} :
        \E c \in S : \A e \in edges : e.to = c => e.from \notin S

MembersOf(known, lineage) == {c \in DOMAIN known : known[c].lineage = lineage}
EdgesOf(edges, lineage) == {e \in edges : LineageOf(e.to) = lineage}

\* The read refuses a lineage whose stored rows are not what the replay gives.
Projectable(lineage) ==
    LET replay == JointReplay
        known == MembersOf(replay.members, lineage)
    IN  /\ replay.ok
        /\ MembersOf(members, lineage) = known
        /\ \A c \in known : members[c] = replay.members[c]
        /\ EdgesOf(supersedes, lineage) = {e \in replay.edges : e.to \in known}
        /\ Acyclic(EdgesOf(supersedes, lineage))
        /\ known \subseteq ObjectClaims(lineage[1])
        /\ \A c \in ObjectClaims(lineage[1]) : c \in DOMAIN members <=> c \in DOMAIN replay.members

Frontier(lineage) ==
    {c \in MembersOf(members, lineage) : ~ \E e \in supersedes : e.to = c}

\* Every admitted claim of the object is in some lineage.
ClosureAvailable(lineage) ==
    /\ MembersOf(members, lineage) # {}
    /\ ObjectClaims(lineage[1]) \subseteq DOMAIN members

\* Wrong variant: picks a winner while claims of the object are unclassified.
EagerCurrentness(c) ==
    LET lineage == LineageOf(c) IN
    IF c \notin Frontier(lineage) THEN "superseded"
    ELSE IF Cardinality(Frontier(lineage)) = 1 THEN "current" ELSE "ambiguous"

\* The status of a member of a lineage.
Currentness(c) ==
    LET lineage == LineageOf(c) IN
    CASE c \notin Frontier(lineage)                -> "superseded"
      [] c \in Frontier(lineage) /\ ~ ClosureAvailable(lineage) -> "unknown"
      [] OTHER -> IF Cardinality(Frontier(lineage)) = 1 THEN "current" ELSE "ambiguous"

-----------------------------------------------------------------------------
(* Ordinary admissions and governance.                                      *)

Touch == epoch' = epoch + 1

\* The node may be there already, from another statement.
AdmitStatement(p) ==
    /\ outcome[p] = "pending"
    /\ outcome' = [outcome EXCEPT ![p] = "admitted"]
    /\ nodes' = nodes \cup {ClaimOf[p]}
    /\ Touch
    /\ UNCHANGED <<chain, members, supersedes, catalog, withdrawn, governance, bindings, review, entry>>

SetWithdrawal(c) ==
    /\ c \in nodes /\ governance < MaxGovernance
    /\ withdrawn' = IF c \in withdrawn THEN withdrawn \ {c} ELSE withdrawn \cup {c}
    /\ governance' = governance + 1
    /\ Touch
    /\ UNCHANGED <<outcome, nodes, chain, members, supersedes, catalog, bindings, review, entry>>

-----------------------------------------------------------------------------
(* Supersession.                                                            *)

\* Targets exist, are versions of the same object, and are unclassified or in
\* the lineage already; the replacement is a node of its own.
TargetsValid(p, slot, targets) ==
    /\ targets # {} /\ ClaimOf[p] \notin targets
    /\ targets \subseteq ObjectClaims(ObjectOf[ClaimOf[p]])
    /\ \A t \in targets : LineageOf(t) \in {NoLineage, <<ObjectOf[ClaimOf[p]], slot>>}

\* The proposal is pending, its node new, and the head where the caller read it.
AdmitSupersession(p, slot, targets, expected) ==
    LET c == ClaimOf[p]  n == Len(chain) + 1
        lineage == <<ObjectOf[c], slot>>
        booted == {t \in targets : LineageOf(t) = NoLineage}
    IN  /\ outcome[p] = "pending" /\ expected = Len(chain) /\ c \notin nodes
        /\ TargetsValid(p, slot, targets)
        /\ outcome' = [outcome EXCEPT ![p] = "admitted"]
        /\ nodes' = nodes \cup {c}
        /\ chain' = Append(chain, [statement |-> p, claim |-> c, lineage |-> lineage,
                                   targets |-> targets, booted |-> booted])
        /\ members' = Enrol(Enrol(members, booted, lineage, "bootstrap", n),
                            {c}, lineage, "replacement", n)
        /\ supersedes' = supersedes \cup {[from |-> c, to |-> t, by |-> n] : t \in targets}
        /\ Touch

\* Without a review; the caller read the head earlier.
AdmitPendingSupersession(p, slot, targets) ==
    /\ AdmitSupersession(p, slot, targets, Len(chain))
    /\ UNCHANGED <<catalog, withdrawn, governance, bindings, review, entry>>

Shown(targets) == [t \in targets |-> LineageOf(t)]

\* The display holds the targets with their memberships, and the head.
LoadSupersessionReview(p, slot, targets) ==
    /\ outcome[p] = "pending" /\ TargetsValid(p, slot, targets)
    /\ \A t \in targets : t \in DOMAIN members /\ members[t].kind = "registration"
                             => Projectable(LineageOf(t))
    /\ review' = [statement |-> p, slot |-> slot, targets |-> targets,
                  expected |-> Len(chain), shown |-> Shown(targets)]
    /\ UNCHANGED <<outcome, nodes, chain, members, supersedes, catalog, withdrawn,
                   governance, epoch, bindings, entry>>

\* The review is rebuilt and its subject compared with the one approved.
SupersessionUnchanged ==
    /\ review.expected = Len(chain)
    /\ review.shown = Shown(review.targets)

\* A statement admitted before answers its recorded receipt or is refused, and
\* nothing changes; so is a request bound to another statement.
AdmitReviewedSupersession(req) ==
    /\ review # NoReview
    /\ SupersessionUnchanged
    /\ ~ \E b \in bindings : b.req = req
    /\ AdmitSupersession(review.statement, review.slot, review.targets, review.expected)
    /\ bindings' = bindings \cup {[req |-> req, statement |-> review.statement,
                                   shown |-> review.shown]}
    /\ UNCHANGED <<catalog, withdrawn, governance, review, entry>>

-----------------------------------------------------------------------------
(* Initial registration.                                                    *)

\* Wrong variant: forgets that the object may have other claims.
AnyUnclassified(c, lineage) ==
    /\ c \in nodes /\ c \notin DOMAIN members /\ lineage \notin KnownLineages
    /\ c \notin withdrawn /\ ~ \E e \in supersedes : e.to = c

\* The claim is the only one of its object, unclassified and in use.
Registrable(c, lineage) ==
    /\ c \in nodes /\ c \notin DOMAIN members /\ lineage \notin KnownLineages
    /\ ObjectClaims(ObjectOf[c]) = {c}
    /\ c \notin withdrawn /\ ~ \E e \in supersedes : e.to = c

LoadRegistrationReview(c, slot) ==
    /\ Registrable(c, <<ObjectOf[c], slot>>)
    /\ entry' = [claim |-> c, lineage |-> <<ObjectOf[c], slot>>, anchor |-> Len(chain),
                 epoch |-> epoch]
    /\ UNCHANGED <<outcome, nodes, chain, members, supersedes, catalog, withdrawn,
                   governance, epoch, bindings, review>>

\* The subject binds the anchor and the epoch.  A known request answers its
\* receipt, or is refused, and nothing changes.
ApplyRegistration(req) ==
    /\ entry # NoReview
    /\ ~ \E r \in catalog : r.req = req
    /\ Registrable(entry.claim, entry.lineage)
    /\ entry.anchor = Len(chain) /\ entry.epoch = epoch
    /\ catalog' = catalog \cup {[req |-> req, claim |-> entry.claim,
                                 lineage |-> entry.lineage, anchor |-> entry.anchor]}
    /\ members' = Enrol(members, {entry.claim}, entry.lineage, "registration", req)
    /\ Touch
    /\ UNCHANGED <<outcome, nodes, chain, supersedes, withdrawn, governance, bindings, review, entry>>

LineageNext ==
    \/ \E p \in Statements : AdmitStatement(p)
    \/ \E c \in Claims : SetWithdrawal(c)
    \/ \E p \in Statements, slot \in Slots, targets \in SUBSET nodes :
         \/ AdmitPendingSupersession(p, slot, targets)
         \/ LoadSupersessionReview(p, slot, targets)
    \/ \E req \in LineageRequests : AdmitReviewedSupersession(req) \/ ApplyRegistration(req)
    \/ \E c \in Claims, slot \in Slots : LoadRegistrationReview(c, slot)

-----------------------------------------------------------------------------
(* Properties.                                                              *)

\* No sequence of admissions, registrations and governance events leaves a
\* lineage that a read refuses: the rows written one event at a time are always
\* those that a replay of both histories gives.
ProjectionNeverFails == \A lineage \in KnownLineages : Projectable(lineage)

\* A claim reported current is the only one left of its object's claims in its
\* lineage, and every other claim of the object is accounted for in a lineage:
\* an unclassified late arrival always takes the answer away.
CurrentAccountsForAll ==
    \A c \in DOMAIN members : Currentness(c) = "current" =>
        \A d \in ObjectClaims(ObjectOf[c]) \ {c} :
            /\ LineageOf(d) # NoLineage
            /\ LineageOf(d) = LineageOf(c) => \E e \in supersedes : e.to = d

=============================================================================

------------------------ MODULE ClaimMaterialization ------------------------
(***************************************************************************)
(* What an admission writes, and what its replay later reads back          *)
(* (admission.go, canonical_admission_*.go, supersession_admission_*.go,   *)
(* evidenceimplements and evidencereferences).  The rows of the canonical  *)
(* graph are named by their content, so several proposals may share one;   *)
(* the first to write it is its origin, the others reuse it, and a         *)
(* manifest notes which.  Relations reviewed later are attributed to the   *)
(* origin of the claim they start from.                                    *)
(*                                                                         *)
(* Every writer holds the governance head from its first row to its        *)
(* commit, so an admission is one step.                                    *)
(***************************************************************************)
EXTENDS Naturals, FiniteSets

CONSTANTS
    MatStatements,  \* proposals with source references
    MatDerived,     \* proposals to be admitted as derived claims
    TextOf,         \* TextOf[p]: the statement of a source proposal
    RefsOf,         \* RefsOf[p]: the source spans it cites
    ExtractorOf,    \* ExtractorOf[p]: the extractor that proposed it
    BasisOf         \* BasisOf[d]: the source proposal whose claim is the parent of d

ASSUME MaterializationAssumption ==
    /\ MatStatements \cap MatDerived = {}
    /\ BasisOf \in [MatDerived -> MatStatements]

VARIABLES
    rows,       \* canonical_graph_nodes and _edges: body and origin of each row stored
    writer,     \* writer[p]: through which writer p was admitted, "none" while pending
    manifest,   \* manifest[p]: the rows bound by its admission, and how
    receipts    \* the relation edges that have a reviewed receipt of their own
materializationVars == <<rows, writer, manifest, receipts>>

MatProposals == MatStatements \cup MatDerived

-----------------------------------------------------------------------------
(* The rows of an admission.  The name of a row does not include all of its *)
(* body: a span cited by two proposals is one row, with the provenance of   *)
(* the one that came first.                                                 *)

ClaimOfProposal(p) == IF p \in MatStatements THEN <<"claim", TextOf[p], RefsOf[p]>> ELSE <<"derived", p>>
Raw(ref) == <<"raw", ref>>
Supports(ref, p) == <<"supports", ref, ClaimOfProposal(p)>>
DerivedFrom(d) == <<"derived_from", ClaimOfProposal(BasisOf[d]), ClaimOfProposal(d)>>
Supersedes(p, claim) == <<"supersedes", ClaimOfProposal(p), claim>>
IsEdge(row) == row[1] \in {"supports", "derived_from", "supersedes", "references", "implements"}

Mutation(p) ==
    IF p \in MatStatements
      THEN {ClaimOfProposal(p)} \cup {Raw(ref) : ref \in RefsOf[p]} \cup {Supports(ref, p) : ref \in RefsOf[p]}
      ELSE {ClaimOfProposal(p), DerivedFrom(p)}

\* The origin references of a proposal name all of its spans; a supersession
\* marks its own rows, but not the spans, as reviewed.
BodyOf(p, row, by) ==
    IF p \in MatDerived THEN <<"derivation">>
    ELSE <<RefsOf[p], ExtractorOf[p],
           IF row[1] = "raw" THEN "span" ELSE IF by = "supersession" THEN "reviewed" ELSE TextOf[p]>>

RowsOf(p) == {row \in DOMAIN rows : rows[row].origin = p}
Matches(p, row, by) == row \in DOMAIN rows /\ rows[row].body = BodyOf(p, row, by)

\* Exactly one admission may claim to have materialised a row for its origin.
FirstMaterializer(row, p) ==
    /\ writer[p] # "none"
    /\ IF writer[p] = "supersession" THEN row \in manifest[p].bound ELSE row \in manifest[p].materialized

Reusable(p, row) ==
    /\ p \in MatStatements
    /\ Matches(p, row, "ordinary")
    /\ rows[row].origin # p
    /\ FirstMaterializer(row, rows[row].origin)

-----------------------------------------------------------------------------
MaterializationInit ==
    /\ rows = [row \in {} |-> [body |-> <<"derivation">>, origin |-> CHOOSE p \in MatProposals : TRUE]]
    /\ writer = [p \in MatProposals |-> "none"]
    /\ manifest = [p \in MatProposals |-> [bound |-> {}, materialized |-> {}]]
    /\ receipts = {}

Store(p, new, by) ==
    rows' = [row \in DOMAIN rows \cup new |->
               IF row \in DOMAIN rows THEN rows[row] ELSE [body |-> BodyOf(p, row, by), origin |-> p]]

Admitted(p, bound, by) ==
    LET new == bound \ DOMAIN rows IN
    /\ Store(p, new, by)
    /\ writer' = [writer EXCEPT ![p] = by]
    /\ manifest' = [manifest EXCEPT ![p] = [bound |-> bound, materialized |-> new]]
    /\ UNCHANGED receipts

\* Refused, and the proposal left pending, when a row exists that may not be reused.
AdmitMutation(p, by) ==
    /\ writer[p] = "none"
    /\ p \in MatDerived => ClaimOfProposal(BasisOf[p]) \in DOMAIN rows
    /\ p \in MatDerived => Mutation(p) \cap DOMAIN rows = {}
    /\ \A row \in Mutation(p) \cap DOMAIN rows : Reusable(p, row)
    /\ Admitted(p, Mutation(p), by)

\* Only the spans of a replacement may exist already, and must be the same.
AdmitSupersession(p, claim) ==
    /\ p \in MatStatements /\ writer[p] = "none"
    /\ claim \in DOMAIN rows /\ claim[1] = "claim" /\ claim # ClaimOfProposal(p)
    /\ \A row \in Mutation(p) \cap DOMAIN rows : row[1] = "raw" /\ Matches(p, row, "supersession")
    /\ Admitted(p, Mutation(p) \cup {Supersedes(p, claim)}, "supersession")

\* A relation is one row with one receipt, written together; its origin is the
\* proposal of the claim it starts from.
AdmitRelation(relation, from, to) ==
    LET edge == <<relation, from, to>> IN
    /\ from \in DOMAIN rows /\ to \in DOMAIN rows /\ from # to
    /\ from[1] = (IF relation = "references" THEN "claim" ELSE "derived")
    /\ to[1] = "claim"
    /\ edge \notin DOMAIN rows
    /\ rows' = [row \in DOMAIN rows \cup {edge} |->
                  IF row \in DOMAIN rows THEN rows[row] ELSE [body |-> <<relation>>, origin |-> rows[from].origin]]
    /\ receipts' = receipts \cup {edge}
    /\ UNCHANGED <<writer, manifest>>

MaterializationNext ==
    \/ \E p \in MatProposals, by \in {"ordinary", "reviewed"} : AdmitMutation(p, by)
    \/ \E p \in MatStatements, claim \in DOMAIN rows : AdmitSupersession(p, claim)
    \/ \E relation \in {"references", "implements"}, from \in DOMAIN rows, to \in DOMAIN rows :
         AdmitRelation(relation, from, to)

-----------------------------------------------------------------------------
(* Replay: the stored rows are compared with what the admission would write *)
(* today and with what its manifest says it wrote.                          *)

NothingIndependent(p, edge) == FALSE

\* Relations of the proposal's own claim do not belong to its admission.
IndependentEdge(p, edge) ==
    /\ edge \in receipts
    /\ edge[2] = ClaimOfProposal(p)
    /\ edge[1] = (IF p \in MatStatements THEN "references" ELSE "implements")

Attributed(p) == {row \in RowsOf(p) : ~ (IsEdge(row) /\ row \notin manifest[p].materialized /\ IndependentEdge(p, row))}

ReplaysSupersession(p) ==
    /\ \A row \in Mutation(p) : Matches(p, row, "supersession")
    /\ {row \in Attributed(p) : IsEdge(row)} = {row \in manifest[p].bound : IsEdge(row)}
    /\ \A row \in RowsOf(p) : ~ IsEdge(row) => row \in manifest[p].bound

ReplaysMutation(p, by) ==
    /\ manifest[p].bound = Mutation(p)
    /\ \A row \in Mutation(p) :
         /\ Matches(p, row, by)
         /\ IF row \in manifest[p].materialized
              THEN rows[row].origin = p
              ELSE rows[row].origin # p /\ FirstMaterializer(row, rows[row].origin)
    /\ Attributed(p) = manifest[p].materialized

Replays(p, by) ==
    /\ writer[p] = by
    /\ IF by = "supersession" THEN ReplaysSupersession(p) ELSE ReplaysMutation(p, by)

-----------------------------------------------------------------------------
(* Properties.                                                              *)

\* Whatever has been admitted since, superseding it, reusing its rows or adding
\* relations to its claim, an admission replays through the writer that made it
\* and through no other: no legal sequence of admissions strands an earlier one.
AdmittedReplays ==
    \A p \in MatProposals : writer[p] # "none" =>
        {by \in {"ordinary", "reviewed", "supersession"} : Replays(p, by)} = {writer[p]}

=============================================================================

------------------------- MODULE SourceGenerations -------------------------
(***************************************************************************)
(* Repository snapshots, extraction runs over them, and the generations of *)
(* one source stream (internal/evidenceingestion: git_repository_snapshot, *)
(* repository_extraction_run, repository_delta_extraction,                 *)
(* repository_go_parser, source_generation, source_reconciliation).        *)
(*                                                                         *)
(* A run parses a snapshot; a delta run also assembles the output from     *)
(* that of the newest generation of another snapshot, file by file, and    *)
(* keeps the assembled output only if the full one has the same hash.  The *)
(* base is read before the parse and the verdict stored after it, and the  *)
(* generation is made by a later transaction still: other runs may come in *)
(* between, and a process may die there.  Transactions on generations hold *)
(* the lock of the stream, and are steps.                                  *)
(***************************************************************************)
EXTENDS Naturals, Sequences

CONSTANTS Commits,           \* commits of the repository
          TreeOf,            \* the tracked Go files of a commit: path to content
          FactsOf,           \* the declarations that a content parses into
          Unparsable,        \* contents that do not parse
          CaptureRequests,   \* request_id of captures
          RunRequests,       \* request_id of extraction runs
          ActivateRequests,  \* request_id of activations
          NoGeneration       \* no base, no head

ASSUME GenerationAssumption == DOMAIN TreeOf = Commits

VARIABLES captured,         \* tables repository_snapshots and source_file_snapshots
          captures,         \* table repository_snapshot_intake_requests
          runs,             \* tables extraction_runs, _attempts and proposal_batches, by request
          parsing,          \* calls in progress, by request: the base they have read
          audits,           \* table repository_delta_extractions, by request
          generations,      \* table repository_source_generations, by generation_number
          head,             \* table repository_source_heads: the number of the active one
          activations,      \* table repository_generation_activation_requests
          reconciliations   \* table repository_generation_reconciliations, by generation

generationVars == <<captured, captures, runs, parsing, audits, generations, head,
                    activations, reconciliations>>

\* Versions of the extractor; the delta adapter takes one only.
Definitions == {"v1", "v2"}
DeltaDefinition == "v1"

GenerationInit ==
    /\ captured = {} /\ captures = {}
    /\ runs = [q \in {} |-> 0] /\ parsing = [q \in {} |-> 0] /\ audits = [q \in {} |-> 0]
    /\ generations = <<>> /\ head = NoGeneration
    /\ activations = [q \in {} |-> 0] /\ reconciliations = [g \in {} |-> 0]

With(f, x, v) == [y \in DOMAIN f \cup {x} |-> IF y = x THEN v ELSE f[y]]
Without(f, x) == [y \in DOMAIN f \ {x} |-> f[y]]

-----------------------------------------------------------------------------
(* Capture.                                                                 *)

\* A snapshot is a function of the commit; its request is bound to it.
CaptureGitRepositorySnapshot(q, c) ==
    /\ \A b \in captures : b.req = q => b.commit = c
    /\ captured' = captured \cup {c}
    /\ captures' = captures \cup {[req |-> q, commit |-> c]}
    /\ UNCHANGED <<runs, parsing, audits, generations, head, activations, reconciliations>>

-----------------------------------------------------------------------------
(* Extraction.                                                              *)

Paths(c) == DOMAIN TreeOf[c]
Fact(c, path, declaration) == [commit |-> c, path |-> path, declaration |-> declaration]
ParseFile(c, path) == {Fact(c, path, d) : d \in FactsOf[TreeOf[c][path]]}
Parses(c, paths) == \A path \in paths : TreeOf[c][path] \notin Unparsable

ExtractRepository(c) == UNION {ParseFile(c, path) : path \in Paths(c)}

\* Wrong variant: a file that is still there is taken for unchanged.
FileDeltaByPath(base, c) ==
    [path \in Paths(base) \cup Paths(c) |->
        CASE path \notin Paths(base) -> "added"
          [] path \notin Paths(c)    -> "deleted"
          [] OTHER -> "unchanged"]

FileDelta(base, c) ==
    [path \in Paths(base) \cup Paths(c) |->
        CASE path \notin Paths(base) -> "added"
          [] path \notin Paths(c)    -> "deleted"
          [] OTHER -> IF TreeOf[base][path] = TreeOf[c][path] THEN "unchanged" ELSE "modified"]

\* What the base says of an unchanged file, bound to the new commit; the rest is
\* parsed.
AssembleDelta(base, output, c) ==
    LET delta == FileDelta(base, c)
        same == {path \in Paths(c) : delta[path] = "unchanged"}
    IN  {Fact(c, f.path, f.declaration) : f \in {g \in output : g.path \in same}}
        \cup UNION {ParseFile(c, path) : path \in Paths(c) \ same}

\* The newest generation of the definition that is of another snapshot.
BaseGenerations(c, d) == {n \in DOMAIN generations : /\ generations[n].definition = d
                                                     /\ generations[n].commit # c}
DeltaBase(c, d) ==
    IF BaseGenerations(c, d) = {} THEN NoGeneration
    ELSE CHOOSE n \in BaseGenerations(c, d) : \A m \in BaseGenerations(c, d) : m <= n

\* A base is used when its commit, identity and stored output agree.
BaseAuthority(n) ==
    /\ generations[n].commit \in captured
    /\ \E q \in DOMAIN runs : /\ q = generations[n].run /\ runs[q].status = "succeeded"
                              /\ runs[q].output = generations[n].output

Fallback(reason) == [decision |-> "full_fallback", reason |-> reason]
DeltaDecision(base, c) ==
    IF base = NoGeneration THEN Fallback("no_base_generation")
    ELSE IF ~ BaseAuthority(base) THEN Fallback("base_authority_invalid")
    ELSE IF AssembleDelta(generations[base].commit, generations[base].output, c)
              # ExtractRepository(c)
           THEN Fallback("candidate_mismatch")
           ELSE [decision |-> "delta_verified", base |-> base]

\* The request is bound to its snapshot and definition.  A call may take up an
\* attempt that another left started; a verdict is answered as it stands.
BeginExtraction(q, c, d, delta) ==
    /\ c \in captured /\ (delta => d = DeltaDefinition) /\ q \notin DOMAIN parsing
    /\ IF q \in DOMAIN runs
         THEN /\ runs[q].commit = c /\ runs[q].definition = d /\ runs[q].status = "started"
              /\ UNCHANGED runs
         ELSE runs' = With(runs, q, [commit |-> c, definition |-> d, status |-> "started",
                                     output |-> {}])
    /\ parsing' = With(parsing, q, [delta |-> delta,
                                    base |-> IF delta THEN DeltaBase(c, d) ELSE NoGeneration])
    /\ UNCHANGED <<captured, captures, audits, generations, head, activations, reconciliations>>

FinishExtraction(q) ==
    /\ q \in DOMAIN parsing
    /\ LET c == runs[q].commit IN
       IF Parses(c, Paths(c))
         THEN /\ runs' = [runs EXCEPT ![q].status = "succeeded", ![q].output = ExtractRepository(c)]
              /\ audits' = IF parsing[q].delta
                             THEN With(audits, q, DeltaDecision(parsing[q].base, c)) ELSE audits
         ELSE /\ runs' = [runs EXCEPT ![q].status = "failed"]
              /\ UNCHANGED audits
    /\ parsing' = Without(parsing, q)
    /\ UNCHANGED <<captured, captures, generations, head, activations, reconciliations>>

ExtractionDies(q) ==
    /\ q \in DOMAIN parsing
    /\ parsing' = Without(parsing, q)
    /\ UNCHANGED <<captured, captures, runs, audits, generations, head, activations, reconciliations>>

-----------------------------------------------------------------------------
(* Generations.                                                             *)

\* A snapshot and a definition have one generation; another run of them answers it.
CreateGeneration(q) ==
    /\ q \in DOMAIN runs /\ runs[q].status = "succeeded"
    /\ ~ \E n \in DOMAIN generations : /\ generations[n].commit = runs[q].commit
                                       /\ generations[n].definition = runs[q].definition
    /\ generations' = Append(generations,
         [commit |-> runs[q].commit, definition |-> runs[q].definition,
          output |-> runs[q].output, run |-> q])
    /\ UNCHANGED <<captured, captures, runs, parsing, audits, head, activations, reconciliations>>

\* The occurrences of a generation, by identity: fingerprint and source references.
Identities(n) == generations[n].output
PreviousIdentities(n) == IF n = NoGeneration THEN {} ELSE Identities(n)

Reconcile(n, previous) ==
    [previous  |-> previous,
     unchanged |-> Identities(n) \cap PreviousIdentities(previous),
     new       |-> Identities(n) \ PreviousIdentities(previous),
     stale     |-> PreviousIdentities(previous) \ Identities(n)]

\* An older generation does not replace a newer one.
Replaceable(n) == head = NoGeneration \/ head <= n

\* A known request answers what it did, or is refused.
ActivateGeneration(q, n) ==
    /\ q \notin DOMAIN activations
    /\ Replaceable(n)
    /\ activations' = With(activations, q, [previous |-> head, activated |-> n,
                                            changed |-> head # n])
    /\ IF head # n
         THEN /\ reconciliations' = With(reconciliations, n, Reconcile(n, head))
              /\ head' = n
         ELSE /\ n \in DOMAIN reconciliations
              /\ UNCHANGED <<reconciliations, head>>
    /\ UNCHANGED <<captured, captures, runs, parsing, audits, generations>>

GenerationNext ==
    \/ \E q \in CaptureRequests, c \in Commits : CaptureGitRepositorySnapshot(q, c)
    \/ \E q \in RunRequests :
         \/ \E c \in Commits, d \in Definitions, delta \in BOOLEAN : BeginExtraction(q, c, d, delta)
         \/ FinishExtraction(q) \/ ExtractionDies(q) \/ CreateGeneration(q)
    \/ \E q \in ActivateRequests, n \in DOMAIN generations : ActivateGeneration(q, n)

-----------------------------------------------------------------------------
(* Properties.                                                              *)

\* A delta run never falls back for want of agreement, whatever ran meanwhile: with
\* a base, the output put together from an older generation is the full one.
DeltaAgrees ==
    \A q \in DOMAIN audits : audits[q] = Fallback("no_base_generation")
                             \/ audits[q].decision = "delta_verified"

=============================================================================

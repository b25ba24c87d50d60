----------------------------- MODULE ReadViews -----------------------------
(***************************************************************************)
(* Bounded views of the canonical graph: what one read loads around its    *)
(* roots (evidenceingestion/canonical_read_view.go), what makes it a valid *)
(* artifact (evidencegraph/canonical.go), and the handles under which a    *)
(* query process keeps it (evidencequerymcp/canonical_read_view.go) for    *)
(* paths and diagnostics (evidenceprojection).                             *)
(*                                                                         *)
(* The graph only grows.  Each change of it, and each governance event,    *)
(* moves the governance head, which the digest of a view's use state       *)
(* contains.  A read is one repeatable-read transaction; the view is put   *)
(* into the cache some time after it.                                      *)
(***************************************************************************)
EXTENDS Naturals, Sequences, FiniteSets

CONSTANTS ViewNodes,     \* canonical nodes
          ParentsOf,     \* the derivation of a node: its parents, none for a source claim
          ViewEdges,     \* the edges there may be, numbered in the order of their ids
          EndsOf,        \* [from, to, relation] of each
          Readers,       \* the owners a runtime binds reads to
          ReadInputs,    \* requests: roots, relations, depth, nodes, edges
          CacheCapacity,
          MaxHead,       \* bounds the changes of graph and governance
          MaxOpened      \* bounds the views opened

CanonicalRelations ==
    {"supports_claim", "contradicts", "references", "supersedes", "implements", "derived_from"}

DerivationEdges(n) == {e \in ViewEdges : EndsOf[e].to = n /\ EndsOf[e].relation = "derived_from"}

ASSUME ReadAssumption ==
    /\ ViewEdges \subseteq Nat /\ CacheCapacity \in Nat \ {0}
    /\ EndsOf \in [ViewEdges -> [from : ViewNodes, to : ViewNodes, relation : CanonicalRelations]]
    /\ ReadInputs \subseteq [roots : SUBSET ViewNodes, relations : SUBSET CanonicalRelations,
                             depth : Nat, nodes : Nat, edges : Nat]
    /\ \A n \in ViewNodes : IsFiniteSet(DerivationEdges(n))
    /\ \A n \in ViewNodes, p \in ViewNodes :
         p \in ParentsOf[n] <=> \E e \in ViewEdges : EndsOf[e] = [from |-> p, to |-> n, relation |-> "derived_from"]

VARIABLES
  graph,     \* the nodes and edges admitted, and the governance head
  loading,   \* loading[o]: the view o has read and not yet put, or none
  cache,     \* the views kept, the most recently used first
  opened     \* every view that was answered

readVars == <<graph, loading, cache, opened>>

NoView == [handle |-> [owner |-> "none"]]

ReadInit ==
    /\ graph = [nodes |-> {}, edges |-> {}, head |-> 0]
    /\ loading = [o \in Readers |-> NoView]
    /\ cache = <<>> /\ opened = {}

-----------------------------------------------------------------------------
(* The graph and its governance head.                                       *)

\* A derived claim is admitted with its derivation.
AddClaim(n) ==
    /\ n \notin graph.nodes /\ ParentsOf[n] \subseteq graph.nodes
    /\ graph.head < MaxHead
    /\ graph' = [nodes |-> graph.nodes \cup {n}, edges |-> graph.edges \cup DerivationEdges(n),
                 head |-> graph.head + 1]
    /\ UNCHANGED <<loading, cache, opened>>

AddRelation(e) ==
    /\ e \notin graph.edges /\ EndsOf[e].relation # "derived_from"
    /\ {EndsOf[e].from, EndsOf[e].to} \subseteq graph.nodes
    /\ graph.head < MaxHead
    /\ graph' = [graph EXCEPT !.edges = @ \cup {e}, !.head = @ + 1]
    /\ UNCHANGED <<loading, cache, opened>>

\* A withdrawal, an assessment, a decision: the graph stays as it is.
GovernanceMoves ==
    /\ graph.head < MaxHead
    /\ graph' = [graph EXCEPT !.head = @ + 1]
    /\ UNCHANGED <<loading, cache, opened>>

-----------------------------------------------------------------------------
(* One bounded read.                                                        *)

ValidInput(input) ==
    /\ input.roots # {} /\ input.nodes >= 1
    /\ Cardinality(input.roots) <= input.nodes
    /\ input.depth > 0 => input.edges > 0

Ends(e) == {EndsOf[e].from, EndsOf[e].to}

\* The edges at the frontier that are in scope and not yet loaded.
Candidates(frontier, input, seen) ==
    {e \in graph.edges \ seen :
        /\ Ends(e) \cap frontier # {}
        /\ input.relations = {} \/ EndsOf[e].relation \in input.relations}

FirstOf(edges, limit) == {e \in edges : Cardinality({f \in edges : f <= e}) <= limit}

\* Wrong variant: an edge that does not fit is left out without a word.
SilentlyFull(t) == t

\* The node budget is spent: an edge is left out, and the view says so.
Full(t) == [t EXCEPT !.truncated = TRUE]

Neighbor(t, e) == IF EndsOf[e].from \in t.selected THEN EndsOf[e].to ELSE EndsOf[e].from

\* The nodes the view comes to once the batch is read up to e, were they to fit.
MetBy(t, batch, e) == t.selected \cup {Neighbor(t, f) : f \in {f \in batch : f <= e}}

\* The neighbours met first take what is left of the node budget; an edge is
\* taken when its neighbour is in the view by then.
Take(t, batch, input) ==
    LET fitting  == {e \in batch : Cardinality(MetBy(t, batch, e)) <= input.nodes}
        selected == t.selected \cup {Neighbor(t, e) : e \in fitting}
        taken    == {e \in batch : Neighbor(t, e) \in selected}
        after    == [t EXCEPT !.edges = @ \cup taken, !.selected = selected,
                              !.next = selected \ t.selected]
    IN  IF taken = batch THEN after ELSE Full(after)

\* The edge budget is spent: the level is the last one, and the view says so.
CutShort(t) == [t EXCEPT !.truncated = TRUE, !.last = TRUE]

\* One level: the batch is cut at what is left of the edge budget.
Level(t, input) ==
    LET remaining == input.edges - Cardinality(t.edges)
        found     == Candidates(t.next, input, t.edges)
        start     == IF Cardinality(found) > remaining THEN CutShort(t) ELSE t
    IN  IF t.last \/ t.next = {} THEN t ELSE Take(start, FirstOf(found, remaining), input)

\* What a read has loaded after d levels.
Loaded[d \in Nat] == [input \in ReadInputs |->
    IF d = 0 THEN [selected |-> input.roots, edges |-> {}, next |-> input.roots,
                   truncated |-> FALSE, last |-> FALSE]
             ELSE Level(Loaded[d - 1][input], input)]

Traversal(input) == Loaded[input.depth][input]

\* A derived claim without its whole derivation in the view fails the read.
DerivationsWhole(t) ==
    \A n \in t.selected : ParentsOf[n] # {} =>
        ParentsOf[n] \subseteq t.selected /\ DerivationEdges(n) \subseteq t.edges

Assembles(t) == t.selected \subseteq graph.nodes /\ DerivationsWhole(t)

\* Edges only between nodes of the view, and each derivation declared.
ValidArtifact(a) ==
    \A e \in a.edges : /\ {EndsOf[e].from, EndsOf[e].to} \subseteq a.nodes
                       /\ EndsOf[e].relation = "derived_from" => EndsOf[e].from \in ParentsOf[EndsOf[e].to]

-----------------------------------------------------------------------------
(* Handles and the cache.                                                   *)

\* Wrong variant: the handle tells the artifact and its scope only.
ArtifactIdentity(o, head, artifact, input, truncated) ==
    [owner |-> o, snapshot |-> artifact, input |-> input, truncated |-> truncated]

\* What the handle is a digest of.
Identity(o, head, artifact, input, truncated) ==
    [owner |-> o, governance |-> head, snapshot |-> artifact, input |-> input, truncated |-> truncated]

View(o, input) ==
    LET t == Traversal(input)
        artifact == [nodes |-> t.selected, edges |-> t.edges]
    IN  [handle |-> Identity(o, graph.head, artifact, input, t.truncated), owner |-> o,
         governance |-> graph.head, artifact |-> artifact, input |-> input, truncated |-> t.truncated]

\* The read fails, or gives a view that is not yet in the cache.
ReadGraphView(o, input) ==
    LET t == Traversal(input)
    IN  /\ loading[o] = NoView /\ Cardinality(opened) < MaxOpened
        /\ ValidInput(input) /\ Assembles(t)
        /\ ValidArtifact([nodes |-> t.selected, edges |-> t.edges])
        /\ loading' = [loading EXCEPT ![o] = View(o, input)]
        /\ UNCHANGED <<graph, cache, opened>>

Kept(o, handle) == {i \in DOMAIN cache : cache[i].owner = o /\ cache[i].handle = handle}
Without(i) == SubSeq(cache, 1, i - 1) \o SubSeq(cache, i + 1, Len(cache))
MoveToFront(i) == <<cache[i]>> \o Without(i)

\* A view under a handle that is kept already takes its place, at the front;
\* another one pushes out the last, when the cache is full.
Put(view) ==
    \/ \E i \in Kept(view.owner, view.handle) : cache' = <<view>> \o Without(i)
    \/ /\ Kept(view.owner, view.handle) = {}
       /\ cache' = <<view>> \o SubSeq(cache, 1, IF Len(cache) < CacheCapacity THEN Len(cache) ELSE CacheCapacity - 1)

OpenView(o) ==
    /\ loading[o] # NoView
    /\ Put(loading[o])
    /\ opened' = opened \cup {loading[o]}
    /\ loading' = [loading EXCEPT ![o] = NoView]
    /\ UNCHANGED graph

-----------------------------------------------------------------------------
(* Paths in a view.                                                         *)

\* A contradiction may be walked either way, other relations only forward.
Successors(edges, relations, nodes) ==
    {EndsOf[e].to : e \in {e \in edges : EndsOf[e].relation \in relations /\ EndsOf[e].from \in nodes}} \cup
    {EndsOf[e].from : e \in {e \in edges : /\ EndsOf[e].relation \in relations \cap {"contradicts"}
                                          /\ EndsOf[e].to \in nodes}}

\* The scopes a path may be asked for in, but for relations no edge has.
PathRelations == SUBSET {EndsOf[e].relation : e \in ViewEdges} \ {{}}

\* The nodes a path of at most k edges leads to.
PathScopes == [edges : SUBSET ViewEdges, relations : PathRelations, from : ViewNodes]
Reach[k \in Nat] == [p \in PathScopes |->
    IF k = 0 THEN {p.from} ELSE Reach[k - 1][p] \cup Successors(p.edges, p.relations, Reach[k - 1][p])]

\* The length of a shortest path, if there is a path.
FindPath(a, relations, from, to) ==
    LET lengths == {k \in 0..Cardinality(a.nodes) :
                      to \in Reach[k][[edges |-> a.edges, relations |-> relations, from |-> from]]}
    IN  {k \in lengths : \A l \in lengths : k <= l}

\* A path or the diagnostics of a view that is kept: another owner's handle, or
\* one whose view was evicted, is missing.
ReadHandle(o, handle) ==
    /\ \E i \in Kept(o, handle) : cache' = MoveToFront(i)
    /\ UNCHANGED <<graph, loading, opened>>

ReadNext ==
    \/ \E n \in ViewNodes : AddClaim(n)
    \/ \E e \in ViewEdges : AddRelation(e)
    \/ GovernanceMoves
    \/ \E o \in Readers : OpenView(o) \/ \E input \in ReadInputs : ReadGraphView(o, input)
    \/ \E o \in Readers, v \in opened : ReadHandle(o, v.handle)

-----------------------------------------------------------------------------
(* Correctness.                                                             *)

\* A handle stands for one view: whoever opened what in the meantime, at
\* whatever governance state, reads under it are answered from the graph and
\* the governance its owner was shown, and no other owner's are answered.
HandleMeansOneView ==
    \A v \in opened, o \in Readers :
      \A i \in Kept(o, v.handle) : o = v.owner /\ cache[i] = v

\* The nodes at most k relations of the input's scope away from its roots.
Ball[k \in Nat] == [input \in ReadInputs |->
    IF k = 0 THEN input.roots
             ELSE Ball[k - 1][input] \cup UNION {Ends(e) : e \in Candidates(Ball[k - 1][input], input, {})}]

\* All nodes up to the depth, all relations that lead there, and so every shortest
\* path from a root that is not longer than the depth.
Whole(v) ==
    LET input == v.input
        a == v.artifact
    IN  /\ a.nodes = Ball[input.depth][input]
        /\ input.depth > 0 => a.edges = Candidates(Ball[input.depth - 1][input], input, {})
        /\ input.relations = {} =>
             \A relations \in PathRelations, root \in input.roots, n \in a.nodes :
               LET steps == FindPath(graph, relations, root, n)
               IN  steps \subseteq 0..input.depth => FindPath(a, relations, root, n) = steps

\* A view that does not say it was truncated holds everything in its scope.
UntruncatedViewComplete ==
    [][\A o \in Readers :
         loading[o] = NoView /\ loading'[o] # NoView /\ ~ loading'[o].truncated => Whole(loading'[o])]_readVars

=============================================================================

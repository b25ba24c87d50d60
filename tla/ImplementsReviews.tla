-------------------------- MODULE ImplementsReviews --------------------------
(***************************************************************************)
(* Reviews of "specification implements code" relations                   *)
(* (implements_recursive_basis.go, evidenceimplements/recursive_*.go,     *)
(* canonical_implements_candidate_proposer.go).  A review shows everything *)
(* a derived specification rests on: a bounded walk of its derivation,    *)
(* checked a second time when the basis is sealed.  What is approved after *)
(* it is ImplementsApprovals.                                              *)
(***************************************************************************)
EXTENDS ImplementsApprovals, Integers, FiniteSets, FiniteSetsExt, Sequences, SequencesExt

CONSTANTS
    SpecNodes,       \* claims that may become specifications: numbers, in the order of their ids
    MentionsOf,      \* MentionsOf[n]: what the text of n says of the code: [qualified, simple, terms]
    MinSharedTerms,  \* MinSharedLexicalTerms
    MaxLayers,       \* recursiveImplementsMaxDepth, 8 in the code
    MaxClosure,      \* recursiveImplementsMaxNodes, 64 in the code; also MaxCandidatesPerReport
    MaxClosureEdges, \* recursiveImplementsMaxEdges, 128 in the code
    MaxAndParents    \* ReviewedDerivationMaxParents, 32 in the code

ASSUME ImplementsAssumption ==
    /\ SpecNodes \subseteq Nat
    /\ \A n \in SpecNodes : MentionsOf[n] \in [qualified : BOOLEAN, simple : BOOLEAN, terms : Nat]
    /\ {MaxLayers, MaxClosure, MaxAndParents} \subseteq Nat \ {0} /\ MaxClosureEdges \in Nat

VARIABLE derivations \* the parents of every admitted claim, none for a source claim
implementsVars == <<derivations, approvalVars>>

-----------------------------------------------------------------------------
(* The walk (derivationClosure).  headers has every node already read, heights *)
(* the layers of derivation below every node already left, path the nodes in   *)
(* between, each a parent of the one before, and followed the derivation edges *)
(* that have been taken.                                                       *)

SourceClaim(n) == derivations[n] = {}
With(f, n, value) == [m \in DOMAIN f \cup {n} |-> IF m = n THEN value ELSE f[m]]
EdgesAmong(nodes) == UNION {{n} \X derivations[n] : n \in nodes}

\* Wrong variant: what was met once is never refused again.
MemoTrusted(walk, n) == FALSE

\* A node met again costs nothing, but the layers below it count again.
RefusedAgain(walk, n) == Len(walk.path) + walk.heights[n] > MaxLayers

RefusedFirst(walk, n) ==
    \/ Cardinality(walk.headers) = MaxClosure
    \/ walk.path = << >> /\ SourceClaim(n)
    \/ Cardinality(derivations[n]) > MaxAndParents
    \/ Cardinality(EdgesAmong(walk.headers \cup {n})) > MaxClosureEdges
    \/ ~SourceClaim(n) /\ Len(walk.path) = MaxLayers

Refuse(walk) == [walk EXCEPT !.ok = FALSE]
Enter(walk, n) == [walk EXCEPT !.headers = @ \cup {n}, !.path = Append(@, n)]
Follow(walk, n, p) == [walk EXCEPT !.followed = @ \cup {<<n, p>>}]

Height(n, heights) == IF SourceClaim(n) THEN 0 ELSE 1 + Max({heights[p] : p \in derivations[n]})
Leave(walk, n) ==
    [walk EXCEPT !.heights = With(@, n, Height(n, @)), !.path = Front(@)]

Visit(walk, n) ==
    IF n \in Range(walk.path) THEN Refuse(walk)
    ELSE IF n \in DOMAIN walk.heights THEN IF RefusedAgain(walk, n) THEN Refuse(walk) ELSE walk
    ELSE IF RefusedFirst(walk, n) THEN Refuse(walk) ELSE Enter(walk, n)

\* The parents of n that are still to be visited, in the order of their ids.
Due(walk, n) == {p \in derivations[n] : <<n, p>> \notin walk.followed}

Advance(walk) ==
    IF ~walk.ok \/ walk.path = << >> THEN walk
    ELSE LET n == Last(walk.path)
             p == Min(Due(walk, n))
         IN  IF Due(walk, n) = {} THEN Leave(walk, n) ELSE Visit(Follow(walk, n, p), p)

NoWalk == [ok |-> TRUE, headers |-> {}, heights |-> << >>, path |-> << >>, followed |-> {}]
Walk[k \in Nat] == [root \in DOMAIN derivations |->
    IF k = 0 THEN Visit(NoWalk, root) ELSE Advance(Walk[k - 1][root])]

\* Every step follows an edge or leaves a node, so the budgets bound the steps.
Closure(root) == Walk[MaxClosureEdges + MaxClosure][root]

-----------------------------------------------------------------------------
(* The second check, of the nodes that were loaded (validateRecursiveClosure): *)
(* the heights again, every node below the root, one rule per derivation.      *)

Layers[n \in DOMAIN derivations] == Height(n, Layers)

Reached(nodes, root) ==
    {n \in nodes : \A S \in SUBSET nodes :
        root \in S /\ (\A m \in S : derivations[m] \cap nodes \subseteq S) => n \in S}

SealedClosure(root, nodes) ==
    /\ \A n \in nodes : derivations[n] \subseteq nodes
    /\ Reached(nodes, root) = nodes
    /\ Layers[root] \in 1..MaxLayers

SealedBounds(nodes) ==
    /\ Cardinality(nodes) \in 2..MaxClosure
    /\ Cardinality(EdgesAmong(nodes)) <= MaxClosureEdges
    /\ \A n \in nodes : Cardinality(derivations[n]) <= MaxAndParents

DerivedAmong(nodes) == {n \in nodes : ~SourceClaim(n)}
RulesExact(nodes, rules) == rules = DerivedAmong(nodes)

SealedBasis(root, nodes, rules) ==
    SealedBounds(nodes) /\ SealedClosure(root, nodes) /\ RulesExact(nodes, rules)

-----------------------------------------------------------------------------
(* The candidates of the cut: its nodes paired with the one code claim.  The *)
(* report keeps the strongest, and a pair it leaves out cannot be reviewed.  *)

MethodStrength(n) ==
    CASE MentionsOf[n].qualified -> 3
      [] ~MentionsOf[n].qualified /\ MentionsOf[n].simple -> 2
      [] ~MentionsOf[n].qualified /\ ~MentionsOf[n].simple /\ MentionsOf[n].terms >= MinSharedTerms -> 1
      [] OTHER -> 0
Rank(n) == <<-MethodStrength(n), -MentionsOf[n].terms, n>>
Outranks(m, n) ==
    \E i \in 1..3 : Rank(m)[i] < Rank(n)[i] /\ \A j \in 1..i - 1 : Rank(m)[j] = Rank(n)[j]
InReport(n, nodes) ==
    /\ MethodStrength(n) > 0
    /\ Cardinality({m \in nodes : MethodStrength(m) > 0 /\ Outranks(m, n)}) < MaxClosure

\* loadRecursiveReviewInTx: what the reviewer is shown, nothing if it is refused.
Review(root, rules) ==
    LET nodes == Closure(root).headers
    IN  IF root \in DOMAIN derivations /\ Closure(root).ok
           /\ SealedBasis(root, nodes, rules) /\ InReport(root, nodes)
          THEN nodes ELSE {}

-----------------------------------------------------------------------------
(* Claims and approvals.                                                    *)

ImplementsInit(d) == derivations = d /\ ApprovalsInit

\* A claim is admitted over claims admitted before it, which never changes again.
AdmitClaim(n, parents) ==
    /\ n \notin DOMAIN derivations
    /\ parents \subseteq DOMAIN derivations
    /\ derivations' = With(derivations, n, parents)
    /\ UNCHANGED approvalVars

ImplementsAdmits == \E n \in SpecNodes : \E parents \in SUBSET DOMAIN derivations : AdmitClaim(n, parents)

\* What the approval a reads when it loads the review again.
Reloaded(a) ==
    LET want == approvals[a].want IN Review(want.pair, want.receipt.rules)

ImplementsApproves ==
    /\ \E a \in Approvers :
         \/ \E input \in ApprovalInputs : LoadReview(a, input, Review(input.root, input.rules))
         \/ BeginApproval(a, Reloaded(a))
         \/ CommitApproval(a) \/ DisturbApproval(a)
    /\ UNCHANGED derivations

-----------------------------------------------------------------------------
Ancestors(root) == Reached(DOMAIN derivations, root)

WithinBounds(root) ==
    /\ ~SourceClaim(root)
    /\ Cardinality(Ancestors(root)) <= MaxClosure
    /\ Cardinality(EdgesAmong(Ancestors(root))) <= MaxClosureEdges
    /\ \A n \in Ancestors(root) : Cardinality(derivations[n]) <= MaxAndParents
    /\ Layers[root] <= MaxLayers

\* Whatever the order in which parents are visited and ancestors shared, the
\* walk accepts a derived claim exactly when its whole ancestry is within the
\* bounds, and has then read all of that ancestry and nothing else; what it
\* accepts, the second check accepts too, and the report of so bounded a cut
\* never leaves the reviewed pair out; and once shown, a review stays as it is
\* until it is approved (derivationClosure, recursiveClosureHeight,
\* ProposeCandidates, admitReviewedRecursiveAttempt).
ReviewsExact ==
    /\ \A root \in DOMAIN derivations :
         LET walk == Closure(root) IN
         /\ walk.ok <=> WithinBounds(root)
         /\ walk.ok => /\ walk.headers = Ancestors(root)
                       /\ SealedBasis(root, walk.headers, DerivedAmong(Ancestors(root)))
                       /\ MethodStrength(root) > 0 => InReport(root, walk.headers)
    /\ \A a \in Approvers : approvals[a].phase = "answered" => approvals[a].result # "changed"

=============================================================================

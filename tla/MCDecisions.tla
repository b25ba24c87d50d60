---------------------------- MODULE MCDecisions ----------------------------
(* Instances of the admission writers, of materialization, of the implements   *)
(* reviews, of the logic resolver and of the read views.  Each behaviour is of *)
(* one of them: they share no row and no file.                                 *)
EXTENDS AdmissionLocks, ClaimMaterialization, LogicResolver, ReadViews, ImplementsReviews

CONSTANTS q1, q2, m1, m2, o1, o2, o3, o4, d2, t1, t2, r1, r2, e1, n1, n2, n3

\* Four statements of two texts over one or two spans.
TheTexts      == o1 :> t1 @@ o2 :> t1 @@ o3 :> t2 @@ o4 :> t2
TheRefs       == o1 :> {r1} @@ o2 :> {r1} @@ o3 :> {r1} @@ o4 :> {r1, r2}
TheExtractors == [o \in {o1, o2, o3, o4} |-> e1]
TheBases      == d2 :> o1

\* Nodes 1 and 2 state a1 and a1 => a2; 3 is derived from both and denies a2.
\* Rule 11 excludes a1 with a2; rule 12 contradicts itself.
Is(a)  == [atom |-> a, negated |-> FALSE]
Not(a) == [atom |-> a, negated |-> TRUE]
TheClauses == 1 :> {{Is(1)}} @@ 2 :> {{Not(1), Is(2)}} @@ 3 :> {{Not(2)}, {Is(1), Is(2)}}
              @@ 11 :> {{Not(1), Not(2)}} @@ 12 :> {{Is(1)}, {Not(1)}}
TheParents == 1 :> {} @@ 2 :> {} @@ 3 :> {1, 2}
Stand(x, y, z) == 1 :> x @@ 2 :> y @@ 3 :> z
Check(rules, core, standing) ==
    [query |-> "q", rules |-> rules, core |-> core, standing |-> standing, stale |-> FALSE]
TheRequests ==
    {Check({}, 64, Stand("current", "current", "current")),
     Check({11}, 64, Stand("current", "ambiguous", "unclassified")),
     Check({11}, 1, Stand("current", "current", "superseded")),
     Check({11}, 0, Stand("current", "expired", "current")),
     Check({11, 12}, 64, Stand("current", "current", "current")),
     Check({}, 64, Stand("unclassified", "current", "current")),
     [Check({}, 0, Stand("current", "current", "current")) EXCEPT !.stale = TRUE]}
TheProblems ==
    {[booleans |-> 1, integers |-> 1, clauses |-> {{1}},
      sums |-> {[terms |-> <<<<1, 2>>>>, relation |-> "<=", rhs |-> 1],
                [terms |-> <<<<1, 1>>, <<1, 1>>>>, relation |-> ">=", rhs |-> 0]}],
     [booleans |-> 0, integers |-> 1, clauses |-> {},
      sums |-> {[terms |-> <<<<1, -1>>>>, relation |-> "=", rhs |-> 1]}]}

\* n3 is derived from the two others, which contradict each other, and replaces n1.
TheDerivations == n1 :> {} @@ n2 :> {} @@ n3 :> {n1, n2}
Edge(from, relation, to) == [from |-> from, to |-> to, relation |-> relation]
TheEnds == 1 :> Edge(n1, "contradicts", n2) @@ 2 :> Edge(n1, "derived_from", n3)
           @@ 3 :> Edge(n2, "derived_from", n3) @@ 4 :> Edge(n3, "supersedes", n1)
Read(root, relations, depth, nodes, edges) ==
    [roots |-> {root}, relations |-> relations, depth |-> depth, nodes |-> nodes, edges |-> edges]
TheInputs == {Read(n1, {}, 1, 2, 4), Read(n1, {}, 2, 3, 4), Read(n1, {}, 2, 3, 2),
              Read(n2, {"contradicts"}, 1, 2, 1), Read(n3, {}, 0, 1, 0)}

\* Claim 1 names the symbol best; all share terms with it but claim 5.
Mention(qualified, simple, terms) == [qualified |-> qualified, simple |-> simple, terms |-> terms]
TheMentions == 1 :> Mention(TRUE, FALSE, 1) @@ 2 :> Mention(FALSE, TRUE, 2) @@ 3 :> Mention(FALSE, FALSE, 2)
               @@ 4 :> Mention(FALSE, FALSE, 3) @@ 5 :> Mention(FALSE, FALSE, 1)
\* For approvals: 2 is derived from 1, and 3 from both.
TheClaims == 1 :> {} @@ 2 :> {1} @@ 3 :> {1, 2}
Approve(request, root, rules, assertion) ==
    [request |-> request, root |-> root, rules |-> rules, assertion |-> assertion]
TheApprovals == {Approve(q1, 2, {2}, m1), Approve(q2, 2, {2}, m1), Approve(q2, 2, {2}, m2),
                 Approve(q1, 3, {2, 3}, m1), Approve(q1, 3, {3}, m1), Approve(q2, 1, {}, m1)}

VARIABLE part
vars == <<part, lockVars, materializationVars, resolverVars, readVars, implementsVars>>

Init ==
    /\ part \in {"locks", "materialization", "resolver", "views", "derivations", "approvals"}
    /\ LockInit /\ MaterializationInit /\ ResolverInit /\ ReadInit
    /\ ImplementsInit(IF part = "approvals" THEN TheClaims ELSE << >>)

Next ==
    /\ UNCHANGED part
    /\ \/ part = "locks" /\ LockNext
          /\ UNCHANGED <<materializationVars, resolverVars, readVars, implementsVars>>
       \/ part = "materialization" /\ MaterializationNext
          /\ UNCHANGED <<lockVars, resolverVars, readVars, implementsVars>>
       \/ part = "resolver" /\ ResolverNext
          /\ UNCHANGED <<lockVars, materializationVars, readVars, implementsVars>>
       \/ part = "views" /\ ReadNext
          /\ UNCHANGED <<lockVars, materializationVars, resolverVars, implementsVars>>
       \/ /\ \/ part = "derivations" /\ ImplementsAdmits
             \/ part = "approvals" /\ ImplementsApproves
          /\ UNCHANGED <<lockVars, materializationVars, resolverVars, readVars>>

Spec == Init /\ [][Next]_vars

SessionSymmetry == Permutations(Sessions) \cup Permutations(Readers) \cup Permutations(Approvers)

=============================================================================

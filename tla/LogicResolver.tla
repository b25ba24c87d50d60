--------------------------- MODULE LogicResolver ---------------------------
(***************************************************************************)
(* The consistency verdict of internal/evidenceingestion (consistency_     *)
(* check.go, consistency_policy.go, consistency_localization.go) and the   *)
(* pinned solvers it relies on (logicresolver).  A caller selects the      *)
(* members of a view that take part, compiles their conditions and the     *)
(* rules to one formula, has the rules and then the whole formula solved,  *)
(* and may shrink a conflict to a core by deleting one condition at a time. *)
(*                                                                         *)
(* Solvers are other programs: they may answer anything.  An assignment is *)
(* evaluated against the formula in memory; a proof is checked by a second *)
(* program against the file the solver was given, in a directory that is   *)
(* named after the query and shared by all calls of one runner.            *)
(*                                                                         *)
(* Conditions are numbers, so that nodes sort before rules as their        *)
(* prefixes do.  A failed call, a deadline and a size limit end a check    *)
(* the same way.                                                           *)
(***************************************************************************)
EXTENDS Integers, Sequences, FiniteSets, SequencesExt

CONSTANTS Deciders,       \* callers of CheckCanonicalConsistency and its diagnosis
          Members,        \* node ids of the view
          RuleIds,        \* rule ids
          ClausesOf,      \* the clauses of each condition: sets of [atom, negated]
          BasesOf,        \* the parents of each derived member, {} for a source claim
          CheckRequests,  \* what the callers may ask, of CheckRequest
          Askers,         \* callers of the Z3 runner
          Problems        \* what they ask, of Problem

Conditions == Members \cup RuleIds
AllAtoms == {l.atom : l \in UNION UNION {ClausesOf[x] : x \in Conditions}}

\* How the lineages and the validity window of a member leave it.
Standing == {"current", "ambiguous", "superseded", "expired", "unclassified"}

\* core: the budget of a diagnosis, 0 for a check without one.  stale: the view
\* is not the one the caller inspected, or its conditions do not cover it.
CheckRequest == [query : STRING, rules : SUBSET RuleIds, core : 0..64,
                 standing : [Members -> Standing], stale : BOOLEAN]

Problem == [booleans : Nat, integers : Nat,
            clauses : SUBSET (SUBSET Int),
            sums : SUBSET [terms : Seq(Nat \X Int), relation : {"=", "<=", ">="}, rhs : Int]]

ASSUME ResolverAssumption ==
    /\ Members \subseteq Nat /\ RuleIds \subseteq Nat
    /\ \A x \in Conditions : ClausesOf[x] # {}
    /\ \A l \in UNION UNION {ClausesOf[x] : x \in Conditions} : l.atom \in Nat /\ l.negated \in BOOLEAN
    /\ IsFiniteSet(AllAtoms)
    /\ \A m \in Members : BasesOf[m] \subseteq Members /\ \A b \in BasesOf[m] : b < m
    /\ \A m \in Members, r \in RuleIds : m < r
    /\ CheckRequests \subseteq CheckRequest /\ Problems \subseteq Problem

VARIABLES check,    \* check[c]: what caller c is doing
          queries,  \* the query directories: the formula and the proof they hold
          ask       \* ask[a]: what asker a of the Z3 runner is doing

resolverVars == <<check, queries, ask>>

ResolverInit ==
    /\ check = [c \in Deciders |-> [pc |-> "idle"]]
    /\ queries = << >>
    /\ ask = [a \in Askers |-> [pc |-> "idle"]]

-----------------------------------------------------------------------------
(* The members that take part.                                              *)

\* What a derived claim takes from its parents.
OfParents(states) == IF "excluded" \in states THEN "excluded"
                     ELSE IF "blocked" \in states THEN "blocked" ELSE "included"

Selection[m \in Members] ==
    [standing \in [Members -> Standing] |->
       IF standing[m] \in {"superseded", "expired"} THEN "excluded"
       ELSE IF BasesOf[m] # {} THEN OfParents({Selection[b][standing] : b \in BasesOf[m]})
       ELSE IF standing[m] = "unclassified" THEN "blocked" ELSE "included"]

Selected(q) == {m \in Members : Selection[m][q.standing] = "included"}
AllKnown(q) == \A m \in Members : Selection[m][q.standing] # "blocked"

-----------------------------------------------------------------------------
(* The formula: clauses of signed variable numbers, each with its origin.   *)

\* Variables are numbered over all the atoms of the request at once.
Number(conds) ==
    LET used == {l.atom : l \in UNION UNION {ClausesOf[x] : x \in conds}}
    IN  [a \in used |-> Cardinality({b \in used : b <= a})]

Encoded(conds, number) ==
    UNION {{[origin |-> x,
             lits |-> {IF l.negated THEN - number[l.atom] ELSE number[l.atom] : l \in clause}]
            : clause \in ClausesOf[x]} : x \in conds}

True(values, lit) == values[IF lit < 0 THEN -lit ELSE lit] = (lit > 0)

CheckAssignment(values, count, clauses) ==
    /\ DOMAIN values = 1..count
    /\ \A lits \in clauses : \E lit \in lits : True(values, lit)

Asked(q) == q.rules \cup Selected(q)
Count(q) == Cardinality(DOMAIN Number(Asked(q)))
Compiled(q, conds) == Encoded(conds, Number(Asked(q)))

Least(conds) == CHOOSE x \in conds : \A y \in conds : x <= y

\* The conditions left in the trial that deletes the next of them.
Trial(k) == k.groups \ {Least(k.untried)}

\* The conditions whose satisfiability caller k asks for next.
Question(k) == CASE k.stage = "rules" -> k.q.rules
                 [] k.stage = "declarations" -> Asked(k.q)
                 [] k.stage = "core" -> Trial(k)

Formula(k) == Compiled(k.q, Question(k))
QueryOf(k) == <<k.q.query, k.stage, k.step>>

-----------------------------------------------------------------------------
(* Checks.                                                                  *)

Verdict(q, outcome, core, minimal) ==
    [pc |-> "done", q |-> q, outcome |-> outcome, core |-> core, minimal |-> minimal]

StartCheck(c, q) ==
    /\ check[c].pc = "idle"
    /\ check' = [check EXCEPT ![c] =
         IF q.stale \/ ~ AllKnown(q) \/ Selected(q) = {}
         THEN Verdict(q, "inconclusive", {}, FALSE)
         ELSE [pc |-> "reserve", q |-> q, stage |-> "rules", step |-> 0,
               groups |-> {}, untried |-> {}, outcome |-> "inconclusive"]]
    /\ UNCHANGED <<queries, ask>>

\* Every failure leaves what was decided before it.
Undecided(k) == Verdict(k.q, k.outcome, k.groups, FALSE)

Fail(c) == check' = [check EXCEPT ![c] = Undecided(@)]

\* Wrong variant: an existing directory is used again.
AnyQuery(k) == TRUE

\* The directory of a query must be new.
NewQuery(k) == QueryOf(k) \notin DOMAIN queries

Reserve(c) ==
    LET k == check[c]
    IN  /\ k.pc = "reserve"
        /\ IF NewQuery(k)
           THEN /\ queries' = [d \in DOMAIN queries \cup {QueryOf(k)} |->
                     IF d = QueryOf(k) THEN [formula |-> Formula(k), proof |-> "none"]
                     ELSE queries[d]]
                /\ check' = [check EXCEPT ![c].pc = "solver"]
           ELSE Fail(c) /\ UNCHANGED queries
        /\ UNCHANGED ask

\* A conflict is localized if the caller asked for it.
Decided(k, outcome, conds) ==
    IF k.q.core = 0 THEN Verdict(k.q, outcome, conds, FALSE)
    ELSE [k EXCEPT !.pc = "reserve", !.stage = "core", !.step = 1, !.outcome = outcome,
                   !.groups = conds, !.untried = conds]

\* The next deletion, the end of the list or of the budget.
Deleted(k, groups) ==
    LET untried == k.untried \ {Least(k.untried)}
    IN  CASE untried = {} -> Verdict(k.q, k.outcome, groups, TRUE)
          [] untried # {} /\ k.step = k.q.core -> Verdict(k.q, k.outcome, groups, FALSE)
          [] untried # {} /\ k.step # k.q.core ->
               [k EXCEPT !.pc = "reserve", !.step = k.step + 1, !.groups = groups, !.untried = untried]

Answered(k, sat) ==
    CASE k.stage = "rules" /\ sat -> [k EXCEPT !.pc = "reserve", !.stage = "declarations"]
      [] k.stage = "rules" /\ ~sat -> Decided(k, "invalid_rules", k.q.rules)
      [] k.stage = "declarations" /\ sat -> Verdict(k.q, "compatible", {}, FALSE)
      [] k.stage = "declarations" /\ ~sat -> Decided(k, "conflict", Asked(k.q))
      [] k.stage = "core" -> Deleted(k, IF sat THEN k.groups ELSE Trial(k))

\* The solver claims satisfiability and prints an assignment, perhaps a partial one.
SolverSaysSat(c, values) ==
    /\ check[c].pc = "solver"
    /\ check' = [check EXCEPT ![c] =
         IF CheckAssignment(values, Count(@.q), {l.lits : l \in Formula(@)})
         THEN Answered(@, TRUE) ELSE Undecided(@)]
    /\ UNCHANGED <<queries, ask>>

Unsatisfiable(count, clauses) ==
    \A values \in [1..count -> BOOLEAN] : ~ CheckAssignment(values, count, clauses)

\* The solver claims unsatisfiability.  It can prove that of the file it reads,
\* if it is so; the proof it leaves may also be of nothing at all.
SolverSaysUnsat(c, proof) ==
    LET d == QueryOf(check[c])
    IN  /\ check[c].pc = "solver"
        /\ proof = "good" =>
             Unsatisfiable(Count(check[c].q), {l.lits : l \in queries[d].formula})
        /\ queries' = [queries EXCEPT ![d].proof = proof]
        /\ IF proof = "none" THEN Fail(c) ELSE check' = [check EXCEPT ![c].pc = "checker"]
        /\ UNCHANGED ask

\* The proof checker, external, verifies a proof of the formula in the file.
CheckProof(c) ==
    LET d == QueryOf(check[c])
    IN  /\ check[c].pc = "checker"
        /\ check' = [check EXCEPT ![c] =
             IF queries[d].proof = "good" THEN Answered(@, FALSE) ELSE Undecided(@)]
        /\ UNCHANGED <<queries, ask>>

\* No answer, UNKNOWN, an answer outside the protocol, a limit or the deadline.
NoAnswer(c) ==
    /\ check[c].pc \in {"reserve", "solver", "checker"}
    /\ Fail(c)
    /\ UNCHANGED <<queries, ask>>

-----------------------------------------------------------------------------
(* The Z3 runner: a first process answers, a second one gives the model.    *)

Total(s, ints) ==
    FoldSeq(LAMBDA t, n : n + t[2] * ints[t[1]], 0, s.terms)

Holds(s, n) == CASE s.relation = "=" -> n = s.rhs
                 [] s.relation = "<=" -> n <= s.rhs
                 [] s.relation = ">=" -> n >= s.rhs

CheckModel(p, bools, ints) ==
    /\ CheckAssignment(bools, p.booleans, p.clauses)
    /\ DOMAIN ints = 1..p.integers
    /\ \A s \in p.sums : Holds(s, Total(s, ints))

AskZ3(a, p) ==
    /\ ask[a].pc = "idle"
    /\ ask' = [ask EXCEPT ![a] = [pc |-> "first", p |-> p]]
    /\ UNCHANGED <<check, queries>>

\* UNSAT comes without a proof, so whoever requires one refuses it.
Z3Answers(a, says) ==
    /\ ask[a].pc = "first"
    /\ ask' = [ask EXCEPT ![a] = IF says = "sat" THEN [@ EXCEPT !.pc = "model"]
                                 ELSE [pc |-> "refused"]]
    /\ UNCHANGED <<check, queries>>

Z3Models(a, bools, ints) ==
    /\ ask[a].pc = "model"
    /\ ask' = [ask EXCEPT ![a] = IF CheckModel(@.p, bools, ints) THEN [@ EXCEPT !.pc = "sat"]
                                 ELSE [pc |-> "refused"]]
    /\ UNCHANGED <<check, queries>>

-----------------------------------------------------------------------------
\* Assignments to the first variables, up to n of them.
Assignments(n) == UNION {[1..k -> BOOLEAN] : k \in 0..n}

ResolverNext ==
    \/ \E c \in Deciders :
         \/ \E q \in CheckRequests : StartCheck(c, q)
         \/ Reserve(c) \/ CheckProof(c) \/ NoAnswer(c)
         \/ \E values \in Assignments(Cardinality(AllAtoms)) : SolverSaysSat(c, values)
         \/ \E proof \in {"none", "bad", "good"} : SolverSaysUnsat(c, proof)
    \/ \E a \in Askers :
         \/ \E p \in Problems : AskZ3(a, p)
         \/ \E says \in {"sat", "unsat", "unknown"} : Z3Answers(a, says)
         \/ \E bools \in Assignments(1), ints \in [1..1 -> -1..1] : Z3Models(a, bools, ints)

-----------------------------------------------------------------------------
(* Correctness.                                                             *)

\* One interpretation makes all these conditions true, whatever their encoding.
Joint(conds) ==
    \E truth \in [AllAtoms -> BOOLEAN] :
      \A x \in conds : \A clause \in ClausesOf[x] :
        \E l \in clause : truth[l.atom] # l.negated

\* A member takes part when it and everything it is derived from still stand.
Stands[m \in Members] ==
    [standing \in [Members -> Standing] |->
       /\ standing[m] \notin {"superseded", "expired"}
       /\ BasesOf[m] = {} => standing[m] # "unclassified"
       /\ \A b \in BasesOf[m] : Stands[b][standing]]

\* Whatever the solvers answer and whoever else uses the runner, a verdict of
\* checkConsistency is true of the members that stand: compatible conditions
\* have a common model, a conflict is of consistent rules, the conditions
\* diagnoseConsistency names contradict each other, and when it calls them
\* minimal, no proper part of them does.
VerdictsHold == \A c \in Deciders : check[c].pc = "done" =>
    LET k == check[c]
        live == {m \in Members : Stands[m][k.q.standing]}
    IN  /\ k.outcome = "compatible" => Joint(k.q.rules \cup live)
        /\ k.outcome = "conflict" => /\ Joint(k.q.rules)
                                     /\ k.core \subseteq k.q.rules \cup live
                                     /\ ~ Joint(k.core)
        /\ k.outcome = "invalid_rules" => k.core \subseteq k.q.rules /\ ~ Joint(k.core)
        /\ k.minimal => \A x \in k.core : Joint(k.core \ {x})

=============================================================================

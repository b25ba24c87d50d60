----------------------------- MODULE MCRecords -----------------------------
(* Instances of source intake, lineages, generations, governance and core     *)
(* records.  Each behaviour is of one of them, over rows the others do not    *)
(* touch; bindings and external records, which share none either, are two.    *)
EXTENDS SourceIntake, SupersessionLineages, SourceGenerations, CoreRecords,
        EvidenceGovernance, TLC

CONSTANTS p1, p2, p3, a1, a2, a3, v1, v2, v3, da, db, dx, f1, f2,
          g1, g2, h1, j1, j2

\* Three statements, each of a claim of its own, about one object.
TheClaims  == p1 :> a1 @@ p2 :> a2 @@ p3 :> a3
TheObjects == [a \in {a1, a2, a3} |-> "object"]

\* The second commit changes a file into a superset of it, the third removes a
\* file and breaks the other.
TheTrees == v1 :> (f1 :> da @@ f2 :> da) @@ v2 :> (f1 :> da @@ f2 :> db) @@ v3 :> (f2 :> dx)
TheFacts == da :> {da} @@ db :> {da, db} @@ dx :> {}

\* Two source claims and one derived from the first, which expires.
TheParents   == h1 :> {g1}
TheSnapshots == g1 :> j1 @@ g2 :> j2 @@ h1 :> j2
TheFrom      == [c \in {g1, g2, h1} |-> 0]
TheTo        == g1 :> 1 @@ g2 :> 9 @@ h1 :> 9
TheFindings  == {"retention" :> "fail" @@ "coverage" :> "fail", "retention" :> "pass"}

\* Explores no further than two changes by other writers or the clock: what
\* lies one step beyond is still checked.
FewMoves == Cardinality({c \in GovClaims : currency[c] # "no lineage"}) + Cardinality(conflicts) + now <= 2

VARIABLE part
vars == <<part, intakeVars, lineageVars, generationVars, recordVars, governanceVars>>

Init ==
    /\ part \in {"intake", "lineages", "generations", "bindings", "reports", "governance"}
    /\ IntakeInit /\ LineageInit /\ GenerationInit /\ RecordInit /\ GovernanceInit

Next ==
    /\ UNCHANGED part
    /\ \/ part = "intake" /\ IntakeNext /\ UNCHANGED <<lineageVars, generationVars, recordVars, governanceVars>>
       \/ part = "lineages" /\ LineageNext /\ UNCHANGED <<intakeVars, generationVars, recordVars, governanceVars>>
       \/ part = "generations" /\ GenerationNext /\ UNCHANGED <<intakeVars, lineageVars, recordVars, governanceVars>>
       \/ part = "bindings" /\ BindingNext /\ UNCHANGED <<intakeVars, lineageVars, generationVars, governanceVars>>
       \/ part = "reports" /\ ReportNext /\ UNCHANGED <<intakeVars, lineageVars, generationVars, governanceVars>>
       \/ part = "governance" /\ GovernanceNext /\ UNCHANGED <<intakeVars, lineageVars, generationVars, recordVars>>

Spec == Init /\ [][Next]_vars

=============================================================================

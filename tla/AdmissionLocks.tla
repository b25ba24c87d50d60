-------------------------- MODULE AdmissionLocks --------------------------
(***************************************************************************)
(* The transactions that decide about evidence, as the locks they take and *)
(* the snapshot they decide on.  Every writer of canonical rows ends up    *)
(* holding the governance head, the single row that triggers move with     *)
(* every canonical write; around it each writer locks its proposal, the    *)
(* advisory derivation lock, the supersession head or the claims it names, *)
(* and the order differs from writer to writer.  A writer under REPEATABLE *)
(* READ that obtains a row changed since its snapshot fails with 40001 and *)
(* starts over; a cycle of waiting writers is broken by the database.      *)
(***************************************************************************)
EXTENDS Naturals, FiniteSets, Sequences

CONSTANTS
    Sessions,             \* concurrent transactions, each serving one call
    SourceProposals,      \* pending statements with source references
    DerivedProposals,     \* pending derived claims; every claim is a parent
    AdmittedProposals,    \* statements that a supersession admitted earlier
    Contradictions,       \* pending contradiction proposals between claims
    Claims,               \* canonical claims, first materialised by AdmittedProposals
    LockAttempts          \* attempts of a writer that retries

ASSUME LockAssumption == LockAttempts \in Nat \ {0} /\ IsFiniteSet(Claims)

VARIABLES
    decided,    \* the rows other transactions see: outcome of each proposal, number of
                \* decisions, head revision, unusable claims, derived claims in current use
    sessions    \* for each session its job, the locks it holds, its snapshot and attempt
lockVars == <<decided, sessions>>

Proposals0 == SourceProposals \union DerivedProposals \union AdmittedProposals \union Contradictions

\* Rows of different tables are different rows.
ASSUME RowsAssumption ==
    /\ Claims \cap Proposals0 = {}
    /\ Contradictions \cap (SourceProposals \union DerivedProposals \union AdmittedProposals) = {}
    /\ {"governance head", "derivation", "supersession head"} \cap (Claims \union Proposals0) = {}

Update(row) == <<row, "update">>
Share(row) == <<row, "share">>
GovernanceHead == Update("governance head")
Shares(rows) == CHOOSE s \in [1..Cardinality(rows) -> {Share(r) : r \in rows}] :
                    \A r \in rows : \E i \in DOMAIN s : s[i] = Share(r)

-----------------------------------------------------------------------------
(* The writers.  A job names the row it decides, the locks in the order it  *)
(* takes them while that row is pending, its isolation and what it retries. *)

Job(writer, row, locks, repeatable, retried) ==
    [writer |-> writer, row |-> row, locks |-> locks, repeatable |-> repeatable, retried |-> retried]

Serialization == {"40001"}
AnyConflict == {"40001", "40P01"}

Derivation(p) == <<Update(p), Update("derivation"), GovernanceHead>> \o Shares(Claims)

OrdinaryAdmissions ==
    {Job("ordinary", p, <<Update(p), GovernanceHead>>, FALSE, {}) : p \in SourceProposals \union AdmittedProposals}
    \union {Job("ordinary", p, Derivation(p), FALSE, {}) : p \in DerivedProposals}
OrdinaryDispositions ==
    {Job("disposition", p, <<Update(p), GovernanceHead>>, FALSE, {}) : p \in SourceProposals \union DerivedProposals}
ReviewedAdmissions ==
    {Job("reviewed", p, <<Update(p), GovernanceHead>>, TRUE, Serialization) : p \in SourceProposals}
ReviewedDispositions ==
    {Job("reviewed disposition", p, <<Update(p), GovernanceHead>>, TRUE, Serialization) : p \in SourceProposals \union DerivedProposals}
EndpointAdmissions ==
    {Job("endpoint", p, Derivation(p), TRUE, Serialization) : p \in DerivedProposals}
HistoricalDerivations ==
    {Job("historical", p, Derivation(p), TRUE, Serialization) : p \in DerivedProposals}
SupersessionsHeadFirst == UNION
    {{Job("supersession", p, <<GovernanceHead, Update(p), Update("supersession head"), Update(c)>>, TRUE, Serialization) :
        c \in Claims} : p \in SourceProposals \union AdmittedProposals}
Supersessions == UNION
    {{Job("supersession", p, <<Update(p), GovernanceHead, Update("supersession head"), Update(c)>>, TRUE, Serialization) :
        c \in Claims} : p \in SourceProposals \union AdmittedProposals}
GovernanceDecisions ==
    {Job("governance", c, <<GovernanceHead, Share(c)>>, TRUE, Serialization) : c \in Claims}
Registrations ==
    {Job("registration", c, <<GovernanceHead, Share(c)>>, TRUE, Serialization) : c \in Claims}
References == UNION
    {{Job("references", c, <<GovernanceHead, Share(c), Share(o)>>, TRUE, AnyConflict) : c \in Claims} : o \in AdmittedProposals}
Implements == UNION
    {{Job("implements", c, <<Share(c), Share(o), GovernanceHead>>, TRUE, AnyConflict) : c \in Claims} : o \in AdmittedProposals}
ContradictionSubmissions ==
    {Job("submission", k, Shares(Claims), FALSE, {}) : k \in Contradictions}
NativeContradictions ==
    {Job("native contradiction", k, <<Update(k)>> \o Shares(Claims) \o <<GovernanceHead>>, FALSE, {}) : k \in Contradictions}
ContradictionDispositions ==
    {Job("contradiction disposition", k, <<Update(k)>>, FALSE, {}) : k \in Contradictions}
ReviewedContradictions ==
    {Job("reviewed contradiction", k, <<GovernanceHead>> \o Shares(Claims) \o <<Update(k)>>, TRUE, Serialization) : k \in Contradictions}

Jobs == UNION {OrdinaryAdmissions, OrdinaryDispositions, ReviewedAdmissions, ReviewedDispositions,
               EndpointAdmissions, HistoricalDerivations, Supersessions, GovernanceDecisions, Registrations,
               References, Implements, ContradictionSubmissions, NativeContradictions,
               ContradictionDispositions, ReviewedContradictions}

\* The writers whose order has been aligned.  The two others take rows first and the head last.
Unaligned == {"implements", "native contradiction"}

-----------------------------------------------------------------------------
Idle == [phase |-> "idle"]
Ended == [phase |-> "ended"]
Running(s) == sessions[s].phase = "running"
Begun(job, attempt) == [phase |-> "running", job |-> job, held |-> 0, seen |-> decided, attempt |-> attempt]

LockInit ==
    /\ decided = [outcome |-> [p \in Proposals0 |-> IF p \in AdmittedProposals THEN "decided" ELSE "pending"],
                  decisions |-> [p \in Proposals0 |-> IF p \in AdmittedProposals THEN 1 ELSE 0],
                  revision |-> 0, unusable |-> {}, inUse |-> {}]
    /\ sessions = [s \in Sessions |-> Idle]

Held(s) == {sessions[s].job.locks[i] : i \in 1..sessions[s].held}
Wants(s) == sessions[s].job.locks[sessions[s].held + 1]
Complete(s) == sessions[s].held = Len(sessions[s].job.locks)
Conflicts(l, m) == l[1] = m[1] /\ "update" \in {l[2], m[2]}
Blockers(s) ==
    IF ~Running(s) \/ Complete(s) THEN {}
    ELSE {t \in Sessions \ {s} : Running(t) /\ \E l \in Held(t) : Conflicts(l, Wants(s))}
\* Sessions each of which waits for another of them.
Stuck(S) == S # {} /\ \A s \in S : Blockers(s) \cap S # {}

Begin(s, job) ==
    /\ sessions[s] = Idle
    /\ sessions' = [sessions EXCEPT ![s] = Begun(job, 1)]
    /\ UNCHANGED decided

MovedRow(s, lock) ==
    /\ sessions[s].job.repeatable
    /\ lock[2] = "update" /\ lock[1] \in Proposals0
    /\ decided.outcome[lock[1]] # sessions[s].seen.outcome[lock[1]]
\* A row under REPEATABLE READ that another transaction has changed since the snapshot.
Moved(s, lock) ==
    /\ sessions[s].job.repeatable
    /\ lock[2] = "update"
    /\ \/ lock = GovernanceHead /\ decided.revision # sessions[s].seen.revision
       \/ /\ lock[1] \in Proposals0
          /\ decided.outcome[lock[1]] # sessions[s].seen.outcome[lock[1]]

Failed(s, code) ==
    sessions' = [sessions EXCEPT ![s] =
        IF code \in @.job.retried /\ @.attempt < LockAttempts THEN Begun(@.job, @.attempt + 1) ELSE Ended]

\* The stored outcome as of the snapshot, what a joined SELECT FOR UPDATE would have read.
PendingWhenSeen(s, lock) == lock[1] \in Proposals0 => sessions[s].seen.outcome[lock[1]] = "pending"

\* A decided proposal is answered from what is stored: a replay or a conflict.
StillPending(s, lock) == lock[1] \in Proposals0 => decided.outcome[lock[1]] = "pending"

Lock(s) ==
    /\ Running(s) /\ ~Complete(s) /\ Blockers(s) = {}
    /\ ~Moved(s, Wants(s))
    /\ sessions' = [sessions EXCEPT ![s] =
            IF Wants(s)[2] = "update" /\ ~StillPending(s, Wants(s)) THEN Ended ELSE [sessions[s] EXCEPT !.held = @ + 1]]
    /\ UNCHANGED decided

SerializationFailure(s) ==
    /\ Running(s) /\ ~Complete(s) /\ Blockers(s) = {}
    /\ Moved(s, Wants(s))
    /\ Failed(s, "40001")
    /\ UNCHANGED decided

DeadlockVictim(s) ==
    /\ \E S \in SUBSET Sessions : s \in S /\ Stuck(S)
    /\ Failed(s, "40P01")
    /\ UNCHANGED decided

\* The call is cancelled, or the connection lost, before the commit.
Rollback(s) ==
    /\ Running(s)
    /\ sessions' = [sessions EXCEPT ![s] = Ended]
    /\ UNCHANGED decided

-----------------------------------------------------------------------------
Decide(d, p) == [d EXCEPT !.outcome = [d.outcome EXCEPT ![p] = "decided"],
                          !.decisions = [d.decisions EXCEPT ![p] = @ + 1]]
Touched(d) == [d EXCEPT !.revision = @ + 1]

\* Only a reviewed derived claim for current use asks whether its parents may be used.
GuardCurrentUse(s) == sessions[s].seen.unusable = {}

Effects(s) ==
    LET job == sessions[s].job IN
    CASE job.writer \in {"ordinary", "disposition", "reviewed", "reviewed disposition", "historical",
                         "native contradiction", "reviewed contradiction"} ->
            {Touched(Decide(decided, job.row))}
      [] job.writer = "endpoint" ->
            IF GuardCurrentUse(s) THEN {Touched([Decide(decided, job.row) EXCEPT !.inUse = @ \union {job.row}])} ELSE {decided}
      [] job.writer = "supersession" ->
            {Touched([Decide(decided, job.row) EXCEPT !.unusable = @ \union {job.locks[4][1]}])}
      [] job.writer = "governance" ->
            {Touched([decided EXCEPT !.unusable = @ \union {job.row}]), Touched([decided EXCEPT !.unusable = @ \ {job.row}])}
      [] job.writer \in {"registration", "references", "implements"} -> {Touched(decided)}
      [] job.writer = "contradiction disposition" -> {Decide(decided, job.row)}
      [] job.writer = "submission" -> {decided}

Commit(s) ==
    /\ Running(s) /\ Complete(s)
    /\ decided' \in Effects(s)
    /\ sessions' = [sessions EXCEPT ![s] = Ended]

LockNext ==
    \E s \in Sessions :
        \/ \E job \in Jobs : Begin(s, job)
        \/ Lock(s)
        \/ SerializationFailure(s)
        \/ DeadlockVictim(s)
        \/ Rollback(s)
        \/ Commit(s)

LockSpec == LockInit /\ [][LockNext]_lockVars

-----------------------------------------------------------------------------
(* Writers that decide about the same evidence at the same time may wait    *)
(* for each other, but never in a circle, unless one of them admits an      *)
(* implements relation or decides a contradiction without a review: these   *)
(* lock claims or the contradiction before the governance head.             *)
AlignedNeverDeadlock ==
    \A S \in SUBSET Sessions : Stuck(S) => \E s \in S : sessions[s].job.writer \in Unaligned

(* However many writers reach for a proposal or a contradiction, through    *)
(* whichever of their tools, one of them decides it and the rest are        *)
(* answered from that decision.                                             *)
DecidedOnce ==
    \A p \in Proposals0 : decided.decisions[p] = IF decided.outcome[p] = "pending" THEN 0 ELSE 1

(* A derived claim reviewed for current use commits only while none of its  *)
(* parents is withdrawn or superseded, even when the withdrawal commits     *)
(* after the review has been loaded.                                        *)
CurrentUseHolds == [][decided'.inUse # decided.inUse => decided.unusable = {}]_lockVars

=============================================================================

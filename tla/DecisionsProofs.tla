-------------------------- MODULE DecisionsProofs --------------------------
(* Theorems about the writers that decide about evidence, the rows an         *)
(* admission writes, the read views, the reviews and approvals of relations   *)
(* and the verdicts of checks, for any number of concurrent transactions,     *)
(* proposals, contradictions and claims, any views and any formulas.          *)
EXTENDS AdmissionLocks, ClaimMaterialization, LogicResolver, ReadViews, ImplementsReviews,
        FiniteSetTheorems, WellFoundedInduction, TLAPS

-----------------------------------------------------------------------------
(* What a writer locks.                                                       *)

LockedRows == Proposals0 \cup Claims \cup {"governance head", "derivation", "supersession head"}
Locks == LockedRows \X {"update", "share"}

LEMMA RowLocks == \A p \in Proposals0 \cup Claims : Update(p) \in Locks /\ Share(p) \in Locks
  BY DEF Update, Share, Locks, LockedRows

LEMMA SharesAreLocks == Shares(Claims) \in Seq(Locks)
<1> DEFINE n == Cardinality(Claims)
           shared == {Share(r) : r \in Claims}
<1>1. n \in Nat /\ ExistsBijection(1..n, Claims)
  BY FS_CardinalityType, LockAssumption
<1>2. PICK f \in [1..n -> Claims] : \A r \in Claims : \E i \in 1..n : f[i] = r
  BY <1>1 DEF ExistsBijection, Bijection, Injection, Surjection
<1>3. \E s \in [1..n -> shared] : \A r \in Claims : \E i \in DOMAIN s : s[i] = Share(r)
  <2> DEFINE s == [i \in 1..n |-> Share(f[i])]
  <2>1. s \in [1..n -> shared]
    BY <1>2
  <2>2. \A r \in Claims : \E i \in DOMAIN s : s[i] = Share(r)
    BY <1>2
  <2> QED BY <2>1, <2>2
<1>4. Shares(Claims) \in [1..n -> shared]
  BY <1>3 DEF Shares
<1>5. shared \subseteq Locks
  BY RowLocks
<1>6. \A S, T, m : S \subseteq T /\ m \in Nat => [1..m -> S] \subseteq Seq(T)
  OBVIOUS
<1> QED BY <1>1, <1>4, <1>5, <1>6

Deciders0 == {"ordinary", "disposition", "reviewed", "reviewed disposition", "historical", "endpoint",
              "supersession", "native contradiction", "reviewed contradiction", "contradiction disposition"}

Writers == Deciders0 \cup {"governance", "registration", "references", "implements", "submission"}

Locked(locks, lock) == \E i \in 1..Len(locks) : locks[i] = lock

\* Every writer that decides a row locks it, every writer that moves the head
\* locks the head, and who judges current use reads one snapshot.
WellLocked(who, row, locks, repeatable) ==
    /\ who \in Writers /\ locks \in Seq(Locks)
    /\ who \in Deciders0 => row \in Proposals0 /\ Locked(locks, Update(row))
    /\ who \notin {"submission", "contradiction disposition"} => Locked(locks, GovernanceHead)
    /\ who = "endpoint" => repeatable
    /\ who = "supersession" => locks[4][1] \in Claims
    /\ who = "governance" => row \in Claims

JobFits(job) == WellLocked(job.writer, job.row, job.locks, job.repeatable)

LEMMA FitsIfWellLocked ==
    ASSUME NEW who, NEW row, NEW locks, NEW repeatable, NEW retried,
           WellLocked(who, row, locks, repeatable)
    PROVE  JobFits(Job(who, row, locks, repeatable, retried))
  BY DEF JobFits, Job

LEMMA HeadIsLock == GovernanceHead \in Locks /\ Update("derivation") \in Locks /\ Update("supersession head") \in Locks
  BY DEF GovernanceHead, Update, Locks, LockedRows

LEMMA OneLock ==
    ASSUME NEW a \in Locks
    PROVE  <<a>> \in Seq(Locks) /\ Locked(<<a>>, a)
<1>1. <<a>> \in Seq(Locks) /\ Len(<<a>>) = 1 /\ <<a>>[1] = a
  OBVIOUS
<1> QED BY <1>1 DEF Locked

LEMMA TwoLocks ==
    ASSUME NEW a \in Locks, NEW b \in Locks
    PROVE  <<a, b>> \in Seq(Locks) /\ Locked(<<a, b>>, a) /\ Locked(<<a, b>>, b)
<1>1. <<a, b>> \in Seq(Locks) /\ Len(<<a, b>>) = 2 /\ <<a, b>>[1] = a /\ <<a, b>>[2] = b
  OBVIOUS
<1> QED BY <1>1 DEF Locked

LEMMA ThreeLocks ==
    ASSUME NEW a \in Locks, NEW b \in Locks, NEW c \in Locks
    PROVE  <<a, b, c>> \in Seq(Locks) /\ \A x \in {a, b, c} : Locked(<<a, b, c>>, x)
<1>1. <<a, b, c>> \in Seq(Locks) /\ Len(<<a, b, c>>) = 3
  OBVIOUS
<1>2. <<a, b, c>>[1] = a /\ <<a, b, c>>[2] = b /\ <<a, b, c>>[3] = c
  OBVIOUS
<1> QED BY <1>1, <1>2 DEF Locked

LEMMA FourLocks ==
    ASSUME NEW a \in Locks, NEW b \in Locks, NEW c \in Locks, NEW d \in Locks
    PROVE  /\ <<a, b, c, d>> \in Seq(Locks) /\ <<a, b, c, d>>[4] = d
           /\ \A x \in {a, b, c, d} : Locked(<<a, b, c, d>>, x)
<1>1. <<a, b, c, d>> \in Seq(Locks) /\ Len(<<a, b, c, d>>) = 4
  OBVIOUS
<1>2. <<a, b, c, d>>[1] = a /\ <<a, b, c, d>>[2] = b /\ <<a, b, c, d>>[3] = c /\ <<a, b, c, d>>[4] = d
  OBVIOUS
<1> QED BY <1>1, <1>2 DEF Locked

LEMMA JoinedLocks ==
    ASSUME NEW s \in Seq(Locks), NEW t \in Seq(Locks)
    PROVE  /\ s \o t \in Seq(Locks)
           /\ \A x : Locked(s, x) \/ Locked(t, x) => Locked(s \o t, x)
<1>1. /\ s \o t \in Seq(Locks) /\ Len(s \o t) = Len(s) + Len(t)
      /\ Len(s) \in Nat /\ Len(t) \in Nat
      /\ \A i \in 1..Len(s) : (s \o t)[i] = s[i]
      /\ \A i \in 1..Len(t) : (s \o t)[Len(s) + i] = t[i]
  OBVIOUS
<1>2. ASSUME NEW x, Locked(s, x) PROVE Locked(s \o t, x)
  <2>1. PICK i \in 1..Len(s) : s[i] = x
    BY <1>2 DEF Locked
  <2>2. i \in 1..Len(s \o t) /\ (s \o t)[i] = x
    BY <1>1, <2>1
  <2> QED BY <2>2 DEF Locked
<1>3. ASSUME NEW x, Locked(t, x) PROVE Locked(s \o t, x)
  <2>1. PICK i \in 1..Len(t) : t[i] = x
    BY <1>3 DEF Locked
  <2>2. Len(s) + i \in 1..Len(s \o t) /\ (s \o t)[Len(s) + i] = x
    BY <1>1, <2>1
  <2> QED BY <2>2 DEF Locked
<1> QED BY <1>1, <1>2, <1>3

LEMMA DerivationLocks ==
    ASSUME NEW p \in Proposals0
    PROVE  Derivation(p) \in Seq(Locks) /\ Locked(Derivation(p), Update(p)) /\ Locked(Derivation(p), GovernanceHead)
<1> DEFINE s == <<Update(p), Update("derivation"), GovernanceHead>>
<1>1. s \in Seq(Locks) /\ Locked(s, Update(p)) /\ Locked(s, GovernanceHead)
  BY HeadIsLock, RowLocks, ThreeLocks
<1>2. Derivation(p) = s \o Shares(Claims)
  BY DEF Derivation
<1> HIDE DEF s
<1> QED BY <1>1, <1>2, SharesAreLocks, JoinedLocks

LEMMA DerivationJobs ==
    ASSUME NEW p \in Proposals0, NEW who \in {"ordinary", "endpoint", "historical"},
           NEW repeatable, NEW retried, who = "endpoint" => repeatable
    PROVE  JobFits(Job(who, p, Derivation(p), repeatable, retried))
<1>1. WellLocked(who, p, Derivation(p), repeatable)
  BY DerivationLocks DEF WellLocked, Writers, Deciders0
<1> QED BY <1>1, FitsIfWellLocked

LEMMA PlainJobs ==
    ASSUME NEW p \in Proposals0, NEW repeatable, NEW retried,
           NEW who \in {"ordinary", "disposition", "reviewed", "reviewed disposition"}
    PROVE  JobFits(Job(who, p, <<Update(p), GovernanceHead>>, repeatable, retried))
<1>1. WellLocked(who, p, <<Update(p), GovernanceHead>>, repeatable)
  BY HeadIsLock, RowLocks, TwoLocks DEF WellLocked, Writers, Deciders0
<1> QED BY <1>1, FitsIfWellLocked

LEMMA SupersessionJobs == \A job \in Supersessions : JobFits(job)
<1>1. ASSUME NEW p \in SourceProposals \union AdmittedProposals, NEW c \in Claims
      PROVE  JobFits(Job("supersession", p, <<Update(p), GovernanceHead, Update("supersession head"), Update(c)>>, TRUE, Serialization))
  <2>1. p \in Proposals0 /\ Update(c)[1] = c
    BY DEF Proposals0, Update
  <2>2. WellLocked("supersession", p, <<Update(p), GovernanceHead, Update("supersession head"), Update(c)>>, TRUE)
    BY <2>1, HeadIsLock, RowLocks, FourLocks DEF WellLocked, Writers, Deciders0
  <2> QED BY <2>2, FitsIfWellLocked
<1> QED BY <1>1 DEF Supersessions

LEMMA ClaimJobs ==
    ASSUME NEW c \in Claims, NEW who \in {"governance", "registration"}, NEW retried
    PROVE  JobFits(Job(who, c, <<GovernanceHead, Share(c)>>, TRUE, retried))
<1>1. WellLocked(who, c, <<GovernanceHead, Share(c)>>, TRUE)
  BY HeadIsLock, RowLocks, TwoLocks DEF WellLocked, Writers, Deciders0
<1> QED BY <1>1, FitsIfWellLocked

LEMMA RelationJobs ==
    ASSUME NEW c \in Claims, NEW o \in AdmittedProposals
    PROVE  /\ JobFits(Job("references", c, <<GovernanceHead, Share(c), Share(o)>>, TRUE, AnyConflict))
           /\ JobFits(Job("implements", c, <<Share(c), Share(o), GovernanceHead>>, TRUE, AnyConflict))
<1>1. Share(c) \in Locks /\ Share(o) \in Locks /\ GovernanceHead \in Locks
  BY HeadIsLock, RowLocks DEF Proposals0
<1>2. WellLocked("references", c, <<GovernanceHead, Share(c), Share(o)>>, TRUE)
  BY <1>1, ThreeLocks DEF WellLocked, Writers, Deciders0
<1>3. WellLocked("implements", c, <<Share(c), Share(o), GovernanceHead>>, TRUE)
  BY <1>1, ThreeLocks DEF WellLocked, Writers, Deciders0
<1> QED BY <1>2, <1>3, FitsIfWellLocked

LEMMA ContradictionJobs ==
    \A job \in UNION {ContradictionSubmissions, NativeContradictions, ContradictionDispositions, ReviewedContradictions} :
        JobFits(job)
<1> DEFINE t == Shares(Claims)
<1>1. t \in Seq(Locks)
  BY SharesAreLocks
<1> HIDE DEF t
<1>2. ASSUME NEW k \in Contradictions
      PROVE  /\ JobFits(Job("submission", k, t, FALSE, {}))
             /\ JobFits(Job("native contradiction", k, <<Update(k)>> \o t \o <<GovernanceHead>>, FALSE, {}))
             /\ JobFits(Job("contradiction disposition", k, <<Update(k)>>, FALSE, {}))
             /\ JobFits(Job("reviewed contradiction", k, <<GovernanceHead>> \o t \o <<Update(k)>>, TRUE, Serialization))
  <2>1. k \in Proposals0 /\ Update(k) \in Locks
    BY RowLocks DEF Proposals0
  <2>2. ASSUME NEW a \in Locks, NEW b \in Locks
        PROVE  /\ <<a>> \o t \o <<b>> \in Seq(Locks)
               /\ Locked(<<a>> \o t \o <<b>>, a) /\ Locked(<<a>> \o t \o <<b>>, b)
    <3>1. <<a>> \o t \in Seq(Locks) /\ Locked(<<a>> \o t, a)
      BY <1>1, OneLock, JoinedLocks
    <3> QED BY <3>1, OneLock, JoinedLocks
  <2>3. WellLocked("submission", k, t, FALSE)
    BY <1>1, <2>1 DEF WellLocked, Writers, Deciders0
  <2>4. WellLocked("native contradiction", k, <<Update(k)>> \o t \o <<GovernanceHead>>, FALSE)
    BY <2>1, <2>2, HeadIsLock DEF WellLocked, Writers, Deciders0
  <2>5. WellLocked("contradiction disposition", k, <<Update(k)>>, FALSE)
    BY <2>1, OneLock DEF WellLocked, Writers, Deciders0
  <2>6. WellLocked("reviewed contradiction", k, <<GovernanceHead>> \o t \o <<Update(k)>>, TRUE)
    BY <2>1, <2>2, HeadIsLock DEF WellLocked, Writers, Deciders0
  <2> QED BY <2>3, <2>4, <2>5, <2>6, FitsIfWellLocked
<1> QED BY <1>2 DEF ContradictionSubmissions, NativeContradictions, ContradictionDispositions, ReviewedContradictions, t

LEMMA JobsFit == \A job \in Jobs : JobFits(job)
<1>1. SourceProposals \cup AdmittedProposals \cup DerivedProposals \cup Contradictions \subseteq Proposals0
  BY DEF Proposals0
<1>2. \A job \in OrdinaryAdmissions : JobFits(job)
  BY <1>1, PlainJobs, DerivationJobs DEF OrdinaryAdmissions
<1>3. \A job \in OrdinaryDispositions : JobFits(job)
  BY <1>1, PlainJobs DEF OrdinaryDispositions
<1>4. \A job \in ReviewedAdmissions : JobFits(job)
  BY <1>1, PlainJobs DEF ReviewedAdmissions
<1>5. \A job \in ReviewedDispositions : JobFits(job)
  BY <1>1, PlainJobs DEF ReviewedDispositions
<1>6. \A job \in EndpointAdmissions : JobFits(job)
  BY <1>1, DerivationJobs DEF EndpointAdmissions
<1>7. \A job \in HistoricalDerivations : JobFits(job)
  BY <1>1, DerivationJobs DEF HistoricalDerivations
<1>8. \A job \in GovernanceDecisions : JobFits(job)
  BY ClaimJobs DEF GovernanceDecisions
<1>9. \A job \in Registrations : JobFits(job)
  BY ClaimJobs DEF Registrations
<1>10. \A job \in References : JobFits(job)
  BY RelationJobs DEF References
<1>11. \A job \in Implements : JobFits(job)
  BY RelationJobs DEF Implements
<1> QED BY <1>2, <1>3, <1>4, <1>5, <1>6, <1>7, <1>8, <1>9, <1>10, <1>11, SupersessionJobs, ContradictionJobs DEF Jobs

-----------------------------------------------------------------------------
(* Transactions under way.                                                    *)

Outcomes == {"pending", "decided"}
Views0 == [outcome : [Proposals0 -> Outcomes], decisions : [Proposals0 -> Nat], revision : Nat,
           unusable : SUBSET Claims, inUse : SUBSET Proposals0]
Underway == {x \in [phase : {"running"}, job : Jobs, held : Nat, seen : Views0, attempt : Nat] :
                x.held <= Len(x.job.locks)}

SessionsTyped == decided \in Views0 /\ sessions \in [Sessions -> {Idle, Ended} \cup Underway]

LEMMA LocksAreCounted == \A job \in Jobs : job.locks \in Seq(Locks) /\ Len(job.locks) \in Nat
<1> SUFFICES ASSUME NEW job \in Jobs PROVE job.locks \in Seq(Locks) /\ Len(job.locks) \in Nat
  OBVIOUS
<1>1. job.locks \in Seq(Locks)
  BY JobsFit DEF JobFits, WellLocked
<1> QED BY <1>1

LEMMA RunningIsUnderway ==
    ASSUME SessionsTyped, NEW s \in Sessions, Running(s)
    PROVE  /\ sessions[s] \in Underway /\ sessions[s].job \in Jobs /\ JobFits(sessions[s].job)
           /\ sessions[s].held \in 0..Len(sessions[s].job.locks) /\ Len(sessions[s].job.locks) \in Nat
           /\ sessions[s].seen \in Views0 /\ sessions[s].attempt \in Nat
<1>1. sessions[s] \in Underway
  BY DEF SessionsTyped, Running, Idle, Ended
<1>2. /\ sessions[s].job \in Jobs /\ sessions[s].held \in Nat /\ sessions[s].seen \in Views0 /\ sessions[s].attempt \in Nat
      /\ sessions[s].held <= Len(sessions[s].job.locks)
  BY <1>1 DEF Underway
<1>3. JobFits(sessions[s].job) /\ Len(sessions[s].job.locks) \in Nat
  BY <1>2, JobsFit, LocksAreCounted
<1> QED BY <1>1, <1>2, <1>3

LEMMA BegunIsUnderway ==
    ASSUME decided \in Views0, NEW job \in Jobs, NEW n \in Nat
    PROVE  Begun(job, n) \in Underway /\ Begun(job, n).phase = "running"
<1>1. Len(job.locks) \in Nat
  BY LocksAreCounted
<1> QED BY <1>1 DEF Begun, Underway

\* What a step does to the session that takes it, all others being left alone.
Restarts(s) == UNCHANGED decided /\ \E job \in Jobs, n \in Nat : sessions' = [sessions EXCEPT ![s] = Begun(job, n)]
Stops(s) == UNCHANGED decided /\ sessions' = [sessions EXCEPT ![s] = Ended]
Advances(s) ==
    /\ Running(s) /\ ~ Complete(s) /\ Blockers(s) = {} /\ ~ Moved(s, Wants(s))
    /\ Wants(s)[2] = "update" => StillPending(s, Wants(s))
    /\ sessions' = [sessions EXCEPT ![s].held = @ + 1]
    /\ UNCHANGED decided

LEMMA SessionSteps ==
    ASSUME SessionsTyped, LockNext
    PROVE  \E s \in Sessions : Restarts(s) \/ Stops(s) \/ Advances(s) \/ Commit(s)
<1>1. PICK s \in Sessions : \/ \E job \in Jobs : Begin(s, job)
                           \/ Lock(s) \/ SerializationFailure(s) \/ DeadlockVictim(s) \/ Rollback(s) \/ Commit(s)
  BY DEF LockNext
<1>2. CASE \E job \in Jobs : Begin(s, job)
  BY <1>2 DEF Begin, Restarts
<1>3. CASE Lock(s)
  <2>1. CASE Wants(s)[2] = "update" /\ ~ StillPending(s, Wants(s))
    BY <1>3, <2>1 DEF Lock, Stops
  <2>2. CASE ~ (Wants(s)[2] = "update" /\ ~ StillPending(s, Wants(s)))
    BY <1>3, <2>2 DEF Lock, Advances
  <2> QED BY <2>1, <2>2
<1>4. ASSUME NEW code, Running(s), Failed(s, code), UNCHANGED decided PROVE Restarts(s) \/ Stops(s)
  <2>1. sessions[s].job \in Jobs /\ sessions[s].attempt + 1 \in Nat
    BY <1>4, RunningIsUnderway
  <2> QED BY <1>4, <2>1 DEF Failed, Restarts, Stops
<1>5. CASE SerializationFailure(s)
  BY <1>4, <1>5 DEF SerializationFailure
<1>6. CASE DeadlockVictim(s)
  <2>1. Running(s)
    BY <1>6 DEF DeadlockVictim, Stuck, Blockers
  <2> QED BY <1>4, <1>6, <2>1 DEF DeadlockVictim
<1>7. CASE Rollback(s)
  BY <1>7 DEF Rollback, Stops
<1> QED BY <1>1, <1>2, <1>3, <1>5, <1>6, <1>7

-----------------------------------------------------------------------------
(* What the locks are for.                                                    *)

Exclusive ==
    \A s, t \in Sessions : s # t /\ Running(s) /\ Running(t) =>
        \A l \in Held(s), m \in Held(t) : ~ Conflicts(l, m)

\* Who holds a proposal for update has found it pending.
PendingWhileHeld ==
    \A s \in Sessions : Running(s) =>
        \A p \in Proposals0 : Update(p) \in Held(s) => decided.outcome[p] = "pending"

\* The head's revision tells whether the snapshot still shows who may be used.
SnapshotsAge ==
    \A s \in Sessions : Running(s) =>
        /\ sessions[s].seen.revision <= decided.revision
        /\ sessions[s].seen.revision = decided.revision => sessions[s].seen.unusable = decided.unusable

HeadSeen ==
    \A s \in Sessions : Running(s) /\ sessions[s].job.repeatable /\ GovernanceHead \in Held(s) =>
        sessions[s].seen.revision = decided.revision

LockInv == SessionsTyped /\ Exclusive /\ PendingWhileHeld /\ SnapshotsAge /\ HeadSeen /\ DecidedOnce

LEMMA LockInvInit == LockInit => LockInv
<1> SUFFICES ASSUME LockInit PROVE LockInv
  OBVIOUS
<1>1. SessionsTyped
  BY DEF LockInit, SessionsTyped, Views0, Outcomes
<1>2. \A s \in Sessions : ~ Running(s)
  BY DEF LockInit, Running, Idle
<1>3. DecidedOnce
  BY DEF LockInit, DecidedOnce
<1> QED BY <1>1, <1>2, <1>3 DEF LockInv, Exclusive, PendingWhileHeld, SnapshotsAge, HeadSeen

LEMMA CompleteHoldsAll ==
    ASSUME SessionsTyped, NEW s \in Sessions, Running(s), Complete(s), NEW lock, Locked(sessions[s].job.locks, lock)
    PROVE  lock \in Held(s)
  BY DEF Complete, Locked, Held

\* A commit decides only a row it holds, and moves the head only when it holds it.
CommitDecides(s) ==
    \/ decided'.outcome = decided.outcome /\ decided'.decisions = decided.decisions
    \/ \E p \in Proposals0 :
         /\ Update(p) \in Held(s)
         /\ decided'.outcome = [decided.outcome EXCEPT ![p] = "decided"]
         /\ decided'.decisions = [decided.decisions EXCEPT ![p] = @ + 1]
CommitMovesHead(s) ==
    \/ decided'.revision = decided.revision /\ decided'.unusable = decided.unusable
    \/ decided'.revision = decided.revision + 1 /\ GovernanceHead \in Held(s)
CommitUses(s) ==
    \/ decided'.inUse = decided.inUse
    \/ /\ sessions[s].job.repeatable /\ GovernanceHead \in Held(s)
       /\ sessions[s].seen.unusable = {}

LEMMA DecideFields ==
    ASSUME NEW d \in Views0, NEW p \in Proposals0
    PROVE  /\ Decide(d, p) \in Views0
           /\ Decide(d, p).outcome = [d.outcome EXCEPT ![p] = "decided"]
           /\ Decide(d, p).decisions = [d.decisions EXCEPT ![p] = @ + 1]
           /\ Decide(d, p).revision = d.revision /\ Decide(d, p).unusable = d.unusable /\ Decide(d, p).inUse = d.inUse
<1>1. [d.outcome EXCEPT ![p] = "decided"] \in [Proposals0 -> Outcomes]
  BY DEF Views0, Outcomes
<1>2. [d.decisions EXCEPT ![p] = @ + 1] \in [Proposals0 -> Nat]
  BY DEF Views0
<1> DEFINE o == [d.outcome EXCEPT ![p] = "decided"]
           n == [d.decisions EXCEPT ![p] = @ + 1]
<1>3. Decide(d, p) = [d EXCEPT !.outcome = o, !.decisions = n] /\ o \in [Proposals0 -> Outcomes] /\ n \in [Proposals0 -> Nat]
  BY <1>1, <1>2 DEF Decide
<1>4. /\ Decide(d, p) \in Views0 /\ Decide(d, p).outcome = o /\ Decide(d, p).decisions = n
      /\ Decide(d, p).revision = d.revision /\ Decide(d, p).unusable = d.unusable /\ Decide(d, p).inUse = d.inUse
  <2> DEFINE e == Decide(d, p)
  <2>1. e = [d EXCEPT !.outcome = o, !.decisions = n] /\ o \in [Proposals0 -> Outcomes] /\ n \in [Proposals0 -> Nat]
    BY <1>3
  <2> HIDE DEF o, n, e
  <2>2. /\ e \in Views0 /\ e.outcome = o /\ e.decisions = n
        /\ e.revision = d.revision /\ e.unusable = d.unusable /\ e.inUse = d.inUse
    BY <2>1 DEF Views0
  <2> QED BY <2>2 DEF e
<1> QED BY <1>4

LEMMA TouchedFields ==
    ASSUME NEW d \in Views0
    PROVE  /\ Touched(d) \in Views0
           /\ Touched(d).outcome = d.outcome /\ Touched(d).decisions = d.decisions
           /\ Touched(d).revision = d.revision + 1 /\ Touched(d).unusable = d.unusable /\ Touched(d).inUse = d.inUse
  BY DEF Touched, Views0

LEMMA UsabilityFields ==
    ASSUME NEW d \in Views0, NEW u \in SUBSET Claims, NEW e, e = [d EXCEPT !.unusable = u]
    PROVE  e \in Views0 /\ e.outcome = d.outcome /\ e.decisions = d.decisions /\ e.revision = d.revision /\ e.inUse = d.inUse
  BY DEF Views0

LEMMA UseFields ==
    ASSUME NEW d \in Views0, NEW u \in SUBSET Proposals0, NEW e, e = [d EXCEPT !.inUse = u]
    PROVE  e \in Views0 /\ e.outcome = d.outcome /\ e.decisions = d.decisions /\ e.revision = d.revision /\ e.unusable = d.unusable
  BY DEF Views0

\* A commit that moves the head, from the record it moves.
LEMMA HeadMoves ==
    ASSUME SessionsTyped, NEW s \in Sessions, NEW d \in Views0, decided' = Touched(d),
           GovernanceHead \in Held(s), d.revision = decided.revision,
           d.inUse = decided.inUse \/ (sessions[s].job.repeatable /\ sessions[s].seen.unusable = {}),
           \/ d.outcome = decided.outcome /\ d.decisions = decided.decisions
           \/ \E p \in Proposals0 : /\ Update(p) \in Held(s) /\ d.outcome = Decide(decided, p).outcome
                                  /\ d.decisions = Decide(decided, p).decisions
    PROVE  decided' \in Views0 /\ CommitDecides(s) /\ CommitMovesHead(s) /\ CommitUses(s)
<1>1. /\ decided' \in Views0 /\ decided'.outcome = d.outcome /\ decided'.decisions = d.decisions
      /\ decided'.revision = d.revision + 1 /\ decided'.inUse = d.inUse
  BY TouchedFields
<1>2. \A p \in Proposals0 : /\ Decide(decided, p).outcome = [decided.outcome EXCEPT ![p] = "decided"]
                           /\ Decide(decided, p).decisions = [decided.decisions EXCEPT ![p] = @ + 1]
  BY DecideFields DEF SessionsTyped
<1>3. CommitDecides(s)
  BY <1>1, <1>2 DEF CommitDecides
<1>4. CommitMovesHead(s)
  BY <1>1 DEF CommitMovesHead
<1>5. CommitUses(s)
  BY <1>1 DEF CommitUses
<1> QED BY <1>1, <1>3, <1>4, <1>5

LEMMA CommitEffects ==
    ASSUME SessionsTyped, NEW s \in Sessions, Commit(s)
    PROVE  decided' \in Views0 /\ CommitDecides(s) /\ CommitMovesHead(s) /\ CommitUses(s)
<1> DEFINE job == sessions[s].job
           row == job.row
<1>1. /\ Running(s) /\ Complete(s) /\ decided \in Views0 /\ decided' \in Effects(s)
      /\ WellLocked(job.writer, row, job.locks, job.repeatable)
  BY RunningIsUnderway DEF Commit, SessionsTyped, JobFits
<1>2. job.writer \in Deciders0 => /\ row \in Proposals0 /\ Update(row) \in Held(s)
                                 /\ Decide(decided, row) \in Views0
  BY <1>1, CompleteHoldsAll, DecideFields DEF WellLocked
<1>3. job.writer \notin {"submission", "contradiction disposition"} => GovernanceHead \in Held(s)
  BY <1>1, CompleteHoldsAll DEF WellLocked
<1>4. CASE job.writer \in {"ordinary", "disposition", "reviewed", "reviewed disposition", "historical",
                          "native contradiction", "reviewed contradiction"}
  <2>1. decided' = Touched(Decide(decided, row))
    BY <1>1, <1>4 DEF Effects
  <2>2. job.writer \in Deciders0 /\ GovernanceHead \in Held(s)
    BY <1>3, <1>4 DEF Deciders0
  <2>3. /\ Decide(decided, row).revision = decided.revision /\ Decide(decided, row).inUse = decided.inUse
    BY <1>1, <1>2, <2>2, DecideFields
  <2> QED BY <1>1, <1>2, <2>1, <2>2, <2>3, HeadMoves
<1>5. CASE job.writer = "endpoint"
  <2> DEFINE d == Decide(decided, row)
             used == [d EXCEPT !.inUse = @ \union {row}]
  <2>1. CASE decided' = decided
    BY <1>1, <2>1 DEF CommitDecides, CommitMovesHead, CommitUses
  <2>2. CASE GuardCurrentUse(s) /\ decided' = Touched(used)
    <3>1. job.writer \in Deciders0 /\ GovernanceHead \in Held(s) /\ job.repeatable
      BY <1>1, <1>3, <1>5 DEF Deciders0, WellLocked
    <3>2. /\ d \in Views0 /\ d.revision = decided.revision /\ d.unusable = decided.unusable
          /\ d.inUse \union {row} \in SUBSET Proposals0
      <4>1. decided \in Views0 /\ row \in Proposals0 /\ d \in Views0
        BY <1>1, <1>2, <3>1
      <4>2. d.revision = decided.revision /\ d.unusable = decided.unusable
        BY <4>1, DecideFields
      <4> HIDE DEF d
      <4>3. d.inUse \in SUBSET Proposals0
        BY <4>1 DEF Views0
      <4> QED BY <4>1, <4>2, <4>3
    <3>3. /\ used \in Views0 /\ used.outcome = d.outcome /\ used.decisions = d.decisions
          /\ used.revision = d.revision
      <4> HIDE DEF d
      <4> QED BY <3>2, UseFields
    <3>4. sessions[s].seen.unusable = {}
      BY <2>2 DEF GuardCurrentUse
    <3> HIDE DEF used
    <3> QED BY <1>1, <1>2, <2>2, <3>1, <3>2, <3>3, <3>4, HeadMoves
  <2> QED BY <1>1, <1>5, <2>1, <2>2 DEF Effects
<1>6. CASE job.writer = "supersession"
  <2> DEFINE u == decided.unusable \union {job.locks[4][1]}
             d == Decide(decided, row)
             old == [d EXCEPT !.unusable = u]
  <2>1. job.writer \in Deciders0 /\ GovernanceHead \in Held(s) /\ u \in SUBSET Claims
    BY <1>1, <1>3, <1>6 DEF Deciders0, WellLocked, Views0
  <2>2. d \in Views0 /\ d.revision = decided.revision /\ d.unusable = decided.unusable /\ d.inUse = decided.inUse
    BY <1>1, <1>2, <2>1, DecideFields
  <2>3. decided' = Touched(old)
    BY <1>1, <1>6, <2>2 DEF Effects
  <2>4. old \in Views0 /\ old.outcome = d.outcome /\ old.decisions = d.decisions /\ old.revision = d.revision /\ old.inUse = d.inUse
    <3> HIDE DEF d, u
    <3> QED BY <2>1, <2>2, UsabilityFields
  <2> HIDE DEF old
  <2> QED BY <1>1, <1>2, <2>1, <2>2, <2>3, <2>4, HeadMoves
<1>7. CASE job.writer = "governance"
  <2>1. \E u \in SUBSET Claims : decided' = Touched([decided EXCEPT !.unusable = u])
    <3>1. decided.unusable \union {row} \in SUBSET Claims /\ decided.unusable \ {row} \in SUBSET Claims
      BY <1>1, <1>7 DEF WellLocked, Views0
    <3>2. \/ decided' = Touched([decided EXCEPT !.unusable = decided.unusable \union {row}])
          \/ decided' = Touched([decided EXCEPT !.unusable = decided.unusable \ {row}])
      BY <1>1, <1>7 DEF Effects
    <3> QED BY <3>1, <3>2
  <2>2. PICK u \in SUBSET Claims : decided' = Touched([decided EXCEPT !.unusable = u])
    BY <2>1
  <2> DEFINE old == [decided EXCEPT !.unusable = u]
  <2>3. /\ old \in Views0 /\ old.outcome = decided.outcome /\ old.decisions = decided.decisions
        /\ old.revision = decided.revision /\ old.inUse = decided.inUse /\ decided' = Touched(old)
    BY <1>1, <2>2, UsabilityFields
  <2>4. GovernanceHead \in Held(s) /\ SessionsTyped
    BY <1>1, <1>3, <1>7
  <2> HIDE DEF old
  <2> QED BY <2>3, <2>4, HeadMoves
<1>8. CASE job.writer \in {"registration", "references", "implements"}
  <2>1. decided' = Touched(decided)
    BY <1>1, <1>8 DEF Effects
  <2> QED BY <1>1, <1>3, <1>8, <2>1, HeadMoves
<1>9. CASE job.writer = "contradiction disposition"
  <2>1. decided' = Decide(decided, row) /\ job.writer \in Deciders0
    BY <1>1, <1>9 DEF Effects, Deciders0
  <2> QED BY <1>1, <1>2, <2>1, DecideFields DEF CommitDecides, CommitMovesHead, CommitUses
<1>10. CASE job.writer = "submission"
  <2>1. decided' = decided
    BY <1>1, <1>10 DEF Effects
  <2> QED BY <1>1, <2>1 DEF CommitDecides, CommitMovesHead, CommitUses
<1>11. job.writer \in Writers
  BY <1>1 DEF WellLocked
<1> QED BY <1>4, <1>5, <1>6, <1>7, <1>8, <1>9, <1>10, <1>11 DEF Writers, Deciders0

-----------------------------------------------------------------------------
(* Every step keeps the invariant.                                            *)

LEMMA OthersStay ==
    ASSUME SessionsTyped, NEW s \in Sessions, NEW x, sessions' = [sessions EXCEPT ![s] = x]
    PROVE  /\ sessions'[s] = x
           /\ \A t \in Sessions \ {s} :
                sessions'[t] = sessions[t] /\ (Running(t)' <=> Running(t)) /\ Held(t)' = Held(t)
<1>1. sessions'[s] = x /\ \A t \in Sessions \ {s} : sessions'[t] = sessions[t]
  BY DEF SessionsTyped
<1> QED BY <1>1 DEF Running, Held

LEMMA KeepsTyped ==
    ASSUME SessionsTyped, NEW s \in Sessions, NEW x \in {Idle, Ended} \cup Underway,
           sessions' = [sessions EXCEPT ![s] = x], decided' \in Views0
    PROVE  SessionsTyped'
  BY DEF SessionsTyped

\* A session that no longer runs leaves what holds of the others.
LEMMA StopKeepsExclusive ==
    ASSUME SessionsTyped, Exclusive, NEW s \in Sessions, sessions' = [sessions EXCEPT ![s] = Ended]
    PROVE  ~ Running(s)' /\ Exclusive'
<1>1. ~ Running(s)'
  <2>1. sessions'[s] = Ended
    BY DEF SessionsTyped
  <2> QED BY <2>1 DEF Running, Ended
<1>2. \A t \in Sessions \ {s} : (Running(t)' <=> Running(t)) /\ Held(t)' = Held(t)
  BY OthersStay
<1> QED BY <1>1, <1>2 DEF Exclusive

LEMMA StopStep ==
    ASSUME LockInv, NEW s \in Sessions, Stops(s)
    PROVE  LockInv'
<1> USE DEF LockInv
<1>1. sessions' = [sessions EXCEPT ![s] = Ended] /\ decided' = decided
  BY DEF Stops
<1>2. \A t \in Sessions : Running(t)' => Running(t) /\ sessions'[t] = sessions[t] /\ Held(t)' = Held(t)
  BY <1>1, OthersStay, StopKeepsExclusive
<1>3. SessionsTyped' /\ Exclusive'
  BY <1>1, KeepsTyped, StopKeepsExclusive DEF SessionsTyped
<1>4. PendingWhileHeld' /\ SnapshotsAge' /\ HeadSeen' /\ DecidedOnce'
  BY <1>1, <1>2 DEF PendingWhileHeld, SnapshotsAge, HeadSeen, DecidedOnce
<1> QED BY <1>3, <1>4

LEMMA RestartStep ==
    ASSUME LockInv, NEW s \in Sessions, Restarts(s)
    PROVE  LockInv'
<1> USE DEF LockInv
<1>1. PICK job \in Jobs, n \in Nat : sessions' = [sessions EXCEPT ![s] = Begun(job, n)]
  BY DEF Restarts
<1>2. decided' = decided /\ decided \in Views0
  BY DEF Restarts, SessionsTyped
<1>3. sessions'[s] = Begun(job, n) /\ sessions'[s].held = 0 /\ sessions'[s].seen = decided
  <2>1. sessions'[s] = Begun(job, n)
    BY <1>1 DEF SessionsTyped
  <2> QED BY <2>1 DEF Begun
<1>4. Held(s)' = {}
  BY <1>3 DEF Held
<1>5. \A t \in Sessions \ {s} : (Running(t)' <=> Running(t)) /\ sessions'[t] = sessions[t] /\ Held(t)' = Held(t)
  BY <1>1, OthersStay
<1>6. SessionsTyped'
  BY <1>1, <1>2, BegunIsUnderway, KeepsTyped
<1>7. Exclusive'
  BY <1>4, <1>5 DEF Exclusive
<1>8. PendingWhileHeld' /\ HeadSeen' /\ DecidedOnce'
  BY <1>2, <1>4, <1>5 DEF PendingWhileHeld, HeadSeen, DecidedOnce
<1>9. SnapshotsAge'
  <2>1. decided.revision <= decided.revision
    BY <1>2 DEF Views0
  <2> QED BY <1>2, <1>3, <1>5, <2>1 DEF SnapshotsAge
<1> QED BY <1>6, <1>7, <1>8, <1>9

LEMMA AdvanceStep ==
    ASSUME LockInv, NEW s \in Sessions, Advances(s)
    PROVE  LockInv'
<1> USE DEF LockInv
<1> DEFINE x == [sessions[s] EXCEPT !.held = @ + 1]
<1>1. /\ Running(s) /\ ~ Complete(s) /\ Blockers(s) = {} /\ ~ Moved(s, Wants(s))
      /\ Wants(s)[2] = "update" => StillPending(s, Wants(s))
      /\ sessions' = [sessions EXCEPT ![s] = x] /\ decided' = decided
  BY DEF Advances, SessionsTyped
<1>2. /\ sessions[s] \in Underway /\ sessions[s].held \in 0..Len(sessions[s].job.locks)
      /\ Len(sessions[s].job.locks) \in Nat /\ sessions[s].held # Len(sessions[s].job.locks)
  BY <1>1, RunningIsUnderway DEF Complete
<1>3. x \in Underway /\ x.held = sessions[s].held + 1 /\ x.job = sessions[s].job /\ x.seen = sessions[s].seen
  BY <1>2 DEF Underway
<1>4. sessions'[s] = x
  BY <1>1, OthersStay
<1>5. Held(s)' = Held(s) \cup {Wants(s)}
  <2>1. 1..(sessions[s].held + 1) = 1..sessions[s].held \cup {sessions[s].held + 1}
    BY <1>2
  <2> HIDE DEF x
  <2> QED BY <1>3, <1>4, <2>1 DEF Held, Wants
<1>6. \A t \in Sessions \ {s} : (Running(t)' <=> Running(t)) /\ sessions'[t] = sessions[t] /\ Held(t)' = Held(t)
  BY <1>1, OthersStay
<1>7. sessions'[s].job = sessions[s].job /\ sessions'[s].seen = sessions[s].seen
  BY <1>3, <1>4
<1>8. SessionsTyped'
  BY <1>1, <1>3, KeepsTyped DEF SessionsTyped
<1> HIDE DEF x
<1>9. Exclusive'
  <2>1. \A t \in Sessions \ {s} : Running(t) =>
            \A l \in Held(t) : ~ Conflicts(l, Wants(s)) /\ ~ Conflicts(Wants(s), l)
    BY <1>1 DEF Blockers, Conflicts
  <2> QED BY <1>1, <1>5, <1>6, <2>1 DEF Exclusive
<1>10. PendingWhileHeld'
  <2>1. \A p \in Proposals0 : Update(p) = Wants(s) => decided.outcome[p] = "pending"
    BY <1>1 DEF Update, StillPending
  <2> QED BY <1>1, <1>5, <1>6, <2>1 DEF PendingWhileHeld
<1>11. HeadSeen'
  <2>1. ASSUME sessions[s].job.repeatable, GovernanceHead = Wants(s)
        PROVE  sessions[s].seen.revision = decided.revision
    <3>1. GovernanceHead[2] = "update"
      BY DEF GovernanceHead, Update
    <3> QED BY <1>1, <2>1, <3>1 DEF Moved
  <2> QED BY <1>1, <1>5, <1>6, <1>7, <2>1 DEF HeadSeen
<1>12. SnapshotsAge' /\ DecidedOnce'
  BY <1>1, <1>6, <1>7 DEF SnapshotsAge, DecidedOnce
<1> QED BY <1>8, <1>9, <1>10, <1>11, <1>12

LEMMA CommitStep ==
    ASSUME LockInv, NEW s \in Sessions, Commit(s)
    PROVE  LockInv'
<1> USE DEF LockInv
<1>1. sessions' = [sessions EXCEPT ![s] = Ended] /\ Running(s) /\ decided \in Views0
  BY DEF Commit, SessionsTyped
<1>2. decided' \in Views0 /\ CommitDecides(s) /\ CommitMovesHead(s)
  BY CommitEffects
<1>3. SessionsTyped' /\ Exclusive'
  BY <1>1, <1>2, KeepsTyped, StopKeepsExclusive
<1>4. \A t \in Sessions : Running(t)' =>
          t # s /\ Running(t) /\ sessions'[t] = sessions[t] /\ Held(t)' = Held(t)
  BY <1>1, OthersStay, StopKeepsExclusive
<1>5. \A t \in Sessions \ {s} : Running(t) =>
          /\ \A p \in Proposals0 : ~ (Update(p) \in Held(t) /\ Update(p) \in Held(s))
          /\ ~ (GovernanceHead \in Held(t) /\ GovernanceHead \in Held(s))
  BY <1>1 DEF Exclusive, Conflicts, Update, GovernanceHead
<1>6. PendingWhileHeld'
  <2> SUFFICES ASSUME NEW t \in Sessions, Running(t)', NEW p \in Proposals0, (Update(p) \in Held(t))'
               PROVE  decided'.outcome[p] = "pending"
    BY DEF PendingWhileHeld
  <2>1. Update(p) \in Held(t) /\ Update(p) \notin Held(s) /\ decided.outcome[p] = "pending"
    BY <1>4, <1>5 DEF PendingWhileHeld, Update
  <2>2. decided'.outcome[p] = decided.outcome[p]
    BY <1>1, <1>2, <2>1 DEF CommitDecides, Views0
  <2> QED BY <2>1, <2>2
<1>7. SnapshotsAge'
  <2> SUFFICES ASSUME NEW t \in Sessions, Running(t)'
               PROVE  /\ sessions'[t].seen.revision <= decided'.revision
                      /\ sessions'[t].seen.revision = decided'.revision => sessions'[t].seen.unusable = decided'.unusable
    BY DEF SnapshotsAge
  <2>1. /\ sessions'[t].seen = sessions[t].seen /\ Running(t)
        /\ sessions[t].seen.revision \in Nat /\ decided.revision \in Nat
    BY <1>1, <1>4, RunningIsUnderway DEF Views0
  <2>2. /\ sessions[t].seen.revision <= decided.revision
        /\ sessions[t].seen.revision = decided.revision => sessions[t].seen.unusable = decided.unusable
    BY <2>1 DEF SnapshotsAge
  <2> QED BY <1>2, <2>1, <2>2 DEF CommitMovesHead
<1>8. HeadSeen'
  BY <1>2, <1>4, <1>5 DEF HeadSeen, CommitMovesHead, GovernanceHead, Update
<1>9. DecidedOnce'
  <2> SUFFICES ASSUME NEW p \in Proposals0
               PROVE  decided'.decisions[p] = IF decided'.outcome[p] = "pending" THEN 0 ELSE 1
    BY DEF DecidedOnce
  <2>1. decided.decisions[p] = IF decided.outcome[p] = "pending" THEN 0 ELSE 1
    BY DEF DecidedOnce
  <2>2. Update(p) \in Held(s) => decided.outcome[p] = "pending"
    BY <1>1 DEF PendingWhileHeld
  <2>3. decided.outcome \in [Proposals0 -> Outcomes] /\ decided.decisions \in [Proposals0 -> Nat]
    BY <1>1 DEF Views0
  <2>4. CASE decided'.outcome = decided.outcome /\ decided'.decisions = decided.decisions
    BY <2>1, <2>4
  <2>5. ASSUME NEW q \in Proposals0, Update(q) \in Held(s),
               decided'.outcome = [decided.outcome EXCEPT ![q] = "decided"],
               decided'.decisions = [decided.decisions EXCEPT ![q] = @ + 1]
        PROVE  decided'.decisions[p] = IF decided'.outcome[p] = "pending" THEN 0 ELSE 1
    <3>1. CASE p = q
      <4>1. decided.decisions[p] = 0
        BY <2>1, <2>2, <2>5, <3>1
      <4>2. decided'.outcome[p] = "decided" /\ decided'.decisions[p] = decided.decisions[p] + 1
        BY <2>3, <2>5, <3>1
      <4> QED BY <4>1, <4>2
    <3>2. CASE p # q
      BY <2>1, <2>3, <2>5, <3>2
    <3> QED BY <3>1, <3>2
  <2> QED BY <1>2, <2>4, <2>5 DEF CommitDecides
<1> QED BY <1>3, <1>6, <1>7, <1>8, <1>9

LEMMA LockInvStep == LockInv /\ [LockNext]_lockVars => LockInv'
<1> SUFFICES ASSUME LockInv, [LockNext]_lockVars PROVE LockInv'
  OBVIOUS
<1>1. CASE LockNext
  <2>1. PICK s \in Sessions : Restarts(s) \/ Stops(s) \/ Advances(s) \/ Commit(s)
    BY <1>1, SessionSteps DEF LockInv
  <2> QED BY <2>1, RestartStep, StopStep, AdvanceStep, CommitStep
<1>2. CASE UNCHANGED lockVars
  BY <1>2 DEF lockVars, LockInv, SessionsTyped, Exclusive, PendingWhileHeld, SnapshotsAge, HeadSeen, DecidedOnce, Running, Held
<1> QED BY <1>1, <1>2

LEMMA LockInvAlways == LockSpec => []LockInv
<1> QED BY LockInvInit, LockInvStep, PTL DEF LockSpec

-----------------------------------------------------------------------------
(* The order in which an aligned writer takes its locks: its proposal, the    *)
(* derivation lock, the head, and only then anything else.  What two of them  *)
(* take without the head is shared, or the last lock of all.                  *)

Plain == SourceProposals \cup DerivedProposals \cup AdmittedProposals
ClaimShares == {Share(c) : c \in Claims}
HeadBefore(locks, i) == \E j \in 1..Len(locks) : j < i /\ locks[j] = GovernanceHead

FirstProposal(locks) == \E p \in Plain : locks[1] = Update(p)
StartsWithProposal(locks, i) ==
    /\ i = 1 /\ FirstProposal(locks)
    /\ Len(locks) > 1 /\ locks[2] \in {GovernanceHead, Update("derivation")}
ThenDerivation(locks, i) ==
    /\ i = 2 /\ FirstProposal(locks) /\ locks[2] = Update("derivation")
    /\ Len(locks) > 2 /\ locks[3] = GovernanceHead
BehindHead(locks, i) ==
    /\ HeadBefore(locks, i)
    /\ \/ \E r \in Claims \cup AdmittedProposals : locks[i] = Share(r)
       \/ locks[i] = Update("supersession head")
       \/ i = Len(locks) /\ \E c \in Claims : locks[i] = Update(c)
EndsWithContradiction(locks, i) == i = Len(locks) /\ \E k \in Contradictions : locks[i] = Update(k)
OnlyShares(locks) == \A j \in 1..Len(locks) : locks[j] \in ClaimShares

InOrder(locks, i) ==
    \/ StartsWithProposal(locks, i)
    \/ ThenDerivation(locks, i)
    \/ locks[i] = GovernanceHead
    \/ BehindHead(locks, i)
    \/ EndsWithContradiction(locks, i)
    \/ OnlyShares(locks)

Ordered(locks) == Len(locks) \in Nat /\ \A i \in 1..Len(locks) : InOrder(locks, i)

LEMMA SharesListed == /\ Shares(Claims) \in Seq(Locks)
                      /\ \A i \in 1..Len(Shares(Claims)) : Shares(Claims)[i] \in ClaimShares
<1> DEFINE n == Cardinality(Claims)
<1>1. n \in Nat /\ ExistsBijection(1..n, Claims)
  BY FS_CardinalityType, LockAssumption
<1>2. PICK f \in [1..n -> Claims] : \A r \in Claims : \E i \in 1..n : f[i] = r
  BY <1>1 DEF ExistsBijection, Bijection, Injection, Surjection
<1>3. \E s \in [1..n -> {Share(r) : r \in Claims}] : \A r \in Claims : \E i \in DOMAIN s : s[i] = Share(r)
  <2> DEFINE s == [i \in 1..n |-> Share(f[i])]
  <2>1. s \in [1..n -> {Share(r) : r \in Claims}]
    BY <1>2
  <2>2. \A r \in Claims : \E i \in DOMAIN s : s[i] = Share(r)
    BY <1>2
  <2> QED BY <2>1, <2>2
<1>4. Shares(Claims) \in [1..n -> {Share(r) : r \in Claims}]
  BY <1>3 DEF Shares
<1>5. \A t, m : m \in Nat /\ t \in [1..m -> ClaimShares] /\ t \in Seq(Locks) => Len(t) = m
  OBVIOUS
<1>6. Len(Shares(Claims)) = n
  BY <1>1, <1>4, <1>5, SharesAreLocks DEF ClaimShares
<1> QED BY <1>4, <1>6, SharesAreLocks DEF ClaimShares

LEMMA AfterHead ==
    ASSUME NEW locks, NEW j \in 1..Len(locks), locks[j] = GovernanceHead, NEW i, j < i
    PROVE  HeadBefore(locks, i)
  BY DEF HeadBefore

LEMMA OrderedPlain ==
    ASSUME NEW p \in Plain
    PROVE  Ordered(<<Update(p), GovernanceHead>>)
<1> DEFINE locks == <<Update(p), GovernanceHead>>
<1>1. Len(locks) = 2 /\ locks[1] = Update(p) /\ locks[2] = GovernanceHead
  OBVIOUS
<1> HIDE DEF locks
<1>2. InOrder(locks, 1) /\ InOrder(locks, 2)
  BY <1>1 DEF InOrder, StartsWithProposal, FirstProposal
<1>3. \A i \in 1..2 : i = 1 \/ i = 2
  OBVIOUS
<1>4. Ordered(locks)
  BY <1>1, <1>2, <1>3 DEF Ordered
<1> QED BY <1>4 DEF locks

LEMMA OrderedSupersession ==
    ASSUME NEW p \in Plain, NEW c \in Claims
    PROVE  Ordered(<<Update(p), GovernanceHead, Update("supersession head"), Update(c)>>)
<1> DEFINE locks == <<Update(p), GovernanceHead, Update("supersession head"), Update(c)>>
<1>0. Len(locks) = 4
  OBVIOUS
<1>1. /\ locks[1] = Update(p) /\ locks[2] = GovernanceHead
      /\ locks[3] = Update("supersession head") /\ locks[4] = Update(c)
  OBVIOUS
<1> HIDE DEF locks
<1>2. HeadBefore(locks, 3) /\ HeadBefore(locks, 4)
  <2>1. 2 \in 1..Len(locks) /\ 2 < 3 /\ 2 < 4
    BY <1>0
  <2> QED BY <1>1, <2>1, AfterHead
<1>3. InOrder(locks, 1)
  <2>1. FirstProposal(locks)
    BY <1>1 DEF FirstProposal
  <2>2. StartsWithProposal(locks, 1)
    <3>1. Len(locks) > 1
      BY <1>0
    <3> QED BY <1>1, <2>1, <3>1 DEF StartsWithProposal
  <2> QED BY <2>2 DEF InOrder
<1>4. InOrder(locks, 2)
  BY <1>1 DEF InOrder
<1>5. InOrder(locks, 3)
  BY <1>1, <1>2 DEF InOrder, BehindHead
<1>6. InOrder(locks, 4)
  BY <1>0, <1>1, <1>2 DEF InOrder, BehindHead
<1>7. \A i \in 1..4 : i = 1 \/ i = 2 \/ i = 3 \/ i = 4
  OBVIOUS
<1>8. \A i \in 1..4 : InOrder(locks, i)
  BY <1>3, <1>4, <1>5, <1>6, <1>7
<1>9. Len(locks) \in Nat /\ 1..Len(locks) = 1..4
  BY <1>0
<1>10. Ordered(locks)
  BY <1>8, <1>9 DEF Ordered
<1> QED BY <1>10 DEF locks

LEMMA OrderedClaim ==
    ASSUME NEW c \in Claims
    PROVE  Ordered(<<GovernanceHead, Share(c)>>)
<1> DEFINE locks == <<GovernanceHead, Share(c)>>
<1>1. Len(locks) = 2 /\ locks[1] = GovernanceHead /\ locks[2] = Share(c)
  OBVIOUS
<1> HIDE DEF locks
<1>2. HeadBefore(locks, 2)
  BY <1>1 DEF HeadBefore
<1>3. InOrder(locks, 1) /\ InOrder(locks, 2)
  BY <1>1, <1>2 DEF InOrder, BehindHead
<1>4. \A i \in 1..2 : i = 1 \/ i = 2
  OBVIOUS
<1>5. Ordered(locks)
  BY <1>1, <1>3, <1>4 DEF Ordered
<1> QED BY <1>5 DEF locks

LEMMA OrderedReferences ==
    ASSUME NEW c \in Claims, NEW o \in AdmittedProposals
    PROVE  Ordered(<<GovernanceHead, Share(c), Share(o)>>)
<1> DEFINE locks == <<GovernanceHead, Share(c), Share(o)>>
<1>1. Len(locks) = 3 /\ locks[1] = GovernanceHead /\ locks[2] = Share(c) /\ locks[3] = Share(o)
  OBVIOUS
<1> HIDE DEF locks
<1>2. HeadBefore(locks, 2) /\ HeadBefore(locks, 3)
  BY <1>1 DEF HeadBefore
<1>3. InOrder(locks, 1) /\ InOrder(locks, 2) /\ InOrder(locks, 3)
  BY <1>1, <1>2 DEF InOrder, BehindHead
<1>4. \A i \in 1..3 : i = 1 \/ i = 2 \/ i = 3
  OBVIOUS
<1>5. Ordered(locks)
  BY <1>1, <1>3, <1>4 DEF Ordered
<1> QED BY <1>5 DEF locks

LEMMA OrderedDerivation ==
    ASSUME NEW p \in Plain
    PROVE  Ordered(Derivation(p))
<1> DEFINE s == <<Update(p), Update("derivation"), GovernanceHead>>
           t == Shares(Claims)
           locks == s \o t
<1>1. p \in Proposals0 /\ s \in Seq(Locks) /\ t \in Seq(Locks)
  BY HeadIsLock, RowLocks, ThreeLocks, SharesListed DEF Plain, Proposals0
<1>2. Len(s) = 3 /\ s[1] = Update(p) /\ s[2] = Update("derivation") /\ s[3] = GovernanceHead
  OBVIOUS
<1>3. \A i \in 1..Len(t) : t[i] \in ClaimShares
  BY SharesListed
<1> HIDE DEF s, t
<1>4. /\ Len(locks) = Len(s) + Len(t) /\ Len(t) \in Nat
      /\ \A i \in 1..Len(s) : locks[i] = s[i]
      /\ \A i \in 1..Len(t) : locks[Len(s) + i] = t[i]
  BY <1>1
<1> HIDE DEF locks
<1>5. /\ Len(locks) = 3 + Len(t) /\ locks[1] = Update(p)
      /\ locks[2] = Update("derivation") /\ locks[3] = GovernanceHead
  BY <1>2, <1>4
<1>6. ASSUME NEW i \in 1..Len(locks), i > 3 PROVE InOrder(locks, i)
  <2>1. i - 3 \in 1..Len(t) /\ i = 3 + (i - 3)
    BY <1>4, <1>5, <1>6
  <2>2. locks[i] \in ClaimShares
    <3>1. locks[Len(s) + (i - 3)] = t[i - 3] /\ t[i - 3] \in ClaimShares
      BY <1>3, <1>4, <2>1
    <3>2. Len(s) + (i - 3) = i
      BY <1>2, <2>1
    <3> QED BY <3>1, <3>2
  <2>3. HeadBefore(locks, i)
    BY <1>4, <1>5, <1>6 DEF HeadBefore
  <2> QED BY <2>2, <2>3 DEF InOrder, BehindHead, ClaimShares
<1>7. InOrder(locks, 1) /\ InOrder(locks, 2) /\ InOrder(locks, 3)
  BY <1>4, <1>5 DEF InOrder, StartsWithProposal, ThenDerivation, FirstProposal
<1>8. \A i \in 1..Len(locks) : i = 1 \/ i = 2 \/ i = 3 \/ i > 3
  BY <1>4, <1>5
<1>9. Ordered(locks)
  BY <1>4, <1>5, <1>6, <1>7, <1>8 DEF Ordered
<1> QED BY <1>9 DEF locks, s, t, Derivation

LEMMA OrderedContradictions ==
    ASSUME NEW k \in Contradictions
    PROVE  /\ Ordered(Shares(Claims))
           /\ Ordered(<<Update(k)>>)
           /\ Ordered(<<GovernanceHead>> \o Shares(Claims) \o <<Update(k)>>)
<1>1. Ordered(Shares(Claims))
  <2>1. Len(Shares(Claims)) \in Nat
    BY SharesListed
  <2> QED BY <2>1, SharesListed DEF Ordered, InOrder, OnlyShares
<1>2. Ordered(<<Update(k)>>)
  <2> DEFINE locks == <<Update(k)>>
  <2>1. Len(locks) = 1 /\ locks[1] = Update(k)
    OBVIOUS
  <2> HIDE DEF locks
  <2>2. InOrder(locks, 1)
    BY <2>1 DEF InOrder, EndsWithContradiction
  <2>3. Ordered(locks)
    BY <2>1, <2>2 DEF Ordered
  <2> QED BY <2>3 DEF locks
<1>3. Ordered(<<GovernanceHead>> \o Shares(Claims) \o <<Update(k)>>)
  <2> DEFINE t == Shares(Claims)
             first == <<GovernanceHead>> \o t
             locks == first \o <<Update(k)>>
  <2>1. t \in Seq(Locks) /\ GovernanceHead \in Locks /\ Update(k) \in Locks
    BY SharesListed, HeadIsLock, RowLocks DEF Proposals0
  <2>2. \A i \in 1..Len(t) : t[i] \in ClaimShares
    BY SharesListed
  <2> HIDE DEF t
  <2>3. /\ Len(t) \in Nat /\ first \in Seq(Locks) /\ Len(first) = 1 + Len(t) /\ first[1] = GovernanceHead
        /\ \A i \in 1..Len(t) : first[1 + i] = t[i]
    BY <2>1
  <2> HIDE DEF first
  <2>4. /\ Len(locks) = 2 + Len(t) /\ locks[2 + Len(t)] = Update(k)
        /\ \A i \in 1..(1 + Len(t)) : locks[i] = first[i]
    BY <2>1, <2>3
  <2> HIDE DEF locks
  <2>5. locks[1] = GovernanceHead
    BY <2>3, <2>4
  <2>6. ASSUME NEW i \in 1..Len(locks), i # 1, i # Len(locks) PROVE InOrder(locks, i)
    <3>1. i - 1 \in 1..Len(t) /\ i = 1 + (i - 1) /\ i \in 1..(1 + Len(t))
      BY <2>3, <2>4, <2>6
    <3>2. locks[i] \in ClaimShares
      BY <2>2, <2>3, <2>4, <3>1
    <3>3. HeadBefore(locks, i)
      BY <2>3, <2>4, <2>5, <2>6 DEF HeadBefore
    <3> QED BY <3>2, <3>3 DEF InOrder, BehindHead, ClaimShares
  <2>7. InOrder(locks, 1) /\ InOrder(locks, Len(locks))
    BY <2>4, <2>5 DEF InOrder, EndsWithContradiction
  <2>8. Ordered(locks)
    BY <2>3, <2>4, <2>6, <2>7 DEF Ordered
  <2> QED BY <2>8 DEF locks, first, t
<1> QED BY <1>1, <1>2, <1>3

AlignedJob(job) == job.writer \in Unaligned \/ Ordered(job.locks)

LEMMA AlignedIf ==
    ASSUME NEW who, NEW row, NEW locks, NEW repeatable, NEW retried,
           who \in Unaligned \/ Ordered(locks)
    PROVE  AlignedJob(Job(who, row, locks, repeatable, retried))
  BY DEF AlignedJob, Job

LEMMA AlignedSupersessions == \A job \in Supersessions : AlignedJob(job)
<1>1. ASSUME NEW p \in SourceProposals \union AdmittedProposals, NEW c \in Claims
      PROVE  AlignedJob(Job("supersession", p, <<Update(p), GovernanceHead, Update("supersession head"), Update(c)>>, TRUE, Serialization))
  <2>1. p \in Plain
    BY DEF Plain
  <2> QED BY <2>1, OrderedSupersession, AlignedIf
<1> QED BY <1>1 DEF Supersessions

LEMMA AlignedRelations ==
    ASSUME NEW c \in Claims, NEW o \in AdmittedProposals
    PROVE  /\ AlignedJob(Job("references", c, <<GovernanceHead, Share(c), Share(o)>>, TRUE, AnyConflict))
           /\ AlignedJob(Job("implements", c, <<Share(c), Share(o), GovernanceHead>>, TRUE, AnyConflict))
<1>1. "implements" \in Unaligned
  BY DEF Unaligned
<1> QED BY <1>1, OrderedReferences, AlignedIf

LEMMA AlignedContradictions ==
    \A job \in UNION {ContradictionSubmissions, NativeContradictions, ContradictionDispositions, ReviewedContradictions} :
        AlignedJob(job)
<1>1. ASSUME NEW k \in Contradictions
      PROVE  /\ AlignedJob(Job("submission", k, Shares(Claims), FALSE, {}))
             /\ AlignedJob(Job("native contradiction", k, <<Update(k)>> \o Shares(Claims) \o <<GovernanceHead>>, FALSE, {}))
             /\ AlignedJob(Job("contradiction disposition", k, <<Update(k)>>, FALSE, {}))
             /\ AlignedJob(Job("reviewed contradiction", k, <<GovernanceHead>> \o Shares(Claims) \o <<Update(k)>>, TRUE, Serialization))
  <2>1. "native contradiction" \in Unaligned
    BY DEF Unaligned
  <2> QED BY <2>1, OrderedContradictions, AlignedIf
<1> QED BY <1>1 DEF ContradictionSubmissions, NativeContradictions, ContradictionDispositions, ReviewedContradictions

LEMMA AlignedPlain ==
    ASSUME NEW p \in Plain, NEW who, NEW repeatable, NEW retried
    PROVE  /\ AlignedJob(Job(who, p, <<Update(p), GovernanceHead>>, repeatable, retried))
           /\ AlignedJob(Job(who, p, Derivation(p), repeatable, retried))
  BY OrderedPlain, OrderedDerivation, AlignedIf

LEMMA AlignedClaims ==
    ASSUME NEW c \in Claims, NEW who, NEW retried
    PROVE  AlignedJob(Job(who, c, <<GovernanceHead, Share(c)>>, TRUE, retried))
  BY OrderedClaim, AlignedIf

LEMMA AlignedJobsOrdered == \A job \in Jobs : AlignedJob(job)
<1>1. SourceProposals \cup AdmittedProposals \cup DerivedProposals \subseteq Plain
  BY DEF Plain
<1>2. \A job \in OrdinaryAdmissions : AlignedJob(job)
  BY <1>1, AlignedPlain DEF OrdinaryAdmissions
<1>3. \A job \in OrdinaryDispositions : AlignedJob(job)
  BY <1>1, AlignedPlain DEF OrdinaryDispositions
<1>4. \A job \in ReviewedAdmissions : AlignedJob(job)
  BY <1>1, AlignedPlain DEF ReviewedAdmissions
<1>5. \A job \in ReviewedDispositions : AlignedJob(job)
  BY <1>1, AlignedPlain DEF ReviewedDispositions
<1>6. \A job \in EndpointAdmissions : AlignedJob(job)
  BY <1>1, AlignedPlain DEF EndpointAdmissions
<1>7. \A job \in HistoricalDerivations : AlignedJob(job)
  BY <1>1, AlignedPlain DEF HistoricalDerivations
<1>8. \A job \in GovernanceDecisions : AlignedJob(job)
  BY AlignedClaims DEF GovernanceDecisions
<1>9. \A job \in Registrations : AlignedJob(job)
  BY AlignedClaims DEF Registrations
<1>10. \A job \in References : AlignedJob(job)
  BY AlignedRelations DEF References
<1>11. \A job \in Implements : AlignedJob(job)
  BY AlignedRelations DEF Implements
<1> QED BY <1>2, <1>3, <1>4, <1>5, <1>6, <1>7, <1>8, <1>9, <1>10, <1>11,
           AlignedSupersessions, AlignedContradictions DEF Jobs

-----------------------------------------------------------------------------
(* Writers that wait in a circle.                                             *)

\* What a supersession admitted earlier stays decided.
EarlierDecided == \A o \in AdmittedProposals : decided.outcome[o] = "decided"

LEMMA EarlierStayDecided == LockSpec => []EarlierDecided
<1>1. LockInit => EarlierDecided
  BY DEF LockInit, EarlierDecided, Proposals0
<1>2. LockInv /\ EarlierDecided /\ [LockNext]_lockVars => EarlierDecided'
  <2> SUFFICES ASSUME LockInv, EarlierDecided, [LockNext]_lockVars, NEW o \in AdmittedProposals
               PROVE  decided'.outcome[o] = "decided"
    BY DEF EarlierDecided
  <2>1. decided.outcome[o] = "decided" /\ o \in Proposals0
    BY DEF EarlierDecided, Proposals0
  <2>2. CASE decided' = decided
    BY <2>1, <2>2
  <2>3. ASSUME NEW s \in Sessions, Commit(s) PROVE decided'.outcome[o] = "decided"
    <3>1. CommitDecides(s) /\ decided.outcome \in [Proposals0 -> Outcomes]
      BY <2>3, CommitEffects DEF LockInv, SessionsTyped, Views0
    <3> QED BY <2>1, <3>1 DEF CommitDecides
  <2> QED BY <2>2, <2>3, SessionSteps DEF LockInv, Restarts, Stops, Advances, lockVars
<1> QED BY <1>1, <1>2, LockInvAlways, PTL DEF LockSpec

\* A writer of a circle, and the locks it holds and wants.
Waits(s) ==
    /\ s \in Sessions /\ Running(s) /\ ~ Complete(s)
    /\ sessions[s].job \in Jobs /\ Ordered(sessions[s].job.locks)

LEMMA HeldIndex ==
    ASSUME LockInv, NEW s, Waits(s), NEW l \in Held(s)
    PROVE  \E i \in 1..Len(sessions[s].job.locks) :
             /\ i <= sessions[s].held /\ i # Len(sessions[s].job.locks)
             /\ l = sessions[s].job.locks[i] /\ InOrder(sessions[s].job.locks, i)
<1>1. sessions[s].held \in 0..Len(sessions[s].job.locks) /\ Len(sessions[s].job.locks) \in Nat
  BY RunningIsUnderway DEF LockInv, Waits
<1>2. sessions[s].held # Len(sessions[s].job.locks)
  BY DEF Waits, Complete
<1>3. PICK i \in 1..sessions[s].held : l = sessions[s].job.locks[i]
  BY DEF Held
<1> QED BY <1>1, <1>2, <1>3 DEF Waits, Ordered

LEMMA WantedIndex ==
    ASSUME LockInv, NEW s, Waits(s)
    PROVE  /\ sessions[s].held + 1 \in 1..Len(sessions[s].job.locks)
           /\ Wants(s) = sessions[s].job.locks[sessions[s].held + 1]
           /\ InOrder(sessions[s].job.locks, sessions[s].held + 1)
<1>1. sessions[s].held \in 0..Len(sessions[s].job.locks) /\ Len(sessions[s].job.locks) \in Nat
  BY RunningIsUnderway DEF LockInv, Waits
<1>2. sessions[s].held # Len(sessions[s].job.locks)
  BY DEF Waits, Complete
<1> QED BY <1>1, <1>2 DEF Waits, Ordered, Wants

HoldsHead(s) == GovernanceHead \in Held(s)

LEMMA HeadBeforeIsHeld ==
    ASSUME LockInv, NEW s, Waits(s), NEW i \in 1..Len(sessions[s].job.locks),
           i <= sessions[s].held + 1, HeadBefore(sessions[s].job.locks, i)
    PROVE  HoldsHead(s)
<1>1. sessions[s].held \in Nat /\ Len(sessions[s].job.locks) \in Nat
  BY RunningIsUnderway DEF LockInv, Waits
<1>2. PICK j \in 1..Len(sessions[s].job.locks) : j < i /\ sessions[s].job.locks[j] = GovernanceHead
  BY DEF HeadBefore
<1>3. j \in 1..sessions[s].held
  BY <1>1, <1>2
<1> QED BY <1>2, <1>3 DEF HoldsHead, Held

LEMMA OneHoldsHead ==
    ASSUME LockInv, NEW s, NEW t, Waits(s), Waits(t), s # t, HoldsHead(s)
    PROVE  ~ HoldsHead(t)
  BY DEF LockInv, Exclusive, Waits, HoldsHead, Conflicts, GovernanceHead, Update

LEMMA LockShapes ==
    ASSUME NEW row
    PROVE  /\ Update(row)[1] = row /\ Update(row)[2] = "update"
           /\ Share(row)[1] = row /\ Share(row)[2] = "share"
           /\ GovernanceHead[1] = "governance head" /\ GovernanceHead[2] = "update"
  BY DEF Update, Share, GovernanceHead

\* A row of one table is no row of another.
LEMMA RowsApart ==
    /\ AdmittedProposals \subseteq Plain /\ Plain \subseteq Proposals0
    /\ \A p \in Plain : /\ p \notin Claims /\ p \notin Contradictions /\ p # "governance head"
                         /\ p # "derivation" /\ p # "supersession head"
    /\ \A c \in Claims : /\ c \notin Contradictions /\ c # "governance head"
                          /\ c # "derivation" /\ c # "supersession head"
    /\ \A k \in Contradictions : /\ k # "governance head" /\ k # "derivation"
                                  /\ k # "supersession head"
<1>1. AdmittedProposals \subseteq Plain /\ Plain \subseteq Proposals0 /\ Contradictions \subseteq Proposals0
  BY DEF Plain, Proposals0
<1>2. \A r \in Claims \cup Proposals0 : r # "governance head" /\ r # "derivation" /\ r # "supersession head"
  BY RowsAssumption
<1>3. \A p \in Plain : p \notin Contradictions
  BY RowsAssumption DEF Plain
<1>4. \A c \in Claims : c \notin Proposals0
  BY RowsAssumption
<1> QED BY <1>1, <1>2, <1>3, <1>4

\* What a waiting writer may hold: never the last lock of all.
HeldKinds(t, l) ==
    \/ /\ \E p \in Plain : l = Update(p)
       /\ HoldsHead(t) \/ Update("derivation") \in Held(t) \/ Wants(t) \in {GovernanceHead, Update("derivation")}
    \/ l = Update("derivation") /\ (HoldsHead(t) \/ Wants(t) = GovernanceHead)
    \/ l = GovernanceHead
    \/ HoldsHead(t) /\ \E r \in Claims \cup AdmittedProposals : l = Share(r)
    \/ HoldsHead(t) /\ l = Update("supersession head")
    \/ l \in ClaimShares /\ Wants(t) \in ClaimShares

\* The rows and the modes of the locks that may be held.
LEMMA HeldRows ==
    ASSUME NEW t, NEW l, HeldKinds(t, l)
    PROVE  \/ l[1] \in Plain /\ l[2] = "update" /\ l = Update(l[1])
           \/ l[1] \in {"derivation", "governance head", "supersession head"}
           \/ l[1] \in Claims \cup AdmittedProposals /\ l[2] = "share"
<1>1. \A p \in Plain : l = Update(p) => l[1] = p /\ l[2] = "update"
  BY DEF Update
<1>2. \A r \in Claims \cup AdmittedProposals : l = Share(r) => l[1] = r /\ l[2] = "share"
  BY DEF Share
<1>3. /\ l = Update("derivation") => l[1] = "derivation"
      /\ l = Update("supersession head") => l[1] = "supersession head"
      /\ l = GovernanceHead => l[1] = "governance head"
  <2>1. Update("derivation")[1] = "derivation" /\ Update("supersession head")[1] = "supersession head"
    BY DEF Update
  <2>2. GovernanceHead[1] = "governance head"
    BY DEF GovernanceHead, Update
  <2> QED BY <2>1, <2>2
<1>4. l \in ClaimShares => \E r \in Claims \cup AdmittedProposals : l = Share(r)
  BY DEF ClaimShares
<1>5. \/ \E p \in Plain : l = Update(p)
      \/ l = Update("derivation") \/ l = GovernanceHead \/ l = Update("supersession head")
      \/ \E r \in Claims \cup AdmittedProposals : l = Share(r)
  BY <1>4 DEF HeldKinds
<1>6. (\E p \in Plain : l = Update(p)) => l[1] \in Plain /\ l[2] = "update" /\ l = Update(l[1])
  BY <1>1
<1>7. (\E r \in Claims \cup AdmittedProposals : l = Share(r)) =>
          l[1] \in Claims \cup AdmittedProposals /\ l[2] = "share"
  BY <1>2
<1> QED BY <1>3, <1>5, <1>6, <1>7

WantedKinds(s) ==
    \/ ~ HoldsHead(s) /\ \E p \in Plain : Wants(s) = Update(p)
    \/ ~ HoldsHead(s) /\ Wants(s) = Update("derivation")
    \/ Wants(s) = GovernanceHead
    \/ HoldsHead(s) /\ \E r \in Claims \cup AdmittedProposals : Wants(s) = Share(r)
    \/ HoldsHead(s) /\ Wants(s) = Update("supersession head")
    \/ HoldsHead(s) /\ \E c \in Claims : Wants(s) = Update(c)
    \/ \E k \in Contradictions : Wants(s) = Update(k)
    \/ Wants(s) \in ClaimShares

\* The lock after one that is held is held, or the one that is wanted.
LEMMA NextLock ==
    ASSUME LockInv, NEW t, Waits(t), NEW i \in 1..Len(sessions[t].job.locks), i <= sessions[t].held,
           i + 1 \in 1..Len(sessions[t].job.locks)
    PROVE  sessions[t].job.locks[i + 1] \in Held(t) \/ sessions[t].job.locks[i + 1] = Wants(t)
<1>1. sessions[t].held \in Nat /\ Len(sessions[t].job.locks) \in Nat
  BY RunningIsUnderway DEF LockInv, Waits
<1>2. CASE i + 1 <= sessions[t].held
  <2>1. i + 1 \in 1..sessions[t].held
    BY <1>1, <1>2
  <2> QED BY <2>1 DEF Held
<1>3. CASE i = sessions[t].held
  BY <1>3, WantedIndex
<1> QED BY <1>1, <1>2, <1>3

LEMMA HeldLock ==
    ASSUME LockInv, NEW t, Waits(t), NEW l \in Held(t)
    PROVE  HeldKinds(t, l)
<1> DEFINE locks == sessions[t].job.locks
<1>1. PICK i \in 1..Len(locks) : /\ i <= sessions[t].held /\ i # Len(locks)
                                 /\ l = locks[i] /\ InOrder(locks, i)
  BY HeldIndex
<1>2. Len(locks) \in Nat /\ sessions[t].held \in Nat
  BY RunningIsUnderway DEF LockInv, Waits
<1>3. i + 1 \in 1..Len(locks) /\ (locks[i + 1] \in Held(t) \/ locks[i + 1] = Wants(t))
  <2>1. i + 1 \in 1..Len(locks)
    BY <1>1, <1>2
  <2> QED BY <1>1, <2>1, NextLock
<1>4. CASE StartsWithProposal(locks, i)
  <2>1. i = 1 /\ (\E p \in Plain : l = Update(p)) /\ locks[2] \in {GovernanceHead, Update("derivation")}
    BY <1>1, <1>4 DEF StartsWithProposal, FirstProposal
  <2>2. locks[2] \in Held(t) \/ locks[2] = Wants(t)
    BY <1>3, <2>1
  <2> QED BY <2>1, <2>2 DEF HeldKinds, HoldsHead
<1>5. CASE ThenDerivation(locks, i)
  <2>1. i = 2 /\ l = Update("derivation") /\ locks[3] = GovernanceHead
    BY <1>1, <1>5 DEF ThenDerivation
  <2>2. locks[3] \in Held(t) \/ locks[3] = Wants(t)
    BY <1>3, <2>1
  <2> QED BY <2>1, <2>2 DEF HeldKinds, HoldsHead
<1>6. CASE locks[i] = GovernanceHead
  BY <1>1, <1>6 DEF HeldKinds
<1>7. CASE BehindHead(locks, i)
  <2>1. HoldsHead(t)
    <3>1. i <= sessions[t].held + 1
      BY <1>1, <1>2
    <3> QED BY <1>7, <3>1, HeadBeforeIsHeld DEF BehindHead
  <2> QED BY <1>1, <1>7, <2>1 DEF BehindHead, HeldKinds
<1>8. CASE OnlyShares(locks)
  <2>1. l \in ClaimShares /\ Wants(t) \in ClaimShares
    BY <1>1, <1>8, WantedIndex DEF OnlyShares
  <2> QED BY <2>1 DEF HeldKinds
<1> QED BY <1>1, <1>4, <1>5, <1>6, <1>7, <1>8 DEF InOrder, EndsWithContradiction

LEMMA WantedLock ==
    ASSUME LockInv, NEW s, Waits(s)
    PROVE  WantedKinds(s)
<1> DEFINE locks == sessions[s].job.locks
           i == sessions[s].held + 1
<1>1. i \in 1..Len(locks) /\ Wants(s) = locks[i] /\ InOrder(locks, i)
  BY WantedIndex
<1>2. Len(locks) \in Nat /\ sessions[s].held \in Nat
  BY RunningIsUnderway DEF LockInv, Waits
<1>3. CASE StartsWithProposal(locks, i)
  <2>1. sessions[s].held = 0
    BY <1>2, <1>3 DEF StartsWithProposal
  <2>2. ~ HoldsHead(s)
    BY <2>1 DEF HoldsHead, Held
  <2>3. \E p \in Plain : Wants(s) = Update(p)
    BY <1>1, <1>3 DEF StartsWithProposal, FirstProposal
  <2> QED BY <2>2, <2>3 DEF WantedKinds
<1>4. CASE ThenDerivation(locks, i)
  <2>1. sessions[s].held = 1 /\ Wants(s) = Update("derivation")
    BY <1>1, <1>2, <1>4 DEF ThenDerivation
  <2>2. PICK p \in Plain : locks[1] = Update(p)
    BY <1>4 DEF ThenDerivation, FirstProposal
  <2>3. Held(s) = {Update(p)}
    BY <2>1, <2>2 DEF Held
  <2>4. Update(p) # GovernanceHead
    <3>1. Update(p)[1] = p /\ GovernanceHead[1] = "governance head" /\ p # "governance head"
      BY LockShapes, RowsApart
    <3> QED BY <3>1
  <2>5. ~ HoldsHead(s)
    BY <2>3, <2>4 DEF HoldsHead
  <2> QED BY <2>1, <2>5 DEF WantedKinds
<1>5. CASE locks[i] = GovernanceHead
  BY <1>1, <1>5 DEF WantedKinds
<1>6. CASE BehindHead(locks, i)
  <2>1. HoldsHead(s)
    <3>1. i <= sessions[s].held + 1
      BY <1>2
    <3> QED BY <1>1, <1>6, <3>1, HeadBeforeIsHeld DEF BehindHead
  <2> QED BY <1>1, <1>6, <2>1 DEF BehindHead, WantedKinds
<1>7. CASE EndsWithContradiction(locks, i)
  BY <1>1, <1>7 DEF EndsWithContradiction, WantedKinds
<1>8. CASE OnlyShares(locks)
  BY <1>1, <1>8 DEF OnlyShares, WantedKinds
<1> QED BY <1>1, <1>3, <1>4, <1>5, <1>6, <1>7, <1>8 DEF InOrder

BlockedBy(s, t) == s # t /\ \E l \in Held(t) : Conflicts(l, Wants(s))

Circle(S) == \A s \in S : Waits(s) /\ \E t \in S : BlockedBy(s, t)

\* A share of a claim is waited for only by a supersession that wants it last, and
\* that one is not in a circle as a holder: in a circle shares are never refused.
LEMMA SharesNotRefused ==
    ASSUME LockInv, NEW S, Circle(S), NEW s \in S
    PROVE  Wants(s) \notin ClaimShares
<1> SUFFICES ASSUME NEW c \in Claims, Wants(s) = Share(c) PROVE FALSE
  BY DEF ClaimShares
<1>1. PICK t \in S : Waits(t) /\ BlockedBy(s, t)
  BY DEF Circle
<1>2. PICK l \in Held(t) : Conflicts(l, Share(c))
  BY <1>1 DEF BlockedBy
<1>3. l[1] = c /\ l[2] = "update"
  BY <1>2, LockShapes DEF Conflicts
<1>4. HeldKinds(t, l)
  BY <1>1, HeldLock
<1> QED BY <1>3, <1>4, HeldRows, RowsApart

LEMMA NobodyHoldsHead ==
    ASSUME LockInv, EarlierDecided, NEW S, Circle(S), NEW s \in S
    PROVE  ~ HoldsHead(s)
<1> SUFFICES ASSUME HoldsHead(s) PROVE FALSE
  OBVIOUS
<1>1. PICK t \in S : Waits(s) /\ Waits(t) /\ BlockedBy(s, t)
  BY DEF Circle
<1>2. ~ HoldsHead(t)
  BY <1>1, OneHoldsHead DEF BlockedBy
<1>3. PICK l \in Held(t) : Conflicts(l, Wants(s))
  BY <1>1 DEF BlockedBy
<1>4. HeldKinds(t, l) /\ WantedKinds(s) /\ Wants(t) \notin ClaimShares
  BY <1>1, HeldLock, WantedLock, SharesNotRefused
<1>5. l # GovernanceHead
  BY <1>2 DEF HoldsHead
<1>6. l = Update("derivation") \/ \E p \in Plain : l = Update(p)
  BY <1>2, <1>4, <1>5 DEF HeldKinds
<1>7. (l[1] \in Plain /\ l = Update(l[1])) \/ l[1] = "derivation"
  BY <1>6 DEF Update
<1>8. l[1] = Wants(s)[1]
  BY <1>3 DEF Conflicts
<1>9. l[1] \in AdmittedProposals /\ l = Update(l[1])
  <2>1. \A r : (Wants(s) = Share(r) \/ Wants(s) = Update(r)) => Wants(s)[1] = r
    BY LockShapes
  <2>2. Wants(s) = GovernanceHead => Wants(s)[1] = "governance head"
    BY LockShapes
  <2>3. \/ Wants(s)[1] \in {"governance head", "supersession head"}
        \/ Wants(s)[1] \in Claims \cup AdmittedProposals \cup Contradictions
    <3>1. Wants(s) \notin ClaimShares
      BY SharesNotRefused
    <3>2. Wants(s) = Update("supersession head") => Wants(s)[1] = "supersession head"
      BY <2>1
    <3>3. \A r \in Claims \cup AdmittedProposals : Wants(s) = Share(r) => Wants(s)[1] \in Claims \cup AdmittedProposals
      BY <2>1
    <3>4. \A r \in Claims \cup Contradictions : Wants(s) = Update(r) => Wants(s)[1] \in Claims \cup Contradictions
      BY <2>1
    <3> QED BY <1>4, <2>2, <3>1, <3>2, <3>3, <3>4 DEF WantedKinds
  <2> QED BY <1>7, <1>8, <2>3, RowsApart
<1>10. decided.outcome[l[1]] = "pending" /\ l[1] \in AdmittedProposals
  <2>1. l[1] \in Proposals0 /\ Update(l[1]) \in Held(t)
    BY <1>9, RowsApart
  <2> QED BY <1>1, <1>9, <2>1 DEF LockInv, PendingWhileHeld, Waits
<1> QED BY <1>10 DEF EarlierDecided

LEMMA NoCircle ==
    ASSUME LockInv, EarlierDecided, NEW S, Circle(S)
    PROVE  S = {}
<1>1. \A s \in S : ~ HoldsHead(s) /\ Wants(s) \notin ClaimShares
  BY NobodyHoldsHead, SharesNotRefused
<1>2. \A s \in S : \A l \in Held(s) : HeldKinds(s, l)
  BY HeldLock DEF Circle
<1>3. \A s \in S : \A l \in Held(s) : l # GovernanceHead
  BY <1>1 DEF HoldsHead
<1>4. ASSUME NEW s \in S PROVE Wants(s) # GovernanceHead
  <2> SUFFICES ASSUME Wants(s) = GovernanceHead PROVE FALSE
    OBVIOUS
  <2>1. PICK t \in S : \E l \in Held(t) : Conflicts(l, GovernanceHead)
    BY DEF Circle, BlockedBy
  <2>2. PICK l \in Held(t) : l[1] = "governance head"
    BY <2>1, LockShapes DEF Conflicts
  <2>3. HeldKinds(t, l) /\ l # GovernanceHead /\ ~ HoldsHead(t) /\ Wants(t) \notin ClaimShares
    BY <1>1, <1>2, <1>3
  <2>4. l = Update("derivation") \/ \E p \in Plain : l = Update(p)
    BY <2>3 DEF HeldKinds
  <2>5. l[1] \in Plain \/ l[1] = "derivation"
    <3>1. CASE l = Update("derivation")
      BY <3>1 DEF Update
    <3>2. ASSUME NEW p \in Plain, l = Update(p) PROVE l[1] \in Plain
      BY <3>2 DEF Update
    <3> QED BY <2>4, <3>1, <3>2
  <2> QED BY <2>2, <2>5, RowsApart
<1>5. ASSUME NEW s \in S PROVE Update("derivation") \notin Held(s)
  <2> SUFFICES ASSUME Update("derivation") \in Held(s) PROVE FALSE
    OBVIOUS
  <2>1. HeldKinds(s, Update("derivation")) /\ Update("derivation") # GovernanceHead
    BY <1>2, <1>3
  <2>2. ASSUME NEW p \in Plain PROVE Update("derivation") # Update(p)
    <3>1. Update(p)[1] = p /\ Update("derivation")[1] = "derivation" /\ p # "derivation"
      BY LockShapes, RowsApart
    <3> QED BY <3>1
  <2> QED BY <1>1, <1>4, <2>1, <2>2 DEF HeldKinds
<1>6. ASSUME NEW s \in S PROVE Wants(s) # Update("derivation")
  <2> SUFFICES ASSUME Wants(s) = Update("derivation") PROVE FALSE
    OBVIOUS
  <2>1. PICK t \in S : \E l \in Held(t) : Conflicts(l, Update("derivation"))
    BY DEF Circle, BlockedBy
  <2>2. PICK l \in Held(t) : l[1] = "derivation"
    BY <2>1, LockShapes DEF Conflicts
  <2>3. HeldKinds(t, l) /\ l # GovernanceHead /\ ~ HoldsHead(t) /\ Wants(t) \notin ClaimShares
    BY <1>1, <1>2, <1>3
  <2>4. l # Update("derivation")
    BY <1>5
  <2>5. \E p \in Plain : l = Update(p)
    BY <2>3, <2>4 DEF HeldKinds
  <2>6. l[1] \in Plain
    BY <2>5 DEF Update
  <2> QED BY <2>2, <2>6, RowsApart
<1>7. ASSUME NEW s \in S PROVE Held(s) = {}
  BY <1>1, <1>2, <1>3, <1>4, <1>5, <1>6 DEF HeldKinds
<1> QED BY <1>7 DEF Circle, BlockedBy

-----------------------------------------------------------------------------
\* However many transactions reach for a proposal or a contradiction, at
\* whatever isolation, one of them decides it and no other does: each has to
\* hold its row while it is still pending.
THEOREM ProposalsDecidedOnce == LockSpec => []DecidedOnce
<1>1. LockInv => DecidedOnce
  BY DEF LockInv
<1> QED BY <1>1, LockInvAlways, PTL

\* A derived claim reviewed for current use is committed only while none of its
\* parents is withdrawn or superseded: the review holds the governance head its
\* snapshot has seen, and every withdrawal moves that head.
THEOREM CurrentUseGuarded == LockSpec => CurrentUseHolds
<1>1. LockInv /\ [LockNext]_lockVars => [decided'.inUse # decided.inUse => decided.unusable = {}]_lockVars
  <2> SUFFICES ASSUME LockInv, LockNext, decided'.inUse # decided.inUse PROVE decided.unusable = {}
    OBVIOUS
  <2>1. PICK s \in Sessions : Commit(s)
    BY SessionSteps DEF LockInv, Restarts, Stops, Advances
  <2>2. Running(s) /\ sessions[s].job.repeatable /\ GovernanceHead \in Held(s) /\ sessions[s].seen.unusable = {}
    BY <2>1, CommitEffects DEF LockInv, CommitUses, Commit
  <2>3. sessions[s].seen.revision = decided.revision
    BY <2>2 DEF LockInv, HeadSeen
  <2> QED BY <2>2, <2>3 DEF LockInv, SnapshotsAge
<1> QED BY <1>1, LockInvAlways, PTL DEF LockSpec, CurrentUseHolds

\* Whatever writers run at the same time, each that waits in a circle is broken
\* out of it by one of the two unaligned ones: all the others take the head before
\* what they share, so for any number of them none is ever a deadlock victim
\* (the lock order of the admission and decision transactions).
THEOREM AlignedWritersNeverDeadlock == LockSpec => []AlignedNeverDeadlock
<1>1. LockInv /\ EarlierDecided => AlignedNeverDeadlock
  <2> SUFFICES ASSUME LockInv, EarlierDecided, NEW S \in SUBSET Sessions, Stuck(S),
                      \A s \in S : sessions[s].job.writer \notin Unaligned
               PROVE  FALSE
    BY DEF AlignedNeverDeadlock
  <2>1. S # {} /\ \A s \in S : Blockers(s) \cap S # {}
    BY DEF Stuck
  <2>2. ASSUME NEW s \in S PROVE Waits(s) /\ \E t \in S : BlockedBy(s, t)
    <3>1. PICK t \in S : t \in Blockers(s)
      BY <2>1
    <3>2. /\ Running(s) /\ ~ Complete(s) /\ t # s
          /\ \E l \in Held(t) : Conflicts(l, Wants(s))
      BY <3>1 DEF Blockers
    <3>3. sessions[s].job \in Jobs /\ s \in Sessions
      BY <3>2, RunningIsUnderway DEF LockInv
    <3> QED BY <3>2, <3>3, AlignedJobsOrdered DEF AlignedJob, Waits, BlockedBy
  <2> QED BY <2>1, <2>2, NoCircle DEF Circle
<1> QED BY <1>1, LockInvAlways, EarlierStayDecided, PTL

-----------------------------------------------------------------------------
(* Admissions and their replay.                                               *)

MaterializationSpec == MaterializationInit /\ [][MaterializationNext]_materializationVars

AdmissionWriters == {"ordinary", "reviewed", "supersession"}

MatTyped ==
    /\ \A row \in DOMAIN rows :
         rows[row].origin \in MatProposals /\ writer[rows[row].origin] # "none"
    /\ writer \in [MatProposals -> {"none"} \cup AdmissionWriters]
    /\ manifest = [p \in MatProposals |-> manifest[p]]
    /\ \A p \in MatProposals : writer[p] = "supersession" => p \in MatStatements

\* A claim belongs to the proposal it is named after, and a row that replaces a
\* claim comes with the replacement.
RowsNamed ==
    \A row \in DOMAIN rows :
        /\ row[1] \in {"claim", "derived"} => row = ClaimOfProposal(rows[row].origin)
        /\ row[1] = "supersedes" => row[2] \in DOMAIN rows

\* The manifest of p accounts for all that is attributed to p, and what p found
\* instead of writing it was written by the admission it is attributed to.
Accounts(p) ==
    /\ manifest[p].materialized \subseteq manifest[p].bound
    /\ manifest[p].materialized \subseteq RowsOf(p)
    /\ manifest[p].bound \subseteq DOMAIN rows
    /\ \A row \in RowsOf(p) \ manifest[p].materialized : IsEdge(row) /\ IndependentEdge(p, row)
    /\ \A row \in Mutation(p) : Matches(p, row, writer[p])
    /\ writer[p] = "supersession" =>
         /\ Mutation(p) \subseteq manifest[p].bound
         /\ {row \in manifest[p].bound : IsEdge(row)} \subseteq manifest[p].materialized
    /\ writer[p] # "supersession" =>
         /\ manifest[p].bound = Mutation(p)
         /\ \A row \in Mutation(p) \ manifest[p].materialized :
              rows[row].origin # p /\ FirstMaterializer(row, rows[row].origin)

MaterializationInv ==
    MatTyped /\ RowsNamed /\ \A p \in MatProposals : writer[p] # "none" => Accounts(p)

LEMMA AccountsReplay ==
    ASSUME MatTyped, NEW p \in MatProposals, writer[p] # "none", Accounts(p)
    PROVE  {by \in AdmissionWriters : Replays(p, by)} = {writer[p]}
<1>1. writer[p] \in AdmissionWriters
  BY DEF MatTyped
<1>2. CASE writer[p] = "supersession"
  <2>1. {row \in Attributed(p) : IsEdge(row)} = {row \in manifest[p].bound : IsEdge(row)}
    BY <1>2 DEF Accounts, Attributed
  <2>2. \A row \in RowsOf(p) : ~ IsEdge(row) => row \in manifest[p].bound
    BY DEF Accounts
  <2>3. \A row \in Mutation(p) : Matches(p, row, "supersession")
    BY <1>2 DEF Accounts
  <2>4. ReplaysSupersession(p)
    BY <2>1, <2>2, <2>3 DEF ReplaysSupersession
  <2> QED BY <1>1, <1>2, <2>4 DEF Replays
<1>3. CASE writer[p] # "supersession"
  <2>1. Attributed(p) = manifest[p].materialized
    BY DEF Accounts, Attributed
  <2>2. \A row \in manifest[p].materialized : rows[row].origin = p
    BY DEF Accounts, RowsOf
  <2>3. ReplaysMutation(p, writer[p])
    BY <1>3, <2>1, <2>2 DEF ReplaysMutation, Accounts
  <2> QED BY <1>1, <1>3, <2>3 DEF Replays
<1> QED BY <1>2, <1>3

\* Rows are only added, all of one proposal.
Added(new, o) ==
    /\ DOMAIN rows' = DOMAIN rows \cup new
    /\ \A row \in DOMAIN rows : rows'[row] = rows[row]
    /\ \A row \in new \ DOMAIN rows : rows'[row].origin = o

\* What others add does not touch the accounts of p, as long as what is
\* attributed to p are relations with receipts of their own.
LEMMA AccountsStay ==
    ASSUME MatTyped, NEW p \in MatProposals, writer[p] # "none", Accounts(p),
           NEW new, NEW o, Added(new, o), receipts \subseteq receipts',
           \A q \in MatProposals : writer[q] # "none" => writer'[q] = writer[q] /\ manifest'[q] = manifest[q],
           o = p => \A row \in new \ DOMAIN rows : IsEdge(row) /\ IndependentEdge(p, row)'
    PROVE  Accounts(p)'
<1>1. writer'[p] = writer[p] /\ manifest'[p] = manifest[p]
  OBVIOUS
<1>2. /\ RowsOf(p) \subseteq RowsOf(p)'
      /\ \A row \in RowsOf(p)' \ RowsOf(p) : o = p /\ row \in new \ DOMAIN rows
  BY DEF RowsOf, Added
<1>3. manifest'[p].materialized \subseteq RowsOf(p)' /\ manifest'[p].bound \subseteq DOMAIN rows'
  BY <1>1, <1>2 DEF Accounts, Added
<1>4. \A row \in RowsOf(p)' \ manifest'[p].materialized : IsEdge(row) /\ IndependentEdge(p, row)'
  BY <1>1, <1>2 DEF Accounts, IndependentEdge
<1>5. \A row \in Mutation(p) : Matches(p, row, writer[p])'
  BY <1>1 DEF Accounts, Matches, Added
<1>6. writer'[p] # "supersession" => \A row \in Mutation(p) \ manifest'[p].materialized :
              rows'[row].origin # p /\ FirstMaterializer(row, rows[row].origin)'
  <2> SUFFICES ASSUME writer[p] # "supersession", NEW row \in Mutation(p) \ manifest[p].materialized
               PROVE  rows'[row].origin # p /\ FirstMaterializer(row, rows[row].origin)'
    BY <1>1
  <2>1. row \in DOMAIN rows /\ rows'[row] = rows[row]
    BY DEF Accounts, Added
  <2>2. rows[row].origin # p /\ FirstMaterializer(row, rows[row].origin)
    BY DEF Accounts
  <2> DEFINE q == rows[row].origin
  <2>3. q \in MatProposals /\ writer[q] # "none"
    BY <2>1 DEF MatTyped
  <2>4. writer'[q] = writer[q] /\ manifest'[q] = manifest[q]
    BY <2>3
  <2> QED BY <2>1, <2>2, <2>4 DEF FirstMaterializer
<1> QED BY <1>1, <1>3, <1>4, <1>5, <1>6 DEF Accounts

LEMMA StoreAdds ==
    ASSUME NEW p, NEW new, NEW by, Store(p, new, by)
    PROVE  /\ Added(new, p)
           /\ \A row \in new \ DOMAIN rows : rows'[row].body = BodyOf(p, row, by)
  BY DEF Store, Added

LEMMA RowKinds ==
    ASSUME NEW p \in MatProposals
    PROVE  /\ \A row \in Mutation(p) : row[1] \in {"claim", "derived"} => row = ClaimOfProposal(p)
           /\ \A row \in Mutation(p) : row[1] \in {"claim", "derived", "raw", "supports", "derived_from"}
           /\ p \in MatStatements => ClaimOfProposal(p)[1] = "claim"
           /\ p \notin MatStatements => ClaimOfProposal(p)[1] = "derived"
           /\ ClaimOfProposal(p) \in Mutation(p)
  BY DEF Mutation, ClaimOfProposal, Raw, Supports, DerivedFrom, MatProposals

\* An admission whose rows were found as it would write them keeps the invariant.
LEMMA AdmissionKeeps ==
    ASSUME MaterializationInv, NEW p \in MatProposals, NEW bound, NEW by \in AdmissionWriters,
           writer[p] = "none", Admitted(p, bound, by),
           by = "supersession" => p \in MatStatements,
           Mutation(p) \subseteq bound,
           \A row \in bound \ Mutation(p) : row[1] = "supersedes" /\ row[2] = ClaimOfProposal(p),
           \A row \in Mutation(p) \cap DOMAIN rows : Matches(p, row, by),
           by = "supersession" => \A row \in bound \cap DOMAIN rows : ~ IsEdge(row),
           by # "supersession" => bound = Mutation(p),
           by # "supersession" => \A row \in bound \cap DOMAIN rows : FirstMaterializer(row, rows[row].origin)
    PROVE  MaterializationInv'
<1> DEFINE new == bound \ DOMAIN rows
<1>1. /\ Added(new, p) /\ receipts' = receipts
      /\ \A row \in new : rows'[row].body = BodyOf(p, row, by)
  BY StoreAdds DEF Admitted
<1>2. /\ writer'[p] = by /\ manifest'[p].bound = bound /\ manifest'[p].materialized = new
      /\ \A q \in MatProposals : q # p => writer'[q] = writer[q] /\ manifest'[q] = manifest[q]
      /\ writer' \in [MatProposals -> {"none"} \cup AdmissionWriters]
      /\ manifest' = [q \in MatProposals |-> manifest'[q]]
  BY DEF Admitted, MaterializationInv, MatTyped
<1>3. DOMAIN rows' = DOMAIN rows \cup bound /\ DOMAIN rows \subseteq DOMAIN rows'
  BY <1>1 DEF Added
<1>4. \A row \in DOMAIN rows : rows[row].origin # p
  BY DEF MaterializationInv, MatTyped
<1>5. MatTyped'
  BY <1>1, <1>2 DEF MaterializationInv, MatTyped, Added, AdmissionWriters
<1>6. RowsNamed'
  <2> SUFFICES ASSUME NEW row \in DOMAIN rows'
               PROVE  /\ row[1] \in {"claim", "derived"} => row = ClaimOfProposal(rows'[row].origin)
                      /\ row[1] = "supersedes" => row[2] \in DOMAIN rows'
    BY DEF RowsNamed
  <2>1. CASE row \in DOMAIN rows
    BY <1>1, <1>3, <2>1 DEF MaterializationInv, RowsNamed, Added
  <2>2. CASE row \in new
    <3>1. rows'[row].origin = p
      BY <1>1, <2>2 DEF Added
    <3>2. row \in Mutation(p) \/ (row[1] = "supersedes" /\ row[2] = ClaimOfProposal(p))
      BY <2>2
    <3>3. ClaimOfProposal(p) \in DOMAIN rows'
      BY <1>3, RowKinds
    <3> QED BY <3>1, <3>2, <3>3, RowKinds
  <2> QED BY <1>3, <2>1, <2>2
<1>7. Accounts(p)'
  <2>1. RowsOf(p)' = new
    BY <1>1, <1>3, <1>4 DEF RowsOf, Added
  <2>2. \A row \in Mutation(p) : Matches(p, row, by)'
    BY <1>1, <1>3 DEF Matches, Added
  <2>3. by = "supersession" => {row \in bound : IsEdge(row)} \subseteq new
    OBVIOUS
  <2>4. by # "supersession" => \A row \in Mutation(p) \ new :
            rows'[row].origin # p /\ FirstMaterializer(row, rows[row].origin)'
    <3> SUFFICES ASSUME by # "supersession", NEW row \in Mutation(p) \ new
                 PROVE  rows'[row].origin # p /\ FirstMaterializer(row, rows[row].origin)'
      OBVIOUS
    <3> DEFINE q == rows[row].origin
    <3>1. row \in DOMAIN rows /\ rows'[row] = rows[row] /\ FirstMaterializer(row, q)
      BY <1>1 DEF Added
    <3>2. q # p /\ q \in MatProposals
      BY <1>4, <3>1 DEF MaterializationInv, MatTyped
    <3> QED BY <1>2, <3>1, <3>2 DEF FirstMaterializer
  <2> QED BY <1>2, <1>3, <2>1, <2>2, <2>3, <2>4 DEF Accounts
<1>8. ASSUME NEW q \in MatProposals, writer'[q] # "none" PROVE Accounts(q)'
  <2>1. CASE q = p
    BY <1>7, <2>1
  <2>2. CASE q # p
    BY <1>1, <1>2, <1>8, <2>2, AccountsStay DEF MaterializationInv
  <2> QED BY <2>1, <2>2
<1> QED BY <1>5, <1>6, <1>8 DEF MaterializationInv

LEMMA MutationKeeps ==
    ASSUME MaterializationInv, NEW p \in MatProposals, NEW by \in {"ordinary", "reviewed"}, AdmitMutation(p, by)
    PROVE  MaterializationInv'
<1>1. /\ writer[p] = "none" /\ Admitted(p, Mutation(p), by)
      /\ \A row \in Mutation(p) \cap DOMAIN rows : Reusable(p, row)
  BY DEF AdmitMutation
<1>2. \A row \in Mutation(p) \cap DOMAIN rows : Matches(p, row, by) /\ FirstMaterializer(row, rows[row].origin)
  BY <1>1 DEF Reusable, Matches, BodyOf
<1> QED BY <1>1, <1>2, AdmissionKeeps DEF AdmissionWriters

LEMMA SupersessionKeeps ==
    ASSUME MaterializationInv, NEW p \in MatStatements, NEW claim \in DOMAIN rows, AdmitSupersession(p, claim)
    PROVE  MaterializationInv'
<1> DEFINE edge == Supersedes(p, claim)
           bound == Mutation(p) \cup {edge}
<1>1. /\ p \in MatProposals /\ writer[p] = "none" /\ Admitted(p, bound, "supersession")
      /\ \A row \in Mutation(p) \cap DOMAIN rows : row[1] = "raw" /\ Matches(p, row, "supersession")
  BY DEF AdmitSupersession, MatProposals
<1>2. edge[1] = "supersedes" /\ edge[2] = ClaimOfProposal(p)
  BY DEF Supersedes
<1>3. edge \notin DOMAIN rows
  <2>1. ClaimOfProposal(p) \notin DOMAIN rows
    BY <1>1, RowKinds
  <2> QED BY <1>2, <2>1 DEF MaterializationInv, RowsNamed
<1>4. \A row \in bound \cap DOMAIN rows : ~ IsEdge(row)
  BY <1>1, <1>3 DEF IsEdge
<1> HIDE DEF edge
<1> QED BY <1>1, <1>2, <1>4, AdmissionKeeps DEF AdmissionWriters

LEMMA RelationKeeps ==
    ASSUME MaterializationInv, NEW relation \in {"references", "implements"},
           NEW from \in DOMAIN rows, NEW to \in DOMAIN rows, AdmitRelation(relation, from, to)
    PROVE  MaterializationInv'
<1> DEFINE edge == <<relation, from, to>>
<1>0. PICK o : o = rows[from].origin
  OBVIOUS
<1>1. /\ from[1] = (IF relation = "references" THEN "claim" ELSE "derived")
      /\ edge \notin DOMAIN rows /\ receipts' = receipts \cup {edge}
      /\ UNCHANGED <<writer, manifest>>
  BY DEF AdmitRelation
<1>2. Added({edge}, o)
  BY <1>0 DEF AdmitRelation, Added
<1>3. o \in MatProposals /\ from = ClaimOfProposal(o) /\ writer[o] # "none"
  BY <1>0, <1>1 DEF MaterializationInv, MatTyped, RowsNamed
<1>4. edge[1] = relation /\ edge[2] = from /\ IsEdge(edge)
  BY DEF IsEdge
<1>5. IndependentEdge(o, edge)'
  <2>1. relation = (IF o \in MatStatements THEN "references" ELSE "implements")
    BY <1>1, <1>3, RowKinds
  <2> QED BY <1>1, <1>3, <1>4, <2>1 DEF IndependentEdge
<1>6. DOMAIN rows' = DOMAIN rows \cup {edge} /\ rows'[edge].origin = o
      /\ \A row \in DOMAIN rows : rows'[row] = rows[row]
  BY <1>1, <1>2 DEF Added
<1> HIDE DEF edge
<1>7. MatTyped'
  BY <1>1, <1>3, <1>6 DEF MaterializationInv, MatTyped
<1>8. RowsNamed'
  BY <1>4, <1>6 DEF MaterializationInv, RowsNamed
<1>9. ASSUME NEW p \in MatProposals, writer'[p] # "none" PROVE Accounts(p)'
  BY <1>1, <1>2, <1>4, <1>5, <1>9, AccountsStay DEF MaterializationInv
<1> QED BY <1>7, <1>8, <1>9 DEF MaterializationInv

\* Whatever is admitted afterwards, over, beside or from the rows of an admission,
\* its replay finds what it wrote: no row it reused loses its first writer, and no
\* relation reviewed later is taken for one of its own (validatePersisted
\* and its counterparts of the supersession writer).
THEOREM AdmissionsReplay == MaterializationSpec => []AdmittedReplays
<1>1. MaterializationInit => MaterializationInv
  BY DEF MaterializationInit, MaterializationInv, MatTyped, RowsNamed
<1>2. MaterializationInv /\ [MaterializationNext]_materializationVars => MaterializationInv'
  <2> SUFFICES ASSUME MaterializationInv, [MaterializationNext]_materializationVars PROVE MaterializationInv'
    OBVIOUS
  <2>1. CASE UNCHANGED materializationVars
    BY <2>1 DEF materializationVars, MaterializationInv, MatTyped, RowsNamed, Accounts, RowsOf, Matches,
                FirstMaterializer, IndependentEdge
  <2> QED BY <2>1, MutationKeeps, SupersessionKeeps, RelationKeeps DEF MaterializationNext
<1>3. MaterializationInv => AdmittedReplays
  BY AccountsReplay DEF MaterializationInv, AdmittedReplays, AdmissionWriters
<1> QED BY <1>1, <1>2, <1>3, PTL DEF MaterializationSpec

-----------------------------------------------------------------------------
(* Read views and their handles.                                              *)

ViewSpec == ReadInit /\ [][ReadNext]_readVars

\* A view is what its handle is a digest of, and nothing else.
Told(v) ==
    v = [handle |-> Identity(v.owner, v.governance, v.artifact, v.input, v.truncated), owner |-> v.owner,
         governance |-> v.governance, artifact |-> v.artifact, input |-> v.input, truncated |-> v.truncated]

ViewInv ==
    /\ loading = [o \in Readers |-> loading[o]]
    /\ \A o \in Readers : loading[o] = NoView \/ Told(loading[o])
    /\ \A v \in opened : Told(v)
    /\ cache \in Seq(opened)

LEMMA ViewTold == \A o, input : Told(View(o, input))
  BY DEF Told, View

LEMMA Reordered ==
    ASSUME NEW S, NEW s \in Seq(S), NEW v \in S
    PROVE  /\ \A i \in 1..Len(s) : <<v>> \o (SubSeq(s, 1, i - 1) \o SubSeq(s, i + 1, Len(s))) \in Seq(S)
           /\ \A n \in 0..Len(s) : <<v>> \o SubSeq(s, 1, n) \in Seq(S)
<1>1. <<v>> \in Seq(S) /\ Len(s) \in Nat
  OBVIOUS
<1>2. \A n \in 0..Len(s) : SubSeq(s, 1, n) \in Seq(S)
  OBVIOUS
<1>3. \A i \in 1..Len(s) : SubSeq(s, 1, i - 1) \in Seq(S) /\ SubSeq(s, i + 1, Len(s)) \in Seq(S)
  OBVIOUS
<1>4. \A a, b : a \in Seq(S) /\ b \in Seq(S) => a \o b \in Seq(S)
  OBVIOUS
<1> QED BY <1>1, <1>2, <1>3, <1>4

LEMMA ViewStep == ViewInv /\ [ReadNext]_readVars => ViewInv'
<1> SUFFICES ASSUME ViewInv, [ReadNext]_readVars PROVE ViewInv'
  OBVIOUS
<1>1. CASE UNCHANGED <<loading, cache, opened>>
  BY <1>1 DEF ViewInv
<1>2. ASSUME NEW o \in Readers, NEW input \in ReadInputs, ReadGraphView(o, input) PROVE ViewInv'
  <2>1. loading' = [loading EXCEPT ![o] = View(o, input)] /\ UNCHANGED <<cache, opened>>
    BY <1>2 DEF ReadGraphView
  <2> QED BY <2>1, ViewTold DEF ViewInv
<1>3. ASSUME NEW o \in Readers, OpenView(o) PROVE ViewInv'
  <2> DEFINE v == loading[o]
  <2>1. /\ v # NoView /\ Put(v)
        /\ opened' = opened \cup {v} /\ loading' = [loading EXCEPT ![o] = NoView]
    BY <1>3 DEF OpenView
  <2>2. Told(v) /\ v \in opened' /\ cache \in Seq(opened')
    BY <2>1 DEF ViewInv
  <2>3. cache' \in Seq(opened')
    <3>1. CASE \E i \in Kept(v.owner, v.handle) : cache' = <<v>> \o Without(i)
      BY <3>1, <2>2, Reordered DEF Kept, Without
    <3>2. CASE cache' = <<v>> \o SubSeq(cache, 1, IF Len(cache) < CacheCapacity THEN Len(cache) ELSE CacheCapacity - 1)
      <4>1. (IF Len(cache) < CacheCapacity THEN Len(cache) ELSE CacheCapacity - 1) \in 0..Len(cache)
        BY <2>2, ReadAssumption
      <4> QED BY <3>2, <4>1, <2>2, Reordered
    <3> QED BY <2>1, <3>1, <3>2 DEF Put
  <2>4. \A p \in Readers : loading'[p] = NoView \/ Told(loading'[p])
    BY <2>1 DEF ViewInv
  <2>5. \A w \in opened' : Told(w)
    BY <2>1, <2>2 DEF ViewInv
  <2>6. loading' = [p \in Readers |-> loading'[p]]
    BY <2>1 DEF ViewInv
  <2> QED BY <2>3, <2>4, <2>5, <2>6 DEF ViewInv
<1>4. ASSUME NEW o \in Readers, NEW w \in opened, ReadHandle(o, w.handle) PROVE ViewInv'
  <2>0. DOMAIN cache = 1..Len(cache)
    BY DEF ViewInv
  <2>1. PICK i \in 1..Len(cache) : cache' = <<cache[i]>> \o Without(i)
    BY <1>4, <2>0 DEF ReadHandle, Kept, MoveToFront
  <2>2. cache[i] \in opened /\ UNCHANGED <<loading, opened>>
    BY <1>4, <2>1 DEF ReadHandle, ViewInv
  <2>3. cache' \in Seq(opened)
    BY <2>1, <2>2, Reordered DEF ViewInv, Without
  <2> QED BY <2>2, <2>3 DEF ViewInv
<1> QED BY <1>1, <1>2, <1>3, <1>4
        DEF ReadNext, readVars, AddClaim, AddRelation, GovernanceMoves

LEMMA ViewStarts == ReadInit => ViewInv
<1>1. \A S : <<>> \in Seq(S)
  OBVIOUS
<1> QED BY <1>1 DEF ReadInit, ViewInv

\* A handle stands for one view: whatever was admitted, governed, opened and
\* evicted since, what is read under it comes from the graph and governance its own
\* owner was shown (the cache of the query server and canonicalReadViewHandle).
THEOREM HandlesAreFaithful == ViewSpec => []HandleMeansOneView
<1>1. ViewInv => HandleMeansOneView
  <2> SUFFICES ASSUME ViewInv, NEW v \in opened, NEW o \in Readers, NEW i \in Kept(o, v.handle)
               PROVE  o = v.owner /\ cache[i] = v
    BY DEF HandleMeansOneView
  <2> DEFINE c == cache[i]
  <2>1. c \in opened /\ c.owner = o /\ c.handle = v.handle
    BY DEF Kept, ViewInv
  <2>2. Told(v) /\ Told(c)
    BY <2>1 DEF ViewInv
  <2>3. /\ v.handle = Identity(v.owner, v.governance, v.artifact, v.input, v.truncated)
        /\ c.handle = Identity(c.owner, c.governance, c.artifact, c.input, c.truncated)
    BY <2>2 DEF Told
  <2>4. /\ c.owner = v.owner /\ c.governance = v.governance /\ c.artifact = v.artifact
        /\ c.input = v.input /\ c.truncated = v.truncated
    BY <2>1, <2>3 DEF Identity
  <2> HIDE DEF c
  <2>5. c = v
    BY <2>2, <2>4 DEF Told
  <2> QED BY <2>1, <2>4, <2>5 DEF c
<1> QED BY <1>1, ViewStarts, ViewStep, PTL DEF ViewSpec

-----------------------------------------------------------------------------
(* Approvals of implements relations.                                         *)

\* The approvals of ImplementsReviews, whatever a review shows at any time.
ApprovalsNext ==
    \E a \in Approvers :
        \/ \E input \in ApprovalInputs : \E shown : LoadReview(a, input, shown)
        \/ \E shown : BeginApproval(a, shown)
        \/ CommitApproval(a) \/ DisturbApproval(a)

ApprovalsSpec == ApprovalsInit /\ [][ApprovalsNext]_approvalVars

\* A call on its second attempt, unless another writer disturbed the first one,
\* has lost to a twin, which every later snapshot shows.
CallUnderway(call, stored) ==
    /\ call \in [phase : {"ready", "open"}, want : {call.want}, attempt : 1..ApprovalAttempts,
                 seen : {call.seen}, disturbed : BOOLEAN]
    /\ call.attempt > 1 /\ ~ call.disturbed => Twins(call.want, stored) # {}
    /\ call.phase = "open" =>
         /\ call.seen \subseteq stored
         /\ (call.attempt > 1 /\ ~ call.disturbed => Twins(call.want, call.seen) # {})

AnswerHolds(call, stored) ==
    /\ call.result \in {"recorded", "replayed"} => Twins(call.want, stored) = {call.want}
    /\ call.result = "conflict" => Twins(call.want, stored) \ {call.want} # {}
    /\ call.result = "failed" => call.disturbed

CallTells(call, stored) ==
    \/ call = NoCall
    \/ CallUnderway(call, stored)
    \/ call.phase = "answered" /\ AnswerHolds(call, stored)

Apart(stored) == \A x, y \in stored : ShareKey(x, y) => x = y

ApprovalInv ==
    /\ approvals = [a \in Approvers |-> approvals[a]]
    /\ Apart(authorities)
    /\ \A a \in Approvers : CallTells(approvals[a], authorities)

LEMMA CallOpen ==
    ASSUME NEW call, NEW stored, CallTells(call, stored), call.phase \in {"ready", "open"}
    PROVE  CallUnderway(call, stored)
  BY DEF CallTells, NoCall

\* What a call has been told stays true when an authority without twins is stored.
LEMMA TellsLater ==
    ASSUME NEW call, NEW stored, NEW later, CallTells(call, stored), stored \subseteq later,
           \A x \in later \ stored : Twins(x, stored) = {}
    PROVE  CallTells(call, later)
<1>1. Twins(call.want, stored) \subseteq Twins(call.want, later)
  BY DEF Twins
<1>2. CASE CallUnderway(call, stored)
  BY <1>1, <1>2 DEF CallUnderway, CallTells
<1>3. CASE call.phase = "answered" /\ AnswerHolds(call, stored)
  <2>1. ASSUME Twins(call.want, stored) = {call.want} PROVE Twins(call.want, later) = {call.want}
    <3>1. call.want \in stored
      BY <2>1 DEF Twins
    <3>2. ASSUME NEW x \in later \ stored PROVE x \notin Twins(call.want, later)
      <4>1. call.want \notin Twins(x, stored)
        OBVIOUS
      <4> QED BY <3>1, <4>1 DEF Twins, ShareKey
    <3>3. Twins(call.want, later) \subseteq Twins(call.want, stored)
      BY <3>2 DEF Twins
    <3> QED BY <1>1, <2>1, <3>3
  <2> QED BY <1>1, <1>3, <2>1 DEF AnswerHolds, CallTells
<1> QED BY <1>2, <1>3 DEF CallTells

LEMMA OneApproverSteps ==
    ASSUME ApprovalInv, NEW a \in Approvers, NEW row, approvals' = [approvals EXCEPT ![a] = row],
           authorities \subseteq authorities', \A x \in authorities' \ authorities : Twins(x, authorities) = {},
           Apart(authorities'), CallTells(row, authorities')
    PROVE  ApprovalInv'
<1>1. /\ approvals' = [b \in Approvers |-> approvals'[b]] /\ approvals'[a] = row
      /\ \A b \in Approvers : b # a => approvals'[b] = approvals[b]
  BY DEF ApprovalInv
<1>2. ASSUME NEW b \in Approvers PROVE CallTells(approvals'[b], authorities')
  <2>1. CASE b = a
    BY <1>1, <2>1
  <2>2. CASE b # a
    <3>1. CallTells(approvals[b], authorities)
      BY DEF ApprovalInv
    <3>2. CallTells(approvals[b], authorities')
      BY <3>1, TellsLater
    <3> QED BY <1>1, <2>2, <3>2
  <2> QED BY <2>1, <2>2
<1> QED BY <1>1, <1>2 DEF ApprovalInv

LEMMA AnswerSteps ==
    ASSUME ApprovalInv, NEW a \in Approvers, NEW want, NEW result, NEW disturbed, UNCHANGED authorities,
           Reply(a, want, result, disturbed),
           result \in {"recorded", "replayed"} => Twins(want, authorities) = {want},
           result = "conflict" => Twins(want, authorities) \ {want} # {},
           result = "failed" => disturbed
    PROVE  ApprovalInv'
<1> DEFINE row == [phase |-> "answered", want |-> want, result |-> result, disturbed |-> disturbed]
<1>1. approvals' = [approvals EXCEPT ![a] = row] /\ authorities' = authorities
  BY DEF Reply
<1>2. row.phase = "answered" /\ row.want = want /\ row.result = result /\ row.disturbed = disturbed
  OBVIOUS
<1> HIDE DEF row
<1>3. CallTells(row, authorities)
  BY <1>2 DEF CallTells, AnswerHolds
<1>4. Apart(authorities)
  BY DEF ApprovalInv
<1> QED BY <1>1, <1>3, <1>4, OneApproverSteps

LEMMA LoadSteps ==
    ASSUME ApprovalInv, NEW a \in Approvers, NEW input, NEW shown, LoadReview(a, input, shown)
    PROVE  ApprovalInv'
<1> DEFINE want == Authority(input, shown)
           row == [phase |-> "ready", want |-> want, attempt |-> 1, seen |-> {}, disturbed |-> FALSE]
<1>1. CASE shown = {}
  <2>1. Reply(a, want, "refused", FALSE) /\ UNCHANGED authorities
    BY <1>1 DEF LoadReview
  <2> HIDE DEF want
  <2> QED BY <2>1, AnswerSteps
<1>2. CASE shown # {}
  <2>1. approvals' = [approvals EXCEPT ![a] = row] /\ authorities' = authorities
    BY <1>2 DEF LoadReview
  <2> HIDE DEF want
  <2>2. 1 \in 1..ApprovalAttempts /\ ~ (1 > 1)
    BY ApprovalAssumption
  <2>3. /\ row \in [phase : {"ready", "open"}, want : {row.want}, attempt : 1..ApprovalAttempts,
                    seen : {row.seen}, disturbed : BOOLEAN]
        /\ row.phase = "ready" /\ row.attempt = 1
    BY <2>2
  <2> HIDE DEF row
  <2>4. CallTells(row, authorities)
    BY <2>2, <2>3 DEF CallTells, CallUnderway
  <2>5. Apart(authorities)
    BY DEF ApprovalInv
  <2> QED BY <2>1, <2>4, <2>5, OneApproverSteps
<1> QED BY <1>1, <1>2

LEMMA BeginSteps ==
    ASSUME ApprovalInv, NEW a \in Approvers, NEW shown, BeginApproval(a, shown)
    PROVE  ApprovalInv'
<1> DEFINE call == approvals[a]
           row == [call EXCEPT !.phase = "open", !.seen = authorities]
<1>1. call.phase = "ready" /\ authorities' = authorities
  BY DEF BeginApproval
<1>2. CallUnderway(call, authorities)
  BY <1>1, CallOpen DEF ApprovalInv
<1>3. CASE shown = call.want.receipt.shown
  <2>1. approvals' = [approvals EXCEPT ![a] = row]
    BY <1>3 DEF BeginApproval, Snapshot, ApprovalInv
  <2>2. /\ row \in [phase : {"ready", "open"}, want : {row.want}, attempt : 1..ApprovalAttempts,
                    seen : {row.seen}, disturbed : BOOLEAN]
        /\ row.phase = "open" /\ row.want = call.want /\ row.attempt = call.attempt
        /\ row.seen = authorities /\ row.disturbed = call.disturbed
    BY <1>2 DEF CallUnderway
  <2> HIDE DEF row
  <2>5. CallTells(row, authorities)
    BY <1>2, <2>2 DEF CallTells, CallUnderway
  <2>6. Apart(authorities)
    BY DEF ApprovalInv
  <2> QED BY <1>1, <2>1, <2>5, <2>6, OneApproverSteps
<1>4. CASE shown # call.want.receipt.shown
  <2>1. Reply(a, call.want, "changed", call.disturbed)
    BY <1>4 DEF BeginApproval
  <2> HIDE DEF call
  <2> QED BY <1>1, <2>1, AnswerSteps
<1> QED BY <1>3, <1>4

LEMMA RetrySteps ==
    ASSUME ApprovalInv, NEW a \in Approvers, approvals[a].phase = "open", NEW disturbed \in BOOLEAN,
           Retry(a, disturbed), UNCHANGED authorities,
           ~ disturbed => /\ ~ approvals[a].disturbed
                          /\ Twins(approvals[a].want, approvals[a].seen) = {}
                          /\ Twins(approvals[a].want, authorities) # {}
    PROVE  ApprovalInv'
<1> DEFINE call == approvals[a]
           row == [call EXCEPT !.phase = "ready", !.attempt = @ + 1, !.disturbed = disturbed]
<1>1. CallUnderway(call, authorities)
  BY CallOpen DEF ApprovalInv
<1>2. CASE call.attempt = ApprovalAttempts
  <2>1. Reply(a, call.want, "failed", disturbed)
    BY <1>2 DEF Retry
  <2>2. disturbed
    <3>1. call.attempt > 1
      BY <1>2, ApprovalAssumption
    <3> QED BY <1>1, <3>1 DEF CallUnderway
  <2> HIDE DEF call
  <2> QED BY <2>1, <2>2, AnswerSteps
<1>3. CASE call.attempt # ApprovalAttempts
  <2>1. approvals' = [approvals EXCEPT ![a] = row] /\ authorities' = authorities
    BY <1>3 DEF Retry
  <2>2. call.attempt + 1 \in 1..ApprovalAttempts
    BY <1>1, <1>3, ApprovalAssumption DEF CallUnderway
  <2>3. /\ row \in [phase : {"ready", "open"}, want : {row.want}, attempt : 1..ApprovalAttempts,
                    seen : {row.seen}, disturbed : BOOLEAN]
        /\ row.phase = "ready" /\ row.want = call.want /\ row.attempt = call.attempt + 1
        /\ row.disturbed = disturbed
    BY <1>1, <2>2 DEF CallUnderway
  <2> HIDE DEF row
  <2>6. CallTells(row, authorities)
    BY <2>2, <2>3 DEF CallTells, CallUnderway
  <2>7. Apart(authorities)
    BY DEF ApprovalInv
  <2> QED BY <2>1, <2>6, <2>7, OneApproverSteps
<1> QED BY <1>2, <1>3

LEMMA CommitSteps ==
    ASSUME ApprovalInv, NEW a \in Approvers, CommitApproval(a)
    PROVE  ApprovalInv'
<1> DEFINE call == approvals[a]
           found == Twins(call.want, call.seen)
<1>1. call.phase = "open"
  BY DEF CommitApproval
<1>2. CallUnderway(call, authorities) /\ call.seen \subseteq authorities
  <2>1. CallUnderway(call, authorities)
    BY <1>1, CallOpen DEF ApprovalInv
  <2> QED BY <1>1, <2>1 DEF CallUnderway
<1>3. found \subseteq Twins(call.want, authorities)
  BY <1>2 DEF Twins
<1>4. Apart(authorities)
  BY DEF ApprovalInv
<1>5. \/ /\ found # {}
         /\ Reply(a, call.want, IF found = {call.want} THEN "replayed" ELSE "conflict", call.disturbed)
         /\ UNCHANGED authorities
      \/ /\ found = {} /\ Twins(call.want, authorities) = {}
         /\ authorities' = authorities \cup {call.want}
         /\ Reply(a, call.want, "recorded", call.disturbed)
      \/ /\ found = {} /\ Twins(call.want, authorities) # {}
         /\ Retry(a, call.disturbed)
         /\ UNCHANGED authorities
  BY DEF CommitApproval
<1>6. CASE found = {call.want} /\ UNCHANGED authorities /\ Reply(a, call.want, "replayed", call.disturbed)
  <2>1. call.want \in authorities
    BY <1>3, <1>6 DEF Twins
  <2>2. Twins(call.want, authorities) = {call.want}
    BY <1>4, <2>1 DEF Twins, Apart, ShareKey
  <2> HIDE DEF call
  <2> QED BY <1>6, <2>2, AnswerSteps
<1>7. CASE found # {} /\ found # {call.want} /\ UNCHANGED authorities /\ Reply(a, call.want, "conflict", call.disturbed)
  <2>1. Twins(call.want, authorities) \ {call.want} # {}
    BY <1>3, <1>7
  <2> HIDE DEF call, found
  <2> QED BY <1>7, <2>1, AnswerSteps
<1>8. CASE /\ Twins(call.want, authorities) = {} /\ authorities' = authorities \cup {call.want}
           /\ Reply(a, call.want, "recorded", call.disturbed)
  <2> DEFINE row == [phase |-> "answered", want |-> call.want, result |-> "recorded", disturbed |-> call.disturbed]
  <2>1. approvals' = [approvals EXCEPT ![a] = row]
    BY <1>8 DEF Reply
  <2>2. row.phase = "answered" /\ row.want = call.want /\ row.result = "recorded"
    OBVIOUS
  <2> HIDE DEF row, call, found
  <2>3. Twins(call.want, authorities') = {call.want}
    BY <1>8 DEF Twins, ShareKey
  <2>4. CallTells(row, authorities')
    BY <2>2, <2>3 DEF CallTells, AnswerHolds
  <2>5. Apart(authorities')
    <3> SUFFICES ASSUME NEW x \in authorities', NEW y \in authorities', ShareKey(x, y) PROVE x = y
      BY DEF Apart
    <3>1. x \in authorities /\ y \in authorities => x = y
      BY <1>4 DEF Apart
    <3>2. ~ (x \in authorities /\ ShareKey(x, call.want)) /\ ~ (y \in authorities /\ ShareKey(y, call.want))
      BY <1>8 DEF Twins
    <3>3. ShareKey(y, x)
      BY DEF ShareKey
    <3> QED BY <1>8, <3>1, <3>2, <3>3
  <2> QED BY <1>8, <2>1, <2>4, <2>5, OneApproverSteps
<1>9. CASE found = {} /\ Twins(call.want, authorities) # {} /\ Retry(a, call.disturbed) /\ UNCHANGED authorities
  <2>1. call.disturbed \in BOOLEAN
    BY <1>2 DEF CallUnderway
  <2> QED BY <1>1, <1>9, <2>1, RetrySteps
<1> QED BY <1>5, <1>6, <1>7, <1>8, <1>9

LEMMA ApprovalStep == ApprovalInv /\ [ApprovalsNext]_approvalVars => ApprovalInv'
<1> SUFFICES ASSUME ApprovalInv, [ApprovalsNext]_approvalVars PROVE ApprovalInv'
  OBVIOUS
<1>1. CASE UNCHANGED approvalVars
  BY <1>1 DEF approvalVars, ApprovalInv
<1>2. ASSUME NEW a \in Approvers, NEW input \in ApprovalInputs, NEW shown, LoadReview(a, input, shown) PROVE ApprovalInv'
  BY <1>2, LoadSteps
<1>3. ASSUME NEW a \in Approvers, NEW shown, BeginApproval(a, shown) PROVE ApprovalInv'
  BY <1>3, BeginSteps
<1>4. ASSUME NEW a \in Approvers, CommitApproval(a) PROVE ApprovalInv'
  BY <1>4, CommitSteps
<1>5. ASSUME NEW a \in Approvers, DisturbApproval(a) PROVE ApprovalInv'
  BY <1>5, RetrySteps DEF DisturbApproval
<1> QED BY <1>1, <1>2, <1>3, <1>4, <1>5 DEF ApprovalsNext

\* Whatever reviews show, however approvals of one pair race, lose to rows their
\* snapshots hide, and try again: the authorities stay apart, whoever was told
\* "recorded" or "replayed" has a row of its own, and nobody fails for being late.
THEOREM ApprovalsStayApart == ApprovalsSpec => []TwinsAgree
<1>1. ApprovalsInit => ApprovalInv
  BY DEF ApprovalsInit, ApprovalInv, Apart, CallTells
<1>2. ApprovalInv => TwinsAgree
  <2> SUFFICES ASSUME ApprovalInv PROVE TwinsAgree
    OBVIOUS
  <2>1. ASSUME NEW a \in Approvers, approvals[a].phase = "answered" PROVE AnswerHolds(approvals[a], authorities)
    <3>1. CallTells(approvals[a], authorities)
      BY DEF ApprovalInv
    <3> QED BY <2>1, <3>1 DEF CallTells, CallUnderway, NoCall
  <2> QED BY <2>1 DEF ApprovalInv, Apart, AnswerHolds, TwinsAgree
<1> QED BY <1>1, <1>2, ApprovalStep, PTL DEF ApprovalsSpec

-----------------------------------------------------------------------------
(* The members that take part in a check.                                     *)

LEMMA LeastOfNats ==
    ASSUME NEW S, S \subseteq Nat, S # {}
    PROVE  Least(S) \in S /\ \A x \in S : Least(S) <= x
<1>1. PICK x \in S : \A y \in S : ~ (<<y, x>> \in OpToRel(<, Nat))
  BY NatLessThanWellFounded, WFMin
<1>2. \A y \in S : x <= y
  <2> SUFFICES ASSUME NEW y \in S PROVE x <= y
    OBVIOUS
  <2>1. x \in Nat /\ y \in Nat
    OBVIOUS
  <2>2. ~ (y < x)
    BY <1>1, <2>1 DEF OpToRel
  <2> QED BY <2>1, <2>2
<1> QED BY <1>1, <1>2 DEF Least

\* The least set of members that holds all of base and whatever is derived from
\* one of its members.
Closed(base, S) == base \subseteq S /\ \A m \in Members : BasesOf[m] \cap S # {} => m \in S
Descendants(base) == {m \in Members : \A S \in SUBSET Members : Closed(base, S) => m \in S}

LEMMA DescendantsUnfold ==
    ASSUME NEW base \in SUBSET Members, NEW m \in Members
    PROVE  m \in Descendants(base) <=> m \in base \/ BasesOf[m] \cap Descendants(base) # {}
<1> DEFINE D == Descendants(base)
<1>1. base \subseteq D
  BY DEF Descendants, Closed
<1>2. \A S \in SUBSET Members : Closed(base, S) => D \subseteq S
  BY DEF Descendants
<1>3. Closed(base, D)
  <2> SUFFICES ASSUME NEW n \in Members, BasesOf[n] \cap D # {}, NEW S \in SUBSET Members, Closed(base, S)
               PROVE  n \in S
    BY <1>1 DEF Closed, Descendants
  <2> QED BY <1>2 DEF Closed
<1>4. CASE m \in base \/ BasesOf[m] \cap D # {}
  BY <1>3, <1>4 DEF Closed
<1>5. CASE m \notin base /\ BasesOf[m] \cap D = {}
  <2>1. Closed(base, D \ {m})
    BY <1>1, <1>3, <1>5 DEF Closed
  <2>2. D \ {m} \in SUBSET Members
    BY DEF Descendants
  <2> QED BY <1>2, <1>5, <2>1, <2>2
<1> QED BY <1>4, <1>5

Standings == [Members -> Standing]

\* What Selection says of a member, in terms of what it says of the parents.
StateOf(state, standing, m) ==
    IF standing[m] \in {"superseded", "expired"} THEN "excluded"
    ELSE IF BasesOf[m] # {} THEN OfParents({state[b][standing] : b \in BasesOf[m]})
    ELSE IF standing[m] = "unclassified" THEN "blocked" ELSE "included"

LEMMA SelectionUnfolds ==
    \A standing \in Standings, m \in Members : Selection[m][standing] = StateOf(Selection, standing, m)
<1> DEFINE gone(standing) == {n \in Members : standing[n] \in {"superseded", "expired"}}
           unknown(standing) == {n \in Members : BasesOf[n] = {} /\ standing[n] = "unclassified"}
           state == [n \in Members |-> [standing \in Standings |->
                       IF n \in Descendants(gone(standing)) THEN "excluded"
                       ELSE IF n \in Descendants(unknown(standing)) THEN "blocked" ELSE "included"]]
<1>1. ASSUME NEW standing \in Standings, NEW n \in Members PROVE state[n][standing] = StateOf(state, standing, n)
  <2> DEFINE G == gone(standing)
             U == unknown(standing)
             parents == {state[b][standing] : b \in BasesOf[n]}
  <2>0. BasesOf[n] \subseteq Members
    BY ResolverAssumption
  <2>1. \A m \in Members : state[m][standing] = IF m \in Descendants(G) THEN "excluded"
                                               ELSE IF m \in Descendants(U) THEN "blocked" ELSE "included"
    OBVIOUS
  <2>2. n \in Descendants(G) <=> n \in G \/ BasesOf[n] \cap Descendants(G) # {}
    BY DescendantsUnfold
  <2>3. n \in Descendants(U) <=> n \in U \/ BasesOf[n] \cap Descendants(U) # {}
    BY DescendantsUnfold
  <2> HIDE DEF state
  <2>4. "excluded" \in parents <=> BasesOf[n] \cap Descendants(G) # {}
    BY <2>0, <2>1
  <2>5. BasesOf[n] \cap Descendants(G) = {} => ("blocked" \in parents <=> BasesOf[n] \cap Descendants(U) # {})
    BY <2>0, <2>1
  <2>6. StateOf(state, standing, n) =
          IF standing[n] \in {"superseded", "expired"} THEN "excluded"
          ELSE IF BasesOf[n] # {} THEN OfParents(parents)
          ELSE IF standing[n] = "unclassified" THEN "blocked" ELSE "included"
    BY DEF StateOf
  <2> HIDE DEF parents
  <2>7. CASE n \in G
    BY <2>1, <2>2, <2>6, <2>7
  <2>8. CASE n \notin G /\ BasesOf[n] # {}
    BY <2>1, <2>2, <2>3, <2>4, <2>5, <2>6, <2>8 DEF OfParents
  <2>9. CASE n \notin G /\ BasesOf[n] = {}
    BY <2>1, <2>2, <2>3, <2>6, <2>9 DEF Standings, Standing
  <2> QED BY <2>7, <2>8, <2>9
<1>2. state = [n \in Members |-> [standing \in Standings |-> StateOf(state, standing, n)]]
  BY <1>1
<1>3. \E f : f = [n \in Members |-> [standing \in Standings |-> StateOf(f, standing, n)]]
  BY <1>2
<1>4. Selection = CHOOSE f : f = [n \in Members |-> [standing \in Standings |-> StateOf(f, standing, n)]]
  BY DEF Selection, StateOf, Standings
<1>5. Selection = [n \in Members |-> [standing \in Standings |-> StateOf(Selection, standing, n)]]
  BY <1>3, <1>4
<1> QED BY <1>5

StandsIn(stands, standing, m) ==
    /\ standing[m] \notin {"superseded", "expired"}
    /\ BasesOf[m] = {} => standing[m] # "unclassified"
    /\ \A b \in BasesOf[m] : stands[b][standing]

LEMMA StandsUnfolds ==
    \A standing \in Standings, m \in Members : Stands[m][standing] = StandsIn(Stands, standing, m)
<1> DEFINE fallen(standing) == {n \in Members : \/ standing[n] \in {"superseded", "expired"}
                                                \/ BasesOf[n] = {} /\ standing[n] = "unclassified"}
           stands == [n \in Members |-> [standing \in Standings |-> n \notin Descendants(fallen(standing))]]
<1>1. ASSUME NEW standing \in Standings, NEW n \in Members
      PROVE  stands[n][standing] = StandsIn(stands, standing, n)
  <2> DEFINE F == fallen(standing)
  <2>0. BasesOf[n] \subseteq Members
    BY ResolverAssumption
  <2>1. \A m \in Members : stands[m][standing] = (m \notin Descendants(F))
    OBVIOUS
  <2>2. n \in Descendants(F) <=> n \in F \/ BasesOf[n] \cap Descendants(F) # {}
    BY DescendantsUnfold
  <2> HIDE DEF stands
  <2>3. (\A b \in BasesOf[n] : stands[b][standing]) <=> BasesOf[n] \cap Descendants(F) = {}
    BY <2>0, <2>1
  <2>4. StandsIn(stands, standing, n) <=> n \notin Descendants(F)
    BY <2>2, <2>3 DEF StandsIn
  <2>5. StandsIn(stands, standing, n) \in BOOLEAN
    BY DEF StandsIn
  <2> QED BY <2>1, <2>4, <2>5
<1>2. stands = [n \in Members |-> [standing \in Standings |-> StandsIn(stands, standing, n)]]
  BY <1>1
<1>3. \E f : f = [n \in Members |-> [standing \in Standings |-> StandsIn(f, standing, n)]]
  BY <1>2
<1>4. Stands = CHOOSE f : f = [n \in Members |-> [standing \in Standings |-> StandsIn(f, standing, n)]]
  BY DEF Stands, StandsIn, Standings
<1>5. Stands = [n \in Members |-> [standing \in Standings |-> StandsIn(Stands, standing, n)]]
  BY <1>3, <1>4
<1> QED BY <1>5

\* When the standing of every member is known, those that are selected are those
\* that stand: the first member to differ would differ from its parents.
LEMMA SelectedStand ==
    ASSUME NEW q, q.standing \in Standings, AllKnown(q)
    PROVE  Selected(q) = {m \in Members : Stands[m][q.standing]}
<1> DEFINE T == {m \in Members : ~ (Selection[m][q.standing] = "included" <=> Stands[m][q.standing])}
<1>1. SUFFICES ASSUME T # {} PROVE FALSE
  BY DEF Selected
<1>2. T \subseteq Nat
  BY ResolverAssumption
<1>3. Least(T) \in T /\ \A m \in T : Least(T) <= m
  BY <1>1, <1>2, LeastOfNats
<1> PICK m \in T : \A n \in T : m <= n
  BY <1>3
<1> HIDE DEF T
<1>4. m \in Members /\ ~ (Selection[m][q.standing] = "included" <=> Stands[m][q.standing])
  BY DEF T
<1>5. \A b \in BasesOf[m] : b \in Members /\ b \notin T
  <2> SUFFICES ASSUME NEW b \in BasesOf[m] PROVE b \in Members /\ b \notin T
    OBVIOUS
  <2>1. b \in Members /\ m \in Members /\ b < m
    BY <1>4, ResolverAssumption
  <2>2. b \in Nat /\ m \in Nat
    BY <2>1, ResolverAssumption
  <2>3. ~ (m <= b)
    BY <2>1, <2>2
  <2> QED BY <2>1, <2>3
<1>6. \A b \in BasesOf[m] : (Selection[b][q.standing] = "included" <=> Stands[b][q.standing])
                           /\ Selection[b][q.standing] # "blocked"
  BY <1>5 DEF T, AllKnown
<1>7. Selection[m][q.standing] = StateOf(Selection, q.standing, m) /\ Selection[m][q.standing] # "blocked"
  BY <1>4, SelectionUnfolds DEF AllKnown
<1>8. Stands[m][q.standing] = StandsIn(Stands, q.standing, m)
  BY <1>4, StandsUnfolds
<1>9. \A n \in Members : Selection[n][q.standing] \in {"included", "excluded", "blocked"}
  BY SelectionUnfolds DEF StateOf, OfParents, Standings, Standing
<1> DEFINE parents == {Selection[b][q.standing] : b \in BasesOf[m]}
<1>10. StateOf(Selection, q.standing, m) =
          IF q.standing[m] \in {"superseded", "expired"} THEN "excluded"
          ELSE IF BasesOf[m] # {} THEN OfParents(parents)
          ELSE IF q.standing[m] = "unclassified" THEN "blocked" ELSE "included"
  BY DEF StateOf
<1>11. /\ "blocked" \notin parents
       /\ "excluded" \notin parents <=> \A b \in BasesOf[m] : Stands[b][q.standing]
  BY <1>5, <1>6, <1>9
<1> HIDE DEF parents
<1>12. q.standing[m] \in {"current", "ambiguous", "superseded", "expired", "unclassified"}
  BY <1>4 DEF Standings, Standing
<1>13. CASE q.standing[m] \in {"superseded", "expired"}
  BY <1>4, <1>7, <1>8, <1>10, <1>13 DEF StandsIn
<1>14. CASE q.standing[m] \notin {"superseded", "expired"} /\ BasesOf[m] # {}
  <2>1. Selection[m][q.standing] = OfParents(parents)
    BY <1>7, <1>10, <1>14
  <2>2. Selection[m][q.standing] = "included" <=> "excluded" \notin parents
    BY <2>1, <1>11 DEF OfParents
  <2>3. StandsIn(Stands, q.standing, m) <=> \A b \in BasesOf[m] : Stands[b][q.standing]
    BY <1>14 DEF StandsIn
  <2> QED BY <1>4, <1>8, <1>11, <2>2, <2>3
<1>15. CASE q.standing[m] \notin {"superseded", "expired"} /\ BasesOf[m] = {}
  BY <1>4, <1>7, <1>8, <1>10, <1>12, <1>15 DEF StandsIn
<1> QED BY <1>13, <1>14, <1>15

-----------------------------------------------------------------------------
(* The formula.                                                               *)

Literals(conds) == UNION UNION {ClausesOf[x] : x \in conds}
Used(conds) == {l.atom : l \in Literals(conds)}

LEMMA UsedAtoms ==
    ASSUME NEW conds \in SUBSET Conditions
    PROVE  /\ IsFiniteSet(Used(conds)) /\ Used(conds) \subseteq Nat /\ Used(conds) \subseteq AllAtoms
           /\ \A l \in Literals(conds) : l.atom \in Used(conds) /\ l.negated \in BOOLEAN
<1>1. Literals(conds) \subseteq Literals(Conditions)
  BY DEF Literals
<1>2. \A l \in Literals(Conditions) : l.atom \in Nat /\ l.negated \in BOOLEAN /\ l.atom \in AllAtoms
  BY ResolverAssumption DEF Literals, AllAtoms
<1>3. Used(conds) \subseteq Nat /\ Used(conds) \subseteq AllAtoms
  BY <1>1, <1>2 DEF Used
<1>4. IsFiniteSet(Used(conds))
  BY <1>3, ResolverAssumption, FS_Subset
<1> QED BY <1>1, <1>2, <1>3, <1>4 DEF Used

LEMMA Numbered ==
    ASSUME NEW conds \in SUBSET Conditions
    PROVE  /\ DOMAIN Number(conds) = Used(conds)
           /\ Cardinality(Used(conds)) \in Nat
           /\ \A a \in Used(conds) : Number(conds)[a] \in 1..Cardinality(Used(conds))
           /\ \A a, b \in Used(conds) : Number(conds)[a] = Number(conds)[b] => a = b
<1> DEFINE used == Used(conds)
           Below(a) == {b \in used : b <= a}
<1>1. Number(conds) = [a \in used |-> Cardinality(Below(a))]
  BY DEF Number, Used, Literals
<1>2. IsFiniteSet(used) /\ used \subseteq Nat
  BY UsedAtoms
<1>3. Cardinality(used) \in Nat
  BY <1>2, FS_CardinalityType
<1> HIDE DEF used
<1>4. \A a \in used : /\ IsFiniteSet(Below(a)) /\ Cardinality(Below(a)) \in Nat
                      /\ Cardinality(Below(a)) <= Cardinality(used) /\ a \in Below(a)
  <2> SUFFICES ASSUME NEW a \in used
               PROVE  /\ IsFiniteSet(Below(a)) /\ Cardinality(Below(a)) \in Nat
                      /\ Cardinality(Below(a)) <= Cardinality(used) /\ a \in Below(a)
    OBVIOUS
  <2>1. Below(a) \in SUBSET used /\ a \in Below(a)
    BY <1>2
  <2> HIDE DEF Below
  <2>2. IsFiniteSet(Below(a)) /\ Cardinality(Below(a)) <= Cardinality(used)
    BY <1>2, <2>1, FS_Subset
  <2> QED BY <2>1, <2>2, FS_CardinalityType
<1>5. \A a \in used : Cardinality(Below(a)) \in 1..Cardinality(used)
  <2> SUFFICES ASSUME NEW a \in used PROVE Cardinality(Below(a)) # 0
    BY <1>3, <1>4
  <2>1. IsFiniteSet(Below(a)) /\ Below(a) # {}
    BY <1>4
  <2> HIDE DEF Below
  <2> QED BY <2>1, FS_EmptySet
<1>6. ASSUME NEW a \in used, NEW b \in used, a < b PROVE Cardinality(Below(a)) # Cardinality(Below(b))
  <2>1. a \in Nat /\ b \in Nat
    BY <1>2
  <2>2. Below(a) \in SUBSET Below(b) /\ b \notin Below(a) /\ b \in Below(b) /\ IsFiniteSet(Below(b))
    <3>1. b \in Below(b) /\ IsFiniteSet(Below(b))
      BY <1>4
    <3>2. ~ (b <= a)
      BY <1>6, <2>1
    <3>3. \A c \in Nat : c <= a => c <= b
      BY <1>6, <2>1
    <3> QED BY <1>2, <3>1, <3>2, <3>3
  <2> HIDE DEF Below
  <2> QED BY <2>2, FS_Subset
<1>7. \A a, b \in used : Cardinality(Below(a)) = Cardinality(Below(b)) => a = b
  <2> SUFFICES ASSUME NEW a \in used, NEW b \in used, a # b PROVE Cardinality(Below(a)) # Cardinality(Below(b))
    OBVIOUS
  <2>1. a < b \/ b < a
    BY <1>2
  <2> HIDE DEF Below
  <2> QED BY <1>6, <2>1
<1> HIDE DEF Below
<1> QED BY <1>1, <1>3, <1>5, <1>7 DEF used

Numeral(l, number) == IF l.negated THEN - number[l.atom] ELSE number[l.atom]

Numerals(clause, number) == {Numeral(l, number) : l \in clause}
Clauses(conds, number) == {l.lits : l \in Encoded(conds, number)}

LEMMA EncodedLiterals ==
    ASSUME NEW conds, NEW number, NEW lits
    PROVE  lits \in Clauses(conds, number) <=>
             \E x \in conds : \E clause \in ClausesOf[x] : lits = Numerals(clause, number)
<1> DEFINE Entry(x, clause) == [origin |-> x, lits |-> Numerals(clause, number)]
<1>1. Encoded(conds, number) = UNION {{Entry(x, clause) : clause \in ClausesOf[x]} : x \in conds}
  BY DEF Encoded, Numeral, Numerals
<1>2. \A e : e \in Encoded(conds, number) <=> \E x \in conds : \E clause \in ClausesOf[x] : e = Entry(x, clause)
  BY <1>1
<1>3. \A x, clause : Entry(x, clause).lits = Numerals(clause, number)
  OBVIOUS
<1> HIDE DEF Entry
<1>5. lits \in Clauses(conds, number) <=> \E e \in Encoded(conds, number) : lits = e.lits
  BY DEF Clauses
<1>6. (\E e \in Encoded(conds, number) : lits = e.lits) <=>
        \E x \in conds : \E clause \in ClausesOf[x] : lits = Entry(x, clause).lits
  BY <1>2
<1> QED BY <1>3, <1>5, <1>6

LEMMA NumeralTrue ==
    ASSUME NEW n \in Nat, NEW values \in [1..n -> BOOLEAN], NEW l, NEW number,
           number[l.atom] \in 1..n, l.negated \in BOOLEAN
    PROVE  True(values, Numeral(l, number)) <=> values[number[l.atom]] # l.negated
<1> DEFINE i == number[l.atom]
<1>1. i \in 1..n /\ values[i] \in BOOLEAN
  OBVIOUS
<1>2. i > 0 /\ - i < 0 /\ ~ (i < 0) /\ - (- i) = i /\ ~ (- i > 0)
  BY <1>1
<1>3. CASE l.negated
  <2>1. Numeral(l, number) = - i
    BY <1>3 DEF Numeral
  <2>2. True(values, - i) = (values[i] = (- i > 0))
    BY <1>2 DEF True
  <2>3. (- i > 0) = FALSE /\ l.negated = TRUE
    BY <1>2, <1>3
  <2> QED BY <1>1, <2>1, <2>2, <2>3
<1>4. CASE ~ l.negated
  <2>1. Numeral(l, number) = i
    BY <1>4 DEF Numeral
  <2>2. True(values, i) = (values[i] = (i > 0))
    BY <1>2 DEF True
  <2>3. (i > 0) = TRUE /\ l.negated = FALSE
    BY <1>2, <1>4
  <2> QED BY <1>1, <2>1, <2>2, <2>3
<1> QED BY <1>3, <1>4

\* An assignment to the variables of a query that satisfies some of its
\* conditions is an interpretation that makes them true, and the other way round.
LEMMA FormulaMeans ==
    ASSUME NEW all \in SUBSET Conditions, NEW conds \in SUBSET all
    PROVE  (\E values \in [1..Cardinality(Used(all)) -> BOOLEAN] :
              CheckAssignment(values, Cardinality(Used(all)), Clauses(conds, Number(all))))
           <=> Joint(conds)
<1> DEFINE n == Cardinality(Used(all))
           number == Number(all)
           formula == Clauses(conds, number)
<1>1. /\ n \in Nat /\ \A a \in Used(all) : number[a] \in 1..n
      /\ \A a, b \in Used(all) : number[a] = number[b] => a = b
  BY Numbered
<1>2. \A x \in conds : \A clause \in ClausesOf[x] : \A l \in clause :
          l.atom \in Used(all) /\ l.negated \in BOOLEAN /\ l.atom \in AllAtoms
  <2>1. \A x \in conds : \A clause \in ClausesOf[x] : \A l \in clause : l \in Literals(all)
    BY DEF Literals
  <2> QED BY <2>1, UsedAtoms
<1> HIDE DEF n, number
<1>3. \A lits : lits \in formula <=>
             \E x \in conds : \E clause \in ClausesOf[x] : lits = Numerals(clause, number)
  BY EncodedLiterals
<1> HIDE DEF formula
<1>4. ASSUME NEW values \in [1..n -> BOOLEAN]
      PROVE  CheckAssignment(values, n, formula) <=>
               \A x \in conds : \A clause \in ClausesOf[x] :
                 \E l \in clause : values[number[l.atom]] # l.negated
  <2>1. ASSUME NEW x \in conds, NEW clause \in ClausesOf[x], NEW l \in clause
        PROVE  True(values, Numeral(l, number)) <=> values[number[l.atom]] # l.negated
    BY <1>1, <1>2, <1>4, NumeralTrue
  <2>2. CheckAssignment(values, n, formula) <=> \A lits \in formula : \E lit \in lits : True(values, lit)
    BY DEF CheckAssignment
  <2>3. (\A lits \in formula : \E lit \in lits : True(values, lit)) <=>
          \A x \in conds : \A clause \in ClausesOf[x] : \E lit \in Numerals(clause, number) : True(values, lit)
    BY <1>3
  <2>4. (\A x \in conds : \A clause \in ClausesOf[x] : \E lit \in Numerals(clause, number) : True(values, lit))
         <=> \A x \in conds : \A clause \in ClausesOf[x] : \E l \in clause : True(values, Numeral(l, number))
    BY DEF Numerals
  <2> QED BY <2>1, <2>2, <2>3, <2>4
<1>5. ASSUME NEW values \in [1..n -> BOOLEAN], CheckAssignment(values, n, formula) PROVE Joint(conds)
  <2> DEFINE truth == [a \in AllAtoms |-> IF a \in Used(all) THEN values[number[a]] ELSE FALSE]
  <2>1. truth \in [AllAtoms -> BOOLEAN]
    BY <1>1
  <2>2. \A x \in conds : \A clause \in ClausesOf[x] : \A l \in clause : truth[l.atom] = values[number[l.atom]]
    BY <1>2
  <2> HIDE DEF truth
  <2>3. \A x \in conds : \A clause \in ClausesOf[x] : \E l \in clause : truth[l.atom] # l.negated
    BY <1>4, <1>5, <2>2
  <2> QED BY <2>1, <2>3 DEF Joint
<1>6. ASSUME Joint(conds) PROVE \E values \in [1..n -> BOOLEAN] : CheckAssignment(values, n, formula)
  <2>1. PICK truth \in [AllAtoms -> BOOLEAN] :
           \A x \in conds : \A clause \in ClausesOf[x] : \E l \in clause : truth[l.atom] # l.negated
    BY <1>6 DEF Joint
  <2> DEFINE values == [i \in 1..n |-> \E a \in Used(all) : number[a] = i /\ truth[a]]
  <2>2. values \in [1..n -> BOOLEAN]
    OBVIOUS
  <2>3. \A a \in Used(all) : values[number[a]] = (\E b \in Used(all) : number[b] = number[a] /\ truth[b])
    BY <1>1
  <2> HIDE DEF values
  <2>4. \A a \in Used(all) : values[number[a]] <=> truth[a]
    BY <1>1, <2>3
  <2>5. \A a \in Used(all) : truth[a] \in BOOLEAN /\ values[number[a]] \in BOOLEAN
    BY <1>1, <2>2, <2>1, UsedAtoms
  <2>6. \A x \in conds : \A clause \in ClausesOf[x] : \A l \in clause : values[number[l.atom]] = truth[l.atom]
    BY <1>2, <2>4, <2>5
  <2>7. \A x \in conds : \A clause \in ClausesOf[x] : \E l \in clause : values[number[l.atom]] # l.negated
    BY <2>1, <2>6
  <2> QED BY <1>4, <2>2, <2>7
<1> QED BY <1>5, <1>6 DEF n, number, formula

LEMMA JointPart ==
    ASSUME NEW conds, NEW part \in SUBSET conds
    PROVE  Joint(conds) => Joint(part)
  BY DEF Joint

LEMMA NothingContradicts == Joint({})
<1>1. [a \in AllAtoms |-> TRUE] \in [AllAtoms -> BOOLEAN]
  OBVIOUS
<1> QED BY <1>1 DEF Joint

-----------------------------------------------------------------------------
(* Checks under way.                                                          *)

ResolverSpec == ResolverInit /\ [][ResolverNext]_resolverVars

IdleRow == [pc : {"idle"}]
ActiveRow == [pc : {"reserve", "solver", "checker"}, q : CheckRequests,
              stage : {"rules", "declarations", "core"}, step : Nat,
              groups : SUBSET Conditions, untried : SUBSET Conditions,
              outcome : {"inconclusive", "conflict", "invalid_rules"}]
DoneRow == [pc : {"done"}, q : CheckRequests,
            outcome : {"inconclusive", "compatible", "conflict", "invalid_rules"},
            core : SUBSET Conditions, minimal : BOOLEAN]

Tells(q, outcome, conds) ==
    /\ outcome # "inconclusive" => AllKnown(q)
    /\ outcome = "compatible" => Joint(Asked(q))
    /\ outcome = "conflict" => Joint(q.rules) /\ conds \subseteq Asked(q) /\ ~ Joint(conds)
    /\ outcome = "invalid_rules" => conds \subseteq q.rules /\ ~ Joint(conds)

\* What a check has decided holds, and each deletion tried without success left a
\* condition that the contradiction needs.
UnderWay(k) ==
    /\ AllKnown(k.q)
    /\ k.stage # "core" => k.outcome = "inconclusive" /\ k.groups = {}
    /\ k.stage = "declarations" => Joint(k.q.rules)
    /\ k.stage = "core" => /\ k.outcome # "inconclusive" /\ Tells(k.q, k.outcome, k.groups)
                           /\ k.untried # {} /\ k.untried \subseteq k.groups
                           /\ \A x \in k.groups \ k.untried : Joint(k.groups \ {x})

Finished(k) ==
    /\ Tells(k.q, k.outcome, k.core)
    /\ k.minimal => \A x \in k.core : Joint(k.core \ {x})

Busy(k) == k.pc \in {"solver", "checker"}

RowTells(k) == \/ k \in IdleRow
               \/ k \in ActiveRow /\ UnderWay(k)
               \/ k \in DoneRow /\ Finished(k)

\* The file of a query is the formula of the one check that uses it.
QueryKept(c) ==
    LET k == check[c] IN
    Busy(k) => /\ QueryOf(k) \in DOMAIN queries
               /\ queries[QueryOf(k)].formula = Formula(k)
               /\ k.pc = "checker" /\ queries[QueryOf(k)].proof = "good" => ~ Joint(Question(k))

ResolverInv ==
    /\ check = [c \in Deciders |-> check[c]]
    /\ \A c \in Deciders : RowTells(check[c])
    /\ \A d \in DOMAIN queries : queries[d] = [formula |-> queries[d].formula, proof |-> queries[d].proof]
    /\ \A c \in Deciders : QueryKept(c)
    /\ \A b, c \in Deciders : Busy(check[b]) /\ Busy(check[c]) /\ b # c => QueryOf(check[b]) # QueryOf(check[c])

LEMMA RequestKnown ==
    ASSUME NEW q \in CheckRequests
    PROVE  /\ q.rules \subseteq RuleIds /\ q.standing \in Standings
           /\ Selected(q) \subseteq Members /\ Asked(q) \subseteq Conditions
  BY ResolverAssumption DEF CheckRequest, Standings, Selected, Asked, Conditions

LEMMA QuestionAsked ==
    ASSUME NEW k \in ActiveRow, UnderWay(k)
    PROVE  Question(k) \subseteq Asked(k.q) /\ Asked(k.q) \in SUBSET Conditions
<1>1. k.q \in CheckRequests /\ k.stage \in {"rules", "declarations", "core"}
      /\ k.outcome \in {"inconclusive", "conflict", "invalid_rules"}
  BY DEF ActiveRow
<1>2. Asked(k.q) \subseteq Conditions /\ k.q.rules \subseteq Asked(k.q)
  BY <1>1, RequestKnown DEF Asked
<1>3. k.stage = "core" => k.groups \subseteq Asked(k.q)
  BY <1>1, <1>2 DEF UnderWay, Tells
<1> QED BY <1>1, <1>2, <1>3 DEF Question, Trial

LEMMA FormulaOf ==
    ASSUME NEW k
    PROVE  /\ {l.lits : l \in Formula(k)} = Clauses(Question(k), Number(Asked(k.q)))
           /\ Asked(k.q) \subseteq Conditions => Count(k.q) = Cardinality(Used(Asked(k.q)))
<1>1. {l.lits : l \in Formula(k)} = Clauses(Question(k), Number(Asked(k.q)))
  BY DEF Formula, Compiled, Clauses
<1>2. ASSUME Asked(k.q) \subseteq Conditions PROVE DOMAIN Number(Asked(k.q)) = Used(Asked(k.q))
  BY <1>2, Numbered
<1> QED BY <1>1, <1>2 DEF Count

LEMMA AssignmentMeans ==
    ASSUME NEW k \in ActiveRow, UnderWay(k), NEW n, NEW values \in Assignments(n),
           CheckAssignment(values, Count(k.q), {l.lits : l \in Formula(k)})
    PROVE  Joint(Question(k))
<1> DEFINE c == Cardinality(Used(Asked(k.q)))
<1>1. Question(k) \in SUBSET Asked(k.q) /\ Asked(k.q) \in SUBSET Conditions
  BY QuestionAsked
<1>2. Count(k.q) = c /\ {l.lits : l \in Formula(k)} = Clauses(Question(k), Number(Asked(k.q)))
  BY <1>1, FormulaOf
<1>3. CheckAssignment(values, c, Clauses(Question(k), Number(Asked(k.q))))
  BY <1>2
<1>4. PICK m \in 0..n : values \in [1..m -> BOOLEAN]
  BY DEF Assignments
<1>5. DOMAIN values = 1..c
  BY <1>3 DEF CheckAssignment
<1>6. values \in [1..c -> BOOLEAN]
  BY <1>4, <1>5
<1> QED BY <1>1, <1>3, <1>6, FormulaMeans

LEMMA ProofMeans ==
    ASSUME NEW k \in ActiveRow, UnderWay(k), Unsatisfiable(Count(k.q), {l.lits : l \in Formula(k)})
    PROVE  ~ Joint(Question(k))
<1> DEFINE c == Cardinality(Used(Asked(k.q)))
<1>1. Question(k) \in SUBSET Asked(k.q) /\ Asked(k.q) \in SUBSET Conditions
  BY QuestionAsked
<1>2. Count(k.q) = c /\ {l.lits : l \in Formula(k)} = Clauses(Question(k), Number(Asked(k.q)))
  BY <1>1, FormulaOf
<1>3. Unsatisfiable(c, Clauses(Question(k), Number(Asked(k.q))))
  BY <1>2
<1> HIDE DEF c
<1>4. ~ \E values \in [1..c -> BOOLEAN] : CheckAssignment(values, c, Clauses(Question(k), Number(Asked(k.q))))
  BY <1>3 DEF Unsatisfiable
<1> QED BY <1>1, <1>4, FormulaMeans DEF c

LEMMA UndecidedTells ==
    ASSUME NEW k \in ActiveRow, UnderWay(k)
    PROVE  RowTells(Undecided(k)) /\ ~ Busy(Undecided(k))
<1> DEFINE v == Undecided(k)
<1>1. /\ v = [pc |-> "done", q |-> k.q, outcome |-> k.outcome, core |-> k.groups, minimal |-> FALSE]
      /\ k.q \in CheckRequests /\ k.outcome \in {"inconclusive", "conflict", "invalid_rules"}
      /\ k.groups \in SUBSET Conditions /\ k.stage \in {"rules", "declarations", "core"}
  BY DEF Undecided, Verdict, ActiveRow
<1>2. Tells(k.q, k.outcome, k.groups)
  BY <1>1 DEF UnderWay, Tells
<1>3. v \in DoneRow /\ v.pc = "done" /\ v.q = k.q /\ v.outcome = k.outcome /\ v.core = k.groups /\ v.minimal = FALSE
  BY <1>1 DEF DoneRow
<1> HIDE DEF v
<1>4. Finished(v) /\ ~ Busy(v)
  BY <1>2, <1>3 DEF Finished, Busy
<1> QED BY <1>3, <1>4 DEF RowTells, v

LEMMA VerdictTells ==
    ASSUME NEW q \in CheckRequests, NEW outcome \in {"inconclusive", "compatible", "conflict", "invalid_rules"},
           NEW core \in SUBSET Conditions, NEW minimal \in BOOLEAN,
           Tells(q, outcome, core), minimal => \A x \in core : Joint(core \ {x})
    PROVE  RowTells(Verdict(q, outcome, core, minimal)) /\ ~ Busy(Verdict(q, outcome, core, minimal))
<1> DEFINE v == Verdict(q, outcome, core, minimal)
<1>1. /\ v \in DoneRow /\ v.pc = "done" /\ v.q = q /\ v.outcome = outcome
      /\ v.core = core /\ v.minimal = minimal
  BY DEF Verdict, DoneRow
<1> HIDE DEF v
<1>2. Finished(v) /\ ~ Busy(v)
  BY <1>1 DEF Finished, Busy
<1> QED BY <1>1, <1>2 DEF RowTells, v

\* A contradiction found: it is the verdict, or what the deletions start from.
LEMMA DecidedTells ==
    ASSUME NEW k \in ActiveRow, UnderWay(k), NEW outcome \in {"conflict", "invalid_rules"}, NEW conds \in SUBSET Conditions,
           Tells(k.q, outcome, conds)
    PROVE  RowTells(Decided(k, outcome, conds)) /\ ~ Busy(Decided(k, outcome, conds))
<1>1. k.q \in CheckRequests /\ ~ Joint(conds)
  BY DEF ActiveRow, Tells
<1>2. CASE k.q.core = 0
  BY <1>1, <1>2, VerdictTells DEF Decided
<1>3. CASE k.q.core # 0
  <2> DEFINE r == [k EXCEPT !.pc = "reserve", !.stage = "core", !.step = 1, !.outcome = outcome,
                            !.groups = conds, !.untried = conds]
  <2>1. /\ r \in ActiveRow /\ r.pc = "reserve" /\ r.q = k.q /\ r.stage = "core" /\ r.outcome = outcome
        /\ r.groups = conds /\ r.untried = conds
    BY DEF ActiveRow
  <2>2. Decided(k, outcome, conds) = r
    BY <1>3 DEF Decided
  <2>3. conds # {}
    BY <1>1, NothingContradicts
  <2> HIDE DEF r
  <2>4. UnderWay(r) /\ ~ Busy(r)
    BY <2>1, <2>3 DEF UnderWay, Busy
  <2> QED BY <2>1, <2>2, <2>4 DEF RowTells
<1> QED BY <1>2, <1>3

\* One deletion tried: what is left still contradicts itself, and every condition
\* kept after its trial is needed for that, however many are deleted later.
LEMMA DeletedTells ==
    ASSUME NEW k \in ActiveRow, UnderWay(k), k.stage = "core", NEW sat \in BOOLEAN,
           sat => Joint(Trial(k)), ~ sat => ~ Joint(Trial(k))
    PROVE  LET r == Deleted(k, IF sat THEN k.groups ELSE Trial(k)) IN RowTells(r) /\ ~ Busy(r)
<1> DEFINE x == Least(k.untried)
           groups == IF sat THEN k.groups ELSE Trial(k)
           untried == k.untried \ {x}
<1>1. /\ k.q \in CheckRequests /\ k.outcome \in {"conflict", "invalid_rules"} /\ k.step \in Nat
      /\ k.groups \in SUBSET Conditions /\ k.untried \subseteq k.groups /\ k.untried # {}
      /\ Tells(k.q, k.outcome, k.groups) /\ AllKnown(k.q)
      /\ \A y \in k.groups \ k.untried : Joint(k.groups \ {y})
  BY DEF ActiveRow, UnderWay
<1>2. x \in k.untried
  <2>1. k.untried \subseteq Nat
    BY <1>1, ResolverAssumption DEF Conditions
  <2> QED BY <1>1, <2>1, LeastOfNats
<1> HIDE DEF x
<1>3. Trial(k) = k.groups \ {x}
  BY DEF Trial, x
<1>4. groups \in SUBSET k.groups /\ ~ Joint(groups)
  <2>1. ~ Joint(k.groups)
    BY <1>1 DEF Tells
  <2> QED BY <1>3, <2>1
<1>5. Tells(k.q, k.outcome, groups)
  BY <1>1, <1>4 DEF Tells
<1>6. \A y \in groups \ untried : Joint(groups \ {y})
  <2> SUFFICES ASSUME NEW y \in groups \ untried PROVE Joint(groups \ {y})
    OBVIOUS
  <2>1. CASE y = x
    BY <1>3, <2>1
  <2>2. CASE y # x
    <3>1. Joint(k.groups \ {y})
      BY <1>1, <1>4, <2>2
    <3>2. groups \ {y} \in SUBSET (k.groups \ {y})
      BY <1>4
    <3> QED BY <3>1, <3>2, JointPart
  <2> QED BY <2>1, <2>2
<1>7. untried \subseteq groups
  BY <1>1, <1>3
<1> DEFINE r == Deleted(k, groups)
<1> HIDE DEF groups, untried
<1>8. CASE untried = {}
  <2>1. r = Verdict(k.q, k.outcome, groups, TRUE)
    BY <1>8 DEF Deleted, untried, x
  <2> QED BY <1>1, <1>4, <1>5, <1>6, <1>8, <2>1, VerdictTells DEF groups
<1>9. CASE untried # {} /\ k.step = k.q.core
  <2>1. r = Verdict(k.q, k.outcome, groups, FALSE)
    BY <1>9 DEF Deleted, untried, x
  <2> QED BY <1>1, <1>4, <1>5, <2>1, VerdictTells DEF groups
<1>10. CASE untried # {} /\ k.step # k.q.core
  <2> DEFINE e == [k EXCEPT !.pc = "reserve", !.step = k.step + 1, !.groups = groups, !.untried = untried]
  <2>1. Deleted(k, groups) = e
    BY <1>10 DEF Deleted, untried, x
  <2>2. groups \in SUBSET Conditions /\ untried \in SUBSET Conditions /\ k.step + 1 \in Nat
    BY <1>1, <1>4, <1>7
  <2>3. /\ e \in ActiveRow /\ e.pc = "reserve" /\ e.q = k.q /\ e.stage = "core" /\ e.outcome = k.outcome
        /\ e.groups = groups /\ e.untried = untried
    BY <2>2 DEF ActiveRow
  <2> HIDE DEF e
  <2>4. UnderWay(e) /\ ~ Busy(e)
    BY <1>1, <1>5, <1>6, <1>7, <1>10, <2>3 DEF UnderWay, Busy
  <2> QED BY <2>1, <2>3, <2>4 DEF RowTells, groups
<1> QED BY <1>8, <1>9, <1>10

LEMMA AnsweredTells ==
    ASSUME NEW k \in ActiveRow, UnderWay(k), NEW sat \in BOOLEAN,
           sat => Joint(Question(k)), ~ sat => ~ Joint(Question(k))
    PROVE  RowTells(Answered(k, sat)) /\ ~ Busy(Answered(k, sat))
<1>1. /\ k.q \in CheckRequests /\ k.stage \in {"rules", "declarations", "core"} /\ AllKnown(k.q)
      /\ k.q.rules \in SUBSET Conditions /\ Asked(k.q) \in SUBSET Conditions
      /\ k.q.rules \subseteq Asked(k.q)
  BY RequestKnown DEF ActiveRow, UnderWay, Asked, Conditions
<1>2. CASE k.stage = "rules"
  <2>1. Question(k) = k.q.rules
    BY <1>2 DEF Question
  <2>2. CASE sat
    <3> DEFINE r == [k EXCEPT !.pc = "reserve", !.stage = "declarations"]
    <3>1. /\ r \in ActiveRow /\ r.pc = "reserve" /\ r.q = k.q /\ r.stage = "declarations" /\ r.outcome = k.outcome
          /\ r.groups = k.groups /\ r.untried = k.untried
      BY DEF ActiveRow
    <3>2. Answered(k, sat) = r
      BY <1>2, <2>2 DEF Answered
    <3> HIDE DEF r
    <3>3. UnderWay(r) /\ ~ Busy(r)
      BY <1>1, <1>2, <2>1, <2>2, <3>1 DEF UnderWay, Busy
    <3> QED BY <3>1, <3>2, <3>3 DEF RowTells
  <2>3. CASE ~ sat
    <3>1. Answered(k, sat) = Decided(k, "invalid_rules", k.q.rules)
      BY <1>2, <2>3 DEF Answered
    <3>2. Tells(k.q, "invalid_rules", k.q.rules)
      BY <1>1, <2>1, <2>3 DEF Tells
    <3> QED BY <1>1, <3>1, <3>2, DecidedTells
  <2> QED BY <2>2, <2>3
<1>3. CASE k.stage = "declarations"
  <2>1. Question(k) = Asked(k.q)
    BY <1>3 DEF Question
  <2>2. CASE sat
    <3>1. Answered(k, sat) = Verdict(k.q, "compatible", {}, FALSE)
      BY <1>3, <2>2 DEF Answered
    <3>2. Tells(k.q, "compatible", {})
      BY <1>1, <2>1, <2>2 DEF Tells
    <3> QED BY <1>1, <3>1, <3>2, VerdictTells
  <2>3. CASE ~ sat
    <3>1. Answered(k, sat) = Decided(k, "conflict", Asked(k.q))
      BY <1>3, <2>3 DEF Answered
    <3>2. Tells(k.q, "conflict", Asked(k.q))
      BY <1>1, <1>3, <2>1, <2>3 DEF Tells, UnderWay
    <3> QED BY <1>1, <3>1, <3>2, DecidedTells
  <2> QED BY <2>2, <2>3
<1>4. CASE k.stage = "core"
  <2>1. Question(k) = Trial(k)
    BY <1>4 DEF Question
  <2>2. Answered(k, sat) = Deleted(k, IF sat THEN k.groups ELSE Trial(k))
    BY <1>4 DEF Answered
  <2> QED BY <1>4, <2>1, <2>2, DeletedTells
<1> QED BY <1>1, <1>2, <1>3, <1>4

-----------------------------------------------------------------------------
(* The steps.                                                                 *)

\* What the other checks rely on: a step gives caller c a row that tells the
\* truth, and leaves the directories of the other callers' queries alone.
LEMMA OneCallerSteps ==
    ASSUME ResolverInv, NEW c \in Deciders, NEW r, RowTells(r), check' = [check EXCEPT ![c] = r],
           \A d \in DOMAIN queries' : queries'[d] = [formula |-> queries'[d].formula, proof |-> queries'[d].proof],
           DOMAIN queries \subseteq DOMAIN queries',
           \A b \in Deciders : b # c /\ Busy(check[b]) => queries'[QueryOf(check[b])] = queries[QueryOf(check[b])],
           Busy(r) => /\ QueryOf(r) \in DOMAIN queries'
                      /\ queries'[QueryOf(r)].formula = Formula(r)
                      /\ (r.pc = "checker" /\ queries'[QueryOf(r)].proof = "good" => ~ Joint(Question(r)))
                      /\ \A b \in Deciders : b # c /\ Busy(check[b]) => QueryOf(check[b]) # QueryOf(r)
    PROVE  ResolverInv'
<1>1. check = [b \in Deciders |-> check[b]]
  BY DEF ResolverInv
<1>2. check' = [b \in Deciders |-> check'[b]] /\ check'[c] = r /\ \A b \in Deciders : b # c => check'[b] = check[b]
  BY <1>1
<1>3. \A b \in Deciders : RowTells(check'[b])
  BY <1>2 DEF ResolverInv
<1>4. ASSUME NEW b \in Deciders, Busy(check'[b])
      PROVE  /\ QueryOf(check'[b]) \in DOMAIN queries'
             /\ queries'[QueryOf(check'[b])].formula = Formula(check'[b])
             /\ (check'[b].pc = "checker" /\ queries'[QueryOf(check'[b])].proof = "good" => ~ Joint(Question(check'[b])))
  <2>1. CASE b = c
    BY <1>2, <1>4, <2>1
  <2>2. CASE b # c
    <3>1. check'[b] = check[b] /\ Busy(check[b])
      BY <1>2, <1>4, <2>2
    <3>2. queries'[QueryOf(check[b])] = queries[QueryOf(check[b])]
      BY <2>2, <3>1
    <3> QED BY <3>1, <3>2 DEF ResolverInv, QueryKept
  <2> QED BY <2>1, <2>2
<1>5. ASSUME NEW a \in Deciders, NEW b \in Deciders, Busy(check'[a]), Busy(check'[b]), a # b
      PROVE  QueryOf(check'[a]) # QueryOf(check'[b])
  <2>1. CASE a = c
    BY <1>2, <1>5, <2>1
  <2>2. CASE b = c
    BY <1>2, <1>5, <2>2
  <2>3. CASE a # c /\ b # c
    BY <1>2, <1>5, <2>3 DEF ResolverInv
  <2> QED BY <2>1, <2>2, <2>3
<1> QED BY <1>2, <1>3, <1>4, <1>5 DEF ResolverInv, QueryKept

\* The same when the caller has no query open afterwards.
LEMMA IdleAfterStep ==
    ASSUME ResolverInv, NEW c \in Deciders, NEW r, RowTells(r), ~ Busy(r), check' = [check EXCEPT ![c] = r],
           UNCHANGED queries
    PROVE  ResolverInv'
<1>1. \A d \in DOMAIN queries' : queries'[d] = [formula |-> queries'[d].formula, proof |-> queries'[d].proof]
  BY DEF ResolverInv
<1> QED BY <1>1, OneCallerSteps

LEMMA ActiveCheck ==
    ASSUME ResolverInv, NEW c \in Deciders, check[c].pc \in {"reserve", "solver", "checker"}
    PROVE  check[c] \in ActiveRow /\ UnderWay(check[c])
<1>1. RowTells(check[c])
  BY DEF ResolverInv
<1> QED BY <1>1 DEF RowTells, IdleRow, DoneRow

LEMMA StartKeeps ==
    ASSUME ResolverInv, NEW c \in Deciders, NEW q \in CheckRequests, StartCheck(c, q)
    PROVE  ResolverInv'
<1> DEFINE first == [pc |-> "reserve", q |-> q, stage |-> "rules", step |-> 0,
                     groups |-> {}, untried |-> {}, outcome |-> "inconclusive"]
<1>1. CASE q.stale \/ ~ AllKnown(q) \/ Selected(q) = {}
  <2>1. check' = [check EXCEPT ![c] = Verdict(q, "inconclusive", {}, FALSE)] /\ UNCHANGED queries
    BY <1>1 DEF StartCheck
  <2>2. Tells(q, "inconclusive", {})
    BY DEF Tells
  <2>3. RowTells(Verdict(q, "inconclusive", {}, FALSE)) /\ ~ Busy(Verdict(q, "inconclusive", {}, FALSE))
    BY <2>2, VerdictTells
  <2> QED BY <2>1, <2>3, IdleAfterStep
<1>2. CASE ~ (q.stale \/ ~ AllKnown(q) \/ Selected(q) = {})
  <2>1. check' = [check EXCEPT ![c] = first] /\ UNCHANGED queries
    BY <1>2 DEF StartCheck
  <2>2. /\ first \in ActiveRow /\ first.pc = "reserve" /\ first.q = q /\ first.stage = "rules"
        /\ first.outcome = "inconclusive" /\ first.groups = {}
    BY DEF ActiveRow
  <2> HIDE DEF first
  <2>3. RowTells(first) /\ ~ Busy(first)
    BY <1>2, <2>2 DEF RowTells, UnderWay, Busy
  <2> QED BY <2>1, <2>3, IdleAfterStep
<1> QED BY <1>1, <1>2

LEMMA FailKeeps ==
    ASSUME ResolverInv, NEW c \in Deciders, check[c].pc \in {"reserve", "solver", "checker"}, Fail(c), UNCHANGED queries
    PROVE  ResolverInv'
<1>1. RowTells(Undecided(check[c])) /\ ~ Busy(Undecided(check[c]))
  BY ActiveCheck, UndecidedTells
<1>2. check' = [check EXCEPT ![c] = Undecided(check[c])]
  BY DEF Fail
<1> QED BY <1>1, <1>2, IdleAfterStep

LEMMA ReserveKeeps ==
    ASSUME ResolverInv, NEW c \in Deciders, Reserve(c)
    PROVE  ResolverInv'
<1> DEFINE k == check[c]
           r == [k EXCEPT !.pc = "solver"]
<1>0. k.pc = "reserve"
  BY DEF Reserve
<1>1. k \in ActiveRow /\ UnderWay(k)
  BY <1>0, ActiveCheck
<1>2. CASE ~ NewQuery(k)
  <2>1. Fail(c) /\ UNCHANGED queries
    BY <1>2 DEF Reserve
  <2> QED BY <1>0, <2>1, FailKeeps
<1>3. CASE NewQuery(k)
  <2> DEFINE d == QueryOf(k)
             fresh == [formula |-> Formula(k), proof |-> "none"]
  <2>1. /\ check' = [check EXCEPT ![c] = r]
        /\ queries' = [e \in DOMAIN queries \cup {d} |-> IF e = d THEN fresh ELSE queries[e]]
        /\ d \notin DOMAIN queries
    BY <1>3 DEF Reserve, NewQuery
  <2>2. /\ r \in ActiveRow /\ r.pc = "solver" /\ r.q = k.q /\ r.stage = k.stage /\ r.step = k.step
        /\ r.outcome = k.outcome /\ r.groups = k.groups /\ r.untried = k.untried
    BY <1>1 DEF ActiveRow
  <2>3. fresh = [formula |-> fresh.formula, proof |-> fresh.proof] /\ fresh.formula = Formula(k) /\ fresh.proof = "none"
    OBVIOUS
  <2> HIDE DEF r, k, fresh
  <2>4. UnderWay(r)
    BY <1>1, <2>2 DEF UnderWay
  <2>5. QueryOf(r) = d /\ Formula(r) = Formula(k)
    BY <2>2 DEF QueryOf, Formula, Question, Trial
  <2> HIDE DEF d
  <2>6. DOMAIN queries' = DOMAIN queries \cup {d} /\ queries'[d] = fresh
        /\ \A e \in DOMAIN queries : queries'[e] = queries[e]
    BY <2>1
  <2>7. \A e \in DOMAIN queries' : queries'[e] = [formula |-> queries'[e].formula, proof |-> queries'[e].proof]
    BY <2>3, <2>6 DEF ResolverInv
  <2>8. \A b \in Deciders : Busy(check[b]) => QueryOf(check[b]) \in DOMAIN queries
    BY DEF ResolverInv, QueryKept
  <2>9. RowTells(r)
    BY <2>2, <2>4 DEF RowTells
  <2> QED BY <2>1, <2>2, <2>3, <2>5, <2>6, <2>7, <2>8, <2>9, OneCallerSteps
<1> QED BY <1>2, <1>3

LEMMA SatKeeps ==
    ASSUME ResolverInv, NEW c \in Deciders, NEW n, NEW values \in Assignments(n), SolverSaysSat(c, values)
    PROVE  ResolverInv'
<1> DEFINE k == check[c]
<1>0. k.pc = "solver" /\ UNCHANGED queries
  BY DEF SolverSaysSat
<1>1. k \in ActiveRow /\ UnderWay(k)
  BY <1>0, ActiveCheck
<1>2. CASE CheckAssignment(values, Count(k.q), {l.lits : l \in Formula(k)})
  <2>1. check' = [check EXCEPT ![c] = Answered(k, TRUE)]
    BY <1>2 DEF SolverSaysSat
  <2>2. Joint(Question(k))
    BY <1>1, <1>2, AssignmentMeans
  <2> HIDE DEF k
  <2>3. RowTells(Answered(k, TRUE)) /\ ~ Busy(Answered(k, TRUE))
    BY <1>1, <2>2, AnsweredTells
  <2> QED BY <1>0, <2>1, <2>3, IdleAfterStep
<1>3. CASE ~ CheckAssignment(values, Count(k.q), {l.lits : l \in Formula(k)})
  <2>1. Fail(c)
    BY <1>3 DEF SolverSaysSat, Fail
  <2> QED BY <1>0, <2>1, FailKeeps
<1> QED BY <1>2, <1>3

LEMMA UnsatKeeps ==
    ASSUME ResolverInv, NEW c \in Deciders, NEW proof \in {"none", "bad", "good"}, SolverSaysUnsat(c, proof)
    PROVE  ResolverInv'
<1> DEFINE k == check[c]
           d == QueryOf(k)
           r == [k EXCEPT !.pc = "checker"]
<1>0. /\ k.pc = "solver"
      /\ proof = "good" => Unsatisfiable(Count(k.q), {l.lits : l \in queries[d].formula})
      /\ queries' = [queries EXCEPT ![d].proof = proof]
      /\ IF proof = "none" THEN Fail(c) ELSE check' = [check EXCEPT ![c] = r]
  BY DEF SolverSaysUnsat
<1>1. k \in ActiveRow /\ UnderWay(k)
  BY <1>0, ActiveCheck
<1>2. d \in DOMAIN queries /\ queries[d].formula = Formula(k)
      /\ queries[d] = [formula |-> queries[d].formula, proof |-> queries[d].proof]
  BY <1>0 DEF ResolverInv, QueryKept, Busy
<1>3. \A b \in Deciders : b # c /\ Busy(check[b]) => QueryOf(check[b]) # d
  BY <1>0 DEF ResolverInv, Busy
<1>4. proof = "good" => ~ Joint(Question(k))
  <2>1. SUFFICES ASSUME proof = "good" PROVE ~ Joint(Question(k))
    OBVIOUS
  <2>2. Unsatisfiable(Count(k.q), {l.lits : l \in Formula(k)})
    BY <1>0, <1>2, <2>1
  <2> QED BY <1>1, <2>2, ProofMeans
<1>5. /\ r \in ActiveRow /\ r.pc = "checker" /\ r.q = k.q /\ r.stage = k.stage /\ r.step = k.step
      /\ r.outcome = k.outcome /\ r.groups = k.groups /\ r.untried = k.untried
  BY <1>1 DEF ActiveRow
<1> HIDE DEF r, k
<1>6. UnderWay(r)
  BY <1>1, <1>5 DEF UnderWay
<1>7. QueryOf(r) = d /\ Formula(r) = Formula(k) /\ Question(r) = Question(k)
  BY <1>5 DEF QueryOf, Formula, Question, Trial
<1> HIDE DEF d
<1>8. /\ DOMAIN queries' = DOMAIN queries
      /\ queries'[d] = [formula |-> queries[d].formula, proof |-> proof]
      /\ \A e \in DOMAIN queries : e # d => queries'[e] = queries[e]
  BY <1>0, <1>2
<1>9. queries'[d].formula = Formula(k) /\ queries'[d].proof = proof
  BY <1>2, <1>8
<1>10. \A e \in DOMAIN queries' : queries'[e] = [formula |-> queries'[e].formula, proof |-> queries'[e].proof]
  BY <1>2, <1>8, <1>9 DEF ResolverInv
<1>11. \A b \in Deciders : Busy(check[b]) => QueryOf(check[b]) \in DOMAIN queries
  BY DEF ResolverInv, QueryKept
<1>12. \A b \in Deciders : b # c /\ Busy(check[b]) => queries'[QueryOf(check[b])] = queries[QueryOf(check[b])]
  BY <1>3, <1>8, <1>11
<1>13. CASE proof = "none"
  <2>1. check' = [check EXCEPT ![c] = Undecided(k)]
    BY <1>0, <1>13 DEF Fail, k
  <2>2. RowTells(Undecided(k)) /\ ~ Busy(Undecided(k))
    BY <1>1, UndecidedTells
  <2> QED BY <1>8, <1>10, <1>12, <2>1, <2>2, OneCallerSteps
<1>14. CASE proof # "none"
  <2>1. check' = [check EXCEPT ![c] = r]
    BY <1>0, <1>14
  <2>2. RowTells(r)
    BY <1>5, <1>6 DEF RowTells
  <2> QED BY <1>2, <1>3, <1>4, <1>5, <1>7, <1>8, <1>9, <1>10, <1>12, <2>1, <2>2, OneCallerSteps
<1> QED BY <1>13, <1>14

LEMMA CheckerKeeps ==
    ASSUME ResolverInv, NEW c \in Deciders, CheckProof(c)
    PROVE  ResolverInv'
<1> DEFINE k == check[c]
<1>0. k.pc = "checker" /\ UNCHANGED queries
  BY DEF CheckProof
<1>1. k \in ActiveRow /\ UnderWay(k)
  BY <1>0, ActiveCheck
<1>2. CASE queries[QueryOf(k)].proof = "good"
  <2>1. check' = [check EXCEPT ![c] = Answered(k, FALSE)]
    BY <1>2 DEF CheckProof
  <2>2. ~ Joint(Question(k))
    BY <1>0, <1>2 DEF ResolverInv, QueryKept, Busy
  <2> HIDE DEF k
  <2>3. RowTells(Answered(k, FALSE)) /\ ~ Busy(Answered(k, FALSE))
    BY <1>1, <2>2, AnsweredTells
  <2> QED BY <1>0, <2>1, <2>3, IdleAfterStep
<1>3. CASE queries[QueryOf(k)].proof # "good"
  <2>1. Fail(c)
    BY <1>3 DEF CheckProof, Fail
  <2> QED BY <1>0, <2>1, FailKeeps
<1> QED BY <1>2, <1>3

LEMMA ResolverStepKeeps == ResolverInv /\ [ResolverNext]_resolverVars => ResolverInv'
<1> SUFFICES ASSUME ResolverInv, [ResolverNext]_resolverVars PROVE ResolverInv'
  OBVIOUS
<1>1. CASE UNCHANGED <<check, queries>>
  <2>1. check' = check /\ queries' = queries
    BY <1>1
  <2> QED BY <2>1 DEF ResolverInv, QueryKept
<1>2. ASSUME NEW c \in Deciders, NEW q \in CheckRequests, StartCheck(c, q) PROVE ResolverInv'
  BY <1>2, StartKeeps
<1>3. ASSUME NEW c \in Deciders, Reserve(c) PROVE ResolverInv'
  BY <1>3, ReserveKeeps
<1>4. ASSUME NEW c \in Deciders, CheckProof(c) PROVE ResolverInv'
  BY <1>4, CheckerKeeps
<1>5. ASSUME NEW c \in Deciders, NoAnswer(c) PROVE ResolverInv'
  BY <1>5, FailKeeps DEF NoAnswer
<1>6. ASSUME NEW c \in Deciders, NEW values \in Assignments(Cardinality(AllAtoms)), SolverSaysSat(c, values)
      PROVE  ResolverInv'
  BY <1>6, SatKeeps
<1>7. ASSUME NEW c \in Deciders, NEW proof \in {"none", "bad", "good"}, SolverSaysUnsat(c, proof) PROVE ResolverInv'
  BY <1>7, UnsatKeeps
<1>8. CASE UNCHANGED resolverVars
  BY <1>1, <1>8 DEF resolverVars
<1>9. ASSUME NEW a \in Askers,
             \/ \E p \in Problems : AskZ3(a, p)
             \/ \E says \in {"sat", "unsat", "unknown"} : Z3Answers(a, says)
             \/ \E bools \in Assignments(1), ints \in [1..1 -> -1..1] : Z3Models(a, bools, ints)
      PROVE  ResolverInv'
  <2>1. UNCHANGED <<check, queries>>
    BY <1>9 DEF AskZ3, Z3Answers, Z3Models
  <2> QED BY <1>1, <2>1
<1> QED BY <1>2, <1>3, <1>4, <1>5, <1>6, <1>7, <1>8, <1>9 DEF ResolverNext

LEMMA ResolverStarts == ResolverInit => ResolverInv
<1> SUFFICES ASSUME ResolverInit PROVE ResolverInv
  OBVIOUS
<1>1. check = [c \in Deciders |-> check[c]] /\ DOMAIN queries = {} /\ \A c \in Deciders : check[c] = [pc |-> "idle"]
  BY DEF ResolverInit
<1>2. \A c \in Deciders : check[c] \in IdleRow /\ ~ Busy(check[c])
  BY <1>1 DEF IdleRow, Busy
<1> QED BY <1>1, <1>2 DEF ResolverInv, RowTells, QueryKept

LEMMA ResolverInvMeans == ResolverInv => VerdictsHold
<1> SUFFICES ASSUME ResolverInv, NEW c \in Deciders, check[c].pc = "done"
             PROVE  LET k == check[c]
                        live == {m \in Members : Stands[m][k.q.standing]}
                    IN  /\ k.outcome = "compatible" => Joint(k.q.rules \cup live)
                        /\ k.outcome = "conflict" => /\ Joint(k.q.rules)
                                                     /\ k.core \subseteq k.q.rules \cup live
                                                     /\ ~ Joint(k.core)
                        /\ k.outcome = "invalid_rules" => k.core \subseteq k.q.rules /\ ~ Joint(k.core)
                        /\ k.minimal => \A x \in k.core : Joint(k.core \ {x})
  BY DEF VerdictsHold
<1> DEFINE k == check[c]
           live == {m \in Members : Stands[m][k.q.standing]}
<1>1. k \in DoneRow /\ Finished(k)
  <2>1. RowTells(k)
    BY DEF ResolverInv
  <2> QED BY <2>1 DEF RowTells, IdleRow, ActiveRow
<1>2. k.q \in CheckRequests
  BY <1>1 DEF DoneRow
<1>3. AllKnown(k.q) => Asked(k.q) = k.q.rules \cup live
  BY <1>2, RequestKnown, SelectedStand DEF Asked
<1> HIDE DEF k, live
<1>4. /\ k.outcome = "compatible" => Joint(k.q.rules \cup live)
      /\ k.outcome = "conflict" => /\ Joint(k.q.rules)
                                   /\ k.core \subseteq k.q.rules \cup live
                                   /\ ~ Joint(k.core)
      /\ k.outcome = "invalid_rules" => k.core \subseteq k.q.rules /\ ~ Joint(k.core)
      /\ k.minimal => \A x \in k.core : Joint(k.core \ {x})
  BY <1>1, <1>3 DEF Finished, Tells
<1> QED BY <1>4 DEF k, live

\* Whatever the solvers and the proof checker's file hold, and whatever other
\* checks the one runner serves, the verdict of checkConsistency and the core of
\* diagnoseConsistency are true of the members that stand: an assignment is only
\* taken after it was evaluated, a contradiction only after its proof was checked
\* against a file that no other query can have replaced.
THEOREM VerdictsAreTrue == ResolverSpec => []VerdictsHold
<1>1. ResolverSpec => []ResolverInv
  BY ResolverStarts, ResolverStepKeeps, PTL DEF ResolverSpec
<1> QED BY <1>1, ResolverInvMeans, PTL

-----------------------------------------------------------------------------
(* What is built level by level: the runs of a step G from a first value.     *)

Runs(S, base, G, n) ==
    {f \in [0..n -> S] : f[0] = base /\ \A k \in 1..n : f[k] = G[f[k - 1]]}

LEMMA RunsAgree ==
    ASSUME NEW S, NEW base \in S, NEW G \in [S -> S], NEW m \in Nat, NEW n \in Nat, m <= n,
           NEW f \in Runs(S, base, G, m), NEW g \in Runs(S, base, G, n)
    PROVE  \A k \in 0..m : f[k] = g[k]
<1> DEFINE apart == {k \in 0..m : f[k] # g[k]}
<1> SUFFICES ASSUME apart # {} PROVE FALSE
  OBVIOUS
<1>1. PICK k \in apart : \A l \in apart : k <= l
  <2>1. apart \subseteq Nat
    OBVIOUS
  <2> HIDE DEF apart
  <2> QED BY <2>1, LeastOfNats
<1>2. CASE k = 0
  BY <1>1, <1>2 DEF Runs
<1>3. CASE k # 0
  <2>1. k - 1 \in 0..m /\ ~ (k <= k - 1) /\ k \in 1..m /\ k \in 1..n
    BY <1>3
  <2>2. f[k - 1] = g[k - 1]
    BY <1>1, <2>1
  <2>3. f[k] = G[f[k - 1]] /\ g[k] = G[g[k - 1]]
    BY <2>1 DEF Runs
  <2> QED BY <2>2, <2>3
<1> QED BY <1>2, <1>3

LEMMA RunsExist ==
    ASSUME NEW S, NEW base \in S, NEW G \in [S -> S], NEW n \in Nat
    PROVE  Runs(S, base, G, n) # {}
<1> DEFINE none == {m \in Nat : Runs(S, base, G, m) = {}}
<1> SUFFICES ASSUME none # {} PROVE FALSE
  OBVIOUS
<1>1. PICK m \in none : \A l \in none : m <= l
  BY LeastOfNats
<1>2. CASE m = 0
  <2>1. [k \in 0..m |-> base] \in Runs(S, base, G, m)
    BY <1>2 DEF Runs
  <2> QED BY <2>1
<1>3. CASE m # 0
  <2>1. m - 1 \in Nat /\ ~ (m <= m - 1)
    BY <1>3
  <2>2. PICK f : f \in Runs(S, base, G, m - 1)
    BY <1>1, <2>1
  <2>3. /\ f \in [0..(m - 1) -> S] /\ f[0] = base
        /\ \A k \in 1..(m - 1) : f[k] = G[f[k - 1]]
    BY <2>2 DEF Runs
  <2>4. PICK g : g = [k \in 0..m |-> IF k = m THEN G[f[m - 1]] ELSE f[k]]
    OBVIOUS
  <2>5. g \in [0..m -> S] /\ g[0] = base
    BY <1>3, <2>1, <2>3, <2>4
  <2>6. ASSUME NEW k \in 1..m PROVE g[k] = G[g[k - 1]]
    <3>1. k - 1 \in 0..m /\ k - 1 # m /\ g[k - 1] = f[k - 1]
      BY <2>4
    <3>2. CASE k = m
      BY <2>4, <3>1, <3>2
    <3>3. CASE k # m
      <4>1. k \in 1..(m - 1)
        BY <3>3
      <4> QED BY <2>3, <2>4, <3>1, <3>3, <4>1
    <3> QED BY <3>2, <3>3
  <2>7. g \in Runs(S, base, G, m)
    BY <2>5, <2>6 DEF Runs
  <2> QED BY <2>7
<1> QED BY <1>2, <1>3

LEMMA Iterates ==
    ASSUME NEW S, NEW base \in S, NEW G \in [S -> S]
    PROVE  \E f \in [Nat -> S] : f[0] = base /\ \A k \in Nat : k # 0 => f[k] = G[f[k - 1]]
<1> DEFINE run(n) == CHOOSE f : f \in Runs(S, base, G, n)
<1>1. \A n \in Nat : run(n) \in Runs(S, base, G, n)
  BY RunsExist
<1> HIDE DEF run
<1>2. \A n \in Nat : run(n) \in [0..n -> S]
  BY <1>1 DEF Runs
<1>3. PICK f : f = [n \in Nat |-> run(n)[n]]
  OBVIOUS
<1>4. f \in [Nat -> S]
  BY <1>2, <1>3
<1>5. f[0] = base
  BY <1>1, <1>3 DEF Runs
<1>6. ASSUME NEW k \in Nat, k # 0 PROVE f[k] = G[f[k - 1]]
  <2>1. k - 1 \in Nat /\ k - 1 <= k /\ k - 1 \in 0..(k - 1) /\ k \in 1..k
    BY <1>6
  <2>2. run(k)[k] = G[run(k)[k - 1]]
    BY <1>1, <2>1 DEF Runs
  <2>3. run(k - 1)[k - 1] = run(k)[k - 1]
    BY <1>1, <2>1, RunsAgree
  <2> QED BY <1>3, <2>1, <2>2, <2>3
<1> QED BY <1>4, <1>5, <1>6

-----------------------------------------------------------------------------
(* Whole views.                                                               *)

GraphInv ==
    /\ graph \in [nodes : SUBSET ViewNodes, edges : SUBSET ViewEdges, head : Nat]
    /\ IsFiniteSet(graph.nodes) /\ IsFiniteSet(graph.edges)

LEMMA EndsTyped ==
    ASSUME NEW e \in ViewEdges
    PROVE  /\ EndsOf[e].from \in ViewNodes /\ EndsOf[e].to \in ViewNodes
           /\ EndsOf[e].relation \in CanonicalRelations /\ Ends(e) \subseteq ViewNodes
  BY ReadAssumption DEF Ends

LEMMA AddClaimKeepsGraph ==
    ASSUME GraphInv, NEW n \in ViewNodes, AddClaim(n) PROVE GraphInv'
<1> DEFINE added == [nodes |-> graph.nodes \cup {n}, edges |-> graph.edges \cup DerivationEdges(n),
                     head |-> graph.head + 1]
<1>1. graph' = added
  BY DEF AddClaim
<1>2. IsFiniteSet(DerivationEdges(n)) /\ DerivationEdges(n) \subseteq ViewEdges
  BY ReadAssumption DEF DerivationEdges
<1>3. IsFiniteSet(graph.nodes \cup {n}) /\ IsFiniteSet(graph.edges \cup DerivationEdges(n))
  BY <1>2, FS_AddElement, FS_Union DEF GraphInv
<1>4. added \in [nodes : SUBSET ViewNodes, edges : SUBSET ViewEdges, head : Nat]
  BY <1>2 DEF GraphInv
<1> QED BY <1>1, <1>3, <1>4 DEF GraphInv

LEMMA AddRelationKeepsGraph ==
    ASSUME GraphInv, NEW e \in ViewEdges, AddRelation(e) PROVE GraphInv'
<1> DEFINE added == [graph EXCEPT !.edges = @ \cup {e}, !.head = @ + 1]
<1>1. graph' = added
  BY DEF AddRelation
<1>2. /\ added \in [nodes : SUBSET ViewNodes, edges : SUBSET ViewEdges, head : Nat]
      /\ added.nodes = graph.nodes /\ added.edges = graph.edges \cup {e}
  <2>1. PICK edges, head : edges = graph.edges \cup {e} /\ head = graph.head + 1
    OBVIOUS
  <2>2. edges \in SUBSET ViewEdges /\ head \in Nat
    BY <2>1 DEF GraphInv
  <2>3. added = [graph EXCEPT !.edges = edges, !.head = head]
    BY <2>1
  <2> HIDE DEF added
  <2> QED BY <2>1, <2>2, <2>3 DEF GraphInv
<1>3. IsFiniteSet(graph.edges \cup {e})
  BY FS_AddElement DEF GraphInv
<1> QED BY <1>1, <1>2, <1>3 DEF GraphInv

LEMMA GraphStep == GraphInv /\ [ReadNext]_readVars => GraphInv'
<1> SUFFICES ASSUME GraphInv, [ReadNext]_readVars PROVE GraphInv'
  OBVIOUS
<1>1. CASE UNCHANGED graph
  BY <1>1 DEF GraphInv
<1>2. ASSUME GovernanceMoves PROVE GraphInv'
  <2> DEFINE moved == [graph EXCEPT !.head = @ + 1]
  <2>1. graph' = moved
    BY <1>2 DEF GovernanceMoves
  <2>2. /\ moved \in [nodes : SUBSET ViewNodes, edges : SUBSET ViewEdges, head : Nat]
        /\ moved.nodes = graph.nodes /\ moved.edges = graph.edges
    BY DEF GraphInv
  <2> QED BY <2>1, <2>2 DEF GraphInv
<1> QED BY <1>1, <1>2, AddClaimKeepsGraph, AddRelationKeepsGraph
        DEF ReadNext, readVars, OpenView, ReadGraphView, ReadHandle

LEMMA GraphStarts == ReadInit => GraphInv
  BY FS_EmptySet DEF ReadInit, GraphInv

-----------------------------------------------------------------------------
(* The nodes around the roots.                                                *)

Around(input, nodes) ==
    nodes \cup UNION {Ends(e) : e \in Candidates(nodes, input, {})}

LEMMA CandidateSet ==
    ASSUME NEW frontier, NEW input, NEW seen, NEW e
    PROVE  e \in Candidates(frontier, input, seen) <=>
             /\ e \in graph.edges /\ e \notin seen
             /\ EndsOf[e].from \in frontier \/ EndsOf[e].to \in frontier
             /\ input.relations = {} \/ EndsOf[e].relation \in input.relations
  BY DEF Candidates, Ends

BallAfter(f, k) ==
    [input \in ReadInputs |-> IF k = 0 THEN input.roots ELSE Around(input, f[k - 1][input])]

LEMMA BallUnfolds ==
    ASSUME GraphInv
    PROVE  /\ Ball \in [Nat -> [ReadInputs -> SUBSET ViewNodes]]
           /\ \A input \in ReadInputs : Ball[0][input] = input.roots
           /\ \A k \in Nat, input \in ReadInputs : k # 0 => Ball[k][input] = Around(input, Ball[k - 1][input])
<1> DEFINE S == [ReadInputs -> SUBSET ViewNodes]
           base == [input \in ReadInputs |-> input.roots]
           G == [s \in S |-> [input \in ReadInputs |-> Around(input, s[input])]]
           IsBall(f) == f = [k \in Nat |-> BallAfter(f, k)]
<1>1. base \in S
  BY ReadAssumption
<1>2. \A input \in ReadInputs, nodes \in SUBSET ViewNodes : Around(input, nodes) \in SUBSET ViewNodes
  <2>1. \A input, nodes : Candidates(nodes, input, {}) \subseteq ViewEdges
    BY DEF Candidates, GraphInv
  <2> QED BY <2>1, EndsTyped DEF Around
<1>3. G \in [S -> S]
  BY <1>2
<1>4. PICK f \in [Nat -> S] : f[0] = base /\ \A k \in Nat : k # 0 => f[k] = G[f[k - 1]]
  <2> HIDE DEF S, base, G
  <2> QED BY <1>1, <1>3, Iterates
<1>5. \A k \in Nat : k # 0 => f[k - 1] \in S
  OBVIOUS
<1>6. \A k \in Nat : f[k] = BallAfter(f, k)
  BY <1>4, <1>5 DEF BallAfter
<1>7. IsBall(f)
  BY <1>4, <1>6
<1>8. Ball = CHOOSE g : IsBall(g)
  BY DEF Ball, BallAfter, Around
<1>9. IsBall(Ball)
  <2> HIDE DEF IsBall
  <2> QED BY <1>7, <1>8
<1>10. \A k \in Nat : Ball[k] = BallAfter(Ball, k)
  BY <1>9
<1>11. \A input \in ReadInputs : Ball[0][input] = input.roots
  <2>1. Ball[0] = BallAfter(Ball, 0)
    BY ONLY <1>10
  <2> QED BY ONLY <2>1 DEF BallAfter
<1>12. \A k \in Nat, input \in ReadInputs : k # 0 => Ball[k][input] = Around(input, Ball[k - 1][input])
  BY <1>10 DEF BallAfter
<1>13. Ball \in [Nat -> S]
  <2> DEFINE bad == {k \in Nat : Ball[k] \notin S}
  <2>1. DOMAIN Ball = Nat /\ Ball = [k \in Nat |-> Ball[k]]
    BY <1>9
  <2>2. ASSUME bad # {} PROVE FALSE
    <3>1. PICK k \in bad : \A l \in bad : k <= l
      BY <2>2, LeastOfNats
    <3>2. CASE k = 0
      <4>1. Ball[k] = [input \in ReadInputs |-> input.roots]
        BY <1>10, <3>2 DEF BallAfter
      <4> QED BY <1>1, <4>1
    <3>3. CASE k # 0
      <4>1. k - 1 \in Nat /\ ~ (k <= k - 1)
        BY <3>3
      <4>2. Ball[k - 1] \in S
        BY <3>1, <4>1
      <4>3. Ball[k] = [input \in ReadInputs |-> Around(input, Ball[k - 1][input])]
        BY <1>10, <3>3 DEF BallAfter
      <4> QED BY <1>2, <4>2, <4>3
    <3> QED BY <3>2, <3>3
  <2> QED BY <2>1, <2>2
<1> QED BY <1>11, <1>12, <1>13

LEMMA BallGrows ==
    ASSUME GraphInv, NEW input \in ReadInputs, NEW k \in Nat, NEW j \in 0..k
    PROVE  Ball[j][input] \subseteq Ball[k][input]
<1> DEFINE bad == {m \in Nat : \E i \in 0..m : ~ (Ball[i][input] \subseteq Ball[m][input])}
<1> SUFFICES ASSUME bad # {} PROVE FALSE
  OBVIOUS
<1>1. PICK m \in bad : \A l \in bad : m <= l
  BY LeastOfNats
<1>2. PICK i \in 0..m : ~ (Ball[i][input] \subseteq Ball[m][input])
  OBVIOUS
<1>3. m # 0 /\ m - 1 \in Nat /\ i \in 0..(m - 1)
  BY <1>2
<1>4. m - 1 \notin bad
  BY <1>1, <1>3
<1>5. Ball[i][input] \subseteq Ball[m - 1][input]
  BY <1>3, <1>4
<1>6. Ball[m - 1][input] \subseteq Ball[m][input]
  BY <1>3, BallUnfolds DEF Around
<1> QED BY <1>2, <1>5, <1>6

-----------------------------------------------------------------------------
(* What a read loads.                                                         *)

Loads == [selected : SUBSET ViewNodes, edges : SUBSET ViewEdges, next : SUBSET ViewNodes,
          truncated : BOOLEAN, last : BOOLEAN]

LEMMA NeighborTyped ==
    ASSUME NEW t, NEW e \in ViewEdges PROVE Neighbor(t, e) \in ViewNodes
  BY EndsTyped DEF Neighbor

LEMMA FullUpdate ==
    ASSUME NEW t \in Loads
    PROVE  /\ Full(t) \in Loads /\ Full(t).truncated /\ Full(t).last = t.last
           /\ Full(t).edges = t.edges /\ Full(t).selected = t.selected /\ Full(t).next = t.next
  BY DEF Loads, Full

LEMMA CutUpdate ==
    ASSUME NEW t \in Loads
    PROVE  /\ CutShort(t) \in Loads /\ CutShort(t).truncated /\ CutShort(t).last
           /\ CutShort(t).edges = t.edges /\ CutShort(t).selected = t.selected
  BY DEF Loads, CutShort

Neighbors(t, batch) == {Neighbor(t, e) : e \in batch}

\* What is taken of a batch, and that what is left out is told.
LEMMA TakeFields ==
    ASSUME NEW t \in Loads, NEW batch \in SUBSET ViewEdges, NEW input, NEW u, u = Take(t, batch, input)
    PROVE  /\ u \in Loads /\ u.last = t.last
           /\ t.truncated => u.truncated
           /\ u.edges \subseteq t.edges \cup batch /\ u.next \subseteq u.selected
           /\ ~ u.truncated => /\ u.selected = t.selected \cup Neighbors(t, batch)
                               /\ u.next = u.selected \ t.selected
                               /\ u.edges = t.edges \cup batch
<1> DEFINE fitting == {e \in batch : Cardinality(MetBy(t, batch, e)) <= input.nodes}
           selected == t.selected \cup {Neighbor(t, e) : e \in fitting}
           taken == {e \in batch : Neighbor(t, e) \in selected}
           edges == t.edges \cup taken
           next == selected \ t.selected
           after == [t EXCEPT !.edges = edges, !.selected = selected, !.next = next]
<1>1. u = IF taken = batch THEN after ELSE Full(after)
  BY DEF Take
<1>2. selected \in SUBSET ViewNodes /\ edges \in SUBSET ViewEdges /\ next \in SUBSET ViewNodes
  BY NeighborTyped DEF Loads
<1>3. taken = batch => selected = t.selected \cup Neighbors(t, batch) /\ edges = t.edges \cup batch
  BY DEF Neighbors
<1>4. next = selected \ t.selected /\ next \subseteq selected /\ edges \subseteq t.edges \cup batch
  OBVIOUS
<1> HIDE DEF taken, selected, edges, next
<1>5. after = [t EXCEPT !.edges = edges, !.selected = selected, !.next = next]
  OBVIOUS
<1> HIDE DEF after
<1>6. /\ after \in Loads /\ after.edges = edges /\ after.selected = selected /\ after.next = next
      /\ after.truncated = t.truncated /\ after.last = t.last
  BY <1>2, <1>5 DEF Loads
<1>7. Full(after) \in Loads /\ Full(after).truncated /\ Full(after).last = t.last
      /\ Full(after).edges = edges /\ Full(after).selected = selected /\ Full(after).next = next
  BY <1>6, FullUpdate
<1>8. CASE taken # batch
  BY <1>1, <1>4, <1>7, <1>8
<1>9. CASE taken = batch
  BY <1>1, <1>3, <1>4, <1>6, <1>9
<1> QED BY <1>8, <1>9

LEMMA FirstOfAll ==
    ASSUME NEW edges \in SUBSET Nat, IsFiniteSet(edges), NEW limit \in Int, Cardinality(edges) <= limit
    PROVE  FirstOf(edges, limit) = edges
<1>1. ASSUME NEW e \in edges PROVE Cardinality({f \in edges : f <= e}) <= limit
  <2> DEFINE upto == {f \in edges : f <= e}
  <2>1. upto \in SUBSET edges
    OBVIOUS
  <2> HIDE DEF upto
  <2>2. /\ Cardinality(upto) \in Nat /\ Cardinality(edges) \in Nat
        /\ Cardinality(upto) <= Cardinality(edges)
    BY <2>1, FS_Subset, FS_CardinalityType
  <2>3. Cardinality(upto) <= limit
    BY <2>2
  <2> QED BY <2>3 DEF upto
<1> QED BY <1>1 DEF FirstOf

\* A load under way: it has loaded edges there are, and stops early only truncated.
Sound(t) ==
    /\ t \in Loads /\ t.next \subseteq t.selected /\ t.edges \subseteq graph.edges
    /\ t.last => t.truncated

\* The edges the frontier leads to.
Found(t, input) == Candidates(t.next, input, t.edges)

LEMMA LevelFields ==
    ASSUME GraphInv, NEW input \in ReadInputs, NEW t, Sound(t), NEW u, u = Level(t, input)
    PROVE  /\ Sound(u)
           /\ ~ u.truncated => /\ ~ t.truncated
                               /\ u.selected = t.selected \cup UNION {Ends(e) : e \in Found(t, input)}
                               /\ u.next = u.selected \ t.selected
                               /\ u.edges = t.edges \cup Found(t, input)
<1>1. CASE t.last \/ t.next = {}
  <2>1. u = t
    BY <1>1 DEF Level
  <2>2. t.next = {} => Found(t, input) = {}
    BY DEF Found, Candidates
  <2>3. ~ t.truncated => t.next = {}
    BY <1>1 DEF Sound
  <2> QED BY <2>1, <2>2, <2>3
<1>2. CASE ~ (t.last \/ t.next = {})
  <2> DEFINE found == Found(t, input)
             remaining == input.edges - Cardinality(t.edges)
             more == Cardinality(found) > remaining
             s == IF more THEN CutShort(t) ELSE t
             batch == FirstOf(found, remaining)
  <2>1. u = Take(s, batch, input)
    BY <1>2 DEF Level, Found
  <2>2. /\ found \subseteq graph.edges /\ found \in SUBSET Nat /\ found \subseteq ViewEdges
        /\ IsFiniteSet(found)
    <3>1. found \in SUBSET graph.edges
      BY DEF Found, Candidates
    <3> HIDE DEF found
    <3> QED BY <3>1, FS_Subset, ReadAssumption DEF GraphInv
  <2>3. /\ remaining \in Int /\ Cardinality(found) \in Nat
    <3>1. IsFiniteSet(t.edges) /\ Cardinality(t.edges) \in Nat
      BY FS_Subset, FS_CardinalityType DEF Sound, GraphInv
    <3>2. input.edges \in Nat /\ Cardinality(found) \in Nat
      BY <2>2, FS_CardinalityType, ReadAssumption
    <3> QED BY <3>1, <3>2
  <2>4. ~ more => batch = found
    <3> HIDE DEF found, remaining
    <3>1. ~ more => Cardinality(found) <= remaining
      BY <2>3
    <3>2. Cardinality(found) <= remaining => FirstOf(found, remaining) = found
      BY ONLY <2>2, <2>3, FirstOfAll
    <3> QED BY <3>1, <3>2
  <2>5. batch \subseteq found
    BY DEF FirstOf
  <2>6. /\ s \in Loads /\ s.selected = t.selected /\ s.edges = t.edges
        /\ s.last => s.truncated
        /\ ~ s.truncated => ~ t.truncated /\ ~ more
    <3>1. t \in Loads /\ ~ t.last
      BY <1>2 DEF Sound
    <3> HIDE DEF more
    <3>2. CASE more
      BY <3>1, <3>2, CutUpdate
    <3>3. CASE ~ more
      BY <3>1, <3>3
    <3> QED BY <3>2, <3>3
  <2>7. \A e \in found : t.selected \cup {Neighbor(s, e)} = t.selected \cup Ends(e)
    <3>1. ASSUME NEW e \in found PROVE EndsOf[e].from \in t.selected \/ EndsOf[e].to \in t.selected
      BY DEF Found, Candidates, Ends, Sound
    <3> HIDE DEF found, s
    <3> QED BY <2>6, <3>1 DEF Neighbor, Ends
  <2> HIDE DEF found, remaining, more, s, batch
  <2>8. /\ u \in Loads /\ u.last = s.last
        /\ s.truncated => u.truncated
        /\ u.edges \subseteq s.edges \cup batch /\ u.next \subseteq u.selected
        /\ ~ u.truncated => /\ u.selected = s.selected \cup Neighbors(s, batch)
                            /\ u.next = u.selected \ s.selected
                            /\ u.edges = s.edges \cup batch
    BY <2>1, <2>2, <2>5, <2>6, TakeFields
  <2>9. Sound(u)
    BY <2>2, <2>5, <2>6, <2>8 DEF Sound
  <2>10. ASSUME ~ u.truncated
         PROVE  /\ ~ t.truncated
                /\ u.selected = t.selected \cup UNION {Ends(e) : e \in found}
                /\ u.next = u.selected \ t.selected
                /\ u.edges = t.edges \cup found
    <3>1. ~ t.truncated /\ batch = found
      BY <2>4, <2>6, <2>8, <2>10
    <3>2. u.selected = t.selected \cup Neighbors(s, found)
      BY <2>6, <2>8, <2>10, <3>1
    <3>3. u.selected = t.selected \cup UNION {Ends(e) : e \in found}
      BY <2>7, <3>2 DEF Neighbors
    <3> QED BY <2>6, <2>8, <2>10, <3>1, <3>3
  <2> QED BY <2>9, <2>10 DEF found
<1> QED BY <1>1, <1>2

LoadedAfter(f, d) == [input \in ReadInputs |->
    IF d = 0 THEN [selected |-> input.roots, edges |-> {}, next |-> input.roots,
                   truncated |-> FALSE, last |-> FALSE]
             ELSE Level(f[d - 1][input], input)]

SoundLoads == {t \in Loads : Sound(t)}

LEMMA StartSound ==
    ASSUME NEW input \in ReadInputs, NEW t,
           t = [selected |-> input.roots, edges |-> {}, next |-> input.roots,
                truncated |-> FALSE, last |-> FALSE]
    PROVE  t \in SoundLoads
<1>1. input.roots \in SUBSET ViewNodes
  BY ReadAssumption
<1> QED BY <1>1 DEF SoundLoads, Sound, Loads

LEMMA LoadedUnfolds ==
    ASSUME GraphInv
    PROVE  \A d \in Nat : Loaded[d] = LoadedAfter(Loaded, d)
<1> DEFINE S == [ReadInputs -> SoundLoads]
           base == [input \in ReadInputs |->
                      [selected |-> input.roots, edges |-> {}, next |-> input.roots,
                       truncated |-> FALSE, last |-> FALSE]]
           G == [s \in S |-> [input \in ReadInputs |-> Level(s[input], input)]]
           IsLoaded(f) == f = [d \in Nat |-> LoadedAfter(f, d)]
<1>1. base \in S
  BY StartSound
<1>2. G \in [S -> S]
  <2>1. \A input \in ReadInputs, t \in SoundLoads : Level(t, input) \in SoundLoads
    BY LevelFields DEF SoundLoads, Sound
  <2> QED BY <2>1
<1>3. PICK f \in [Nat -> S] : f[0] = base /\ \A d \in Nat : d # 0 => f[d] = G[f[d - 1]]
  <2> HIDE DEF S, base, G
  <2> QED BY <1>1, <1>2, Iterates
<1>4. \A d \in Nat : d # 0 => f[d - 1] \in S
  OBVIOUS
<1>5. ASSUME NEW d \in Nat PROVE f[d] = LoadedAfter(f, d)
  <2>1. CASE d = 0
    <3>1. base = LoadedAfter(f, d)
      BY <2>1 DEF LoadedAfter
    <3> HIDE DEF base
    <3> QED BY <1>3, <2>1, <3>1
  <2>2. CASE d # 0
    <3>1. f[d] = G[f[d - 1]] /\ f[d - 1] \in S
      BY <1>3, <1>4, <2>2
    <3>2. G[f[d - 1]] = [input \in ReadInputs |-> Level(f[d - 1][input], input)]
      <4> HIDE DEF S
      <4> QED BY <3>1
    <3>3. LoadedAfter(f, d) = [input \in ReadInputs |-> Level(f[d - 1][input], input)]
      BY <2>2 DEF LoadedAfter
    <3> QED BY <3>1, <3>2, <3>3
  <2> QED BY <2>1, <2>2
<1>6. IsLoaded(f)
  BY <1>3, <1>5
<1>7. Loaded = CHOOSE g : IsLoaded(g)
  BY DEF Loaded, LoadedAfter
<1>8. IsLoaded(Loaded)
  <2> HIDE DEF IsLoaded
  <2> QED BY <1>6, <1>7
<1> QED BY <1>8

\* After d levels a read that nothing was left out of holds the nodes around its
\* roots and the relations that lead to them, and goes on from the outermost nodes.
WholeLoad(d, input) ==
    LET t == Loaded[d][input]
    IN  /\ Sound(t)
        /\ ~ t.truncated =>
             /\ t.selected = Ball[d][input]
             /\ t.next = t.selected \ (IF d = 0 THEN {} ELSE Ball[d - 1][input])
             /\ t.edges = IF d = 0 THEN {} ELSE Candidates(Ball[d - 1][input], input, {})

LEMMA WholeStart == ASSUME GraphInv, NEW input \in ReadInputs PROVE WholeLoad(0, input)
<1>1. Loaded[0][input] = [selected |-> input.roots, edges |-> {}, next |-> input.roots,
                          truncated |-> FALSE, last |-> FALSE]
  BY LoadedUnfolds DEF LoadedAfter
<1>2. Sound(Loaded[0][input])
  BY <1>1, StartSound DEF SoundLoads
<1>3. Ball[0][input] = input.roots
  BY BallUnfolds
<1> QED BY <1>1, <1>2, <1>3 DEF WholeLoad

\* What was found around the inner nodes and what is found from the outermost ones.
LEMMA CandidatesSplit ==
    ASSUME NEW input, NEW inner, NEW next, NEW edges, edges = Candidates(inner, input, {})
    PROVE  edges \cup Candidates(next, input, edges) = Candidates(inner \cup next, input, {})
  BY CandidateSet

LEMMA WholeStep ==
    ASSUME GraphInv, NEW input \in ReadInputs, NEW d \in Nat, d # 0, WholeLoad(d - 1, input)
    PROVE  WholeLoad(d, input)
<1> DEFINE t == Loaded[d - 1][input]
           u == Loaded[d][input]
           inner == IF d - 1 = 0 THEN {} ELSE Ball[d - 2][input]
           ball == Ball[d - 1][input]
<1>1. Sound(t) /\ u = Level(t, input)
  <2>1. Loaded[d] = LoadedAfter(Loaded, d)
    BY LoadedUnfolds
  <2> QED BY <2>1 DEF WholeLoad, LoadedAfter
<1>2. /\ Sound(u)
      /\ ~ u.truncated => /\ ~ t.truncated
                          /\ u.selected = t.selected \cup UNION {Ends(e) : e \in Found(t, input)}
                          /\ u.next = u.selected \ t.selected
                          /\ u.edges = t.edges \cup Found(t, input)
  <2> HIDE DEF t, u
  <2> QED BY <1>1, LevelFields
<1>3. ASSUME ~ u.truncated
      PROVE  /\ u.selected = Ball[d][input]
             /\ u.next = u.selected \ ball
             /\ u.edges = Candidates(ball, input, {})
  <2>1. d - 1 \in Nat /\ (d - 1 # 0 => d - 1 - 1 \in Nat) /\ d - 1 - 1 = d - 2
    OBVIOUS
  <2>2. /\ t.selected = ball /\ t.next = t.selected \ inner
        /\ t.edges = IF d - 1 = 0 THEN {} ELSE Candidates(Ball[d - 2][input], input, {})
    BY <1>2, <1>3, <2>1 DEF WholeLoad
  <2>3. \A nodes : nodes = {} => Candidates(nodes, input, {}) = {}
    BY DEF Candidates
  <2>4. t.edges = Candidates(inner, input, {})
    BY <2>2, <2>3
  <2>5. inner \subseteq ball
    <3>1. CASE d - 1 = 0
      BY <3>1
    <3>2. CASE d - 1 # 0
      <4>1. d - 2 \in 0..(d - 1)
        BY <2>1, <3>2
      <4> QED BY <2>1, <3>2, <4>1, BallGrows
    <3> QED BY <3>1, <3>2
  <2>6. Ball[d][input] = Around(input, ball)
    BY BallUnfolds
  <2>7. \A e \in t.edges : Ends(e) \subseteq ball
    <3>1. CASE d - 1 = 0
      BY <2>2, <3>1
    <3>2. CASE d - 1 # 0
      <4>1. ball = Around(input, Ball[d - 2][input])
        BY <2>1, <3>2, BallUnfolds
      <4> QED BY <2>2, <3>2, <4>1 DEF Around
    <3> QED BY <3>1, <3>2
  <2> HIDE DEF t, u, inner, ball
  <2>8. u.edges = t.edges \cup Found(t, input) /\ ball = inner \cup t.next
    BY <1>2, <1>3, <2>2, <2>5
  <2>9. u.edges = Candidates(ball, input, {})
    BY <2>4, <2>8, CandidatesSplit DEF Found
  <2>10. u.selected = Around(input, ball)
    BY <1>2, <1>3, <2>2, <2>7, <2>8, <2>9 DEF Around
  <2> QED BY <1>2, <1>3, <2>2, <2>6, <2>9, <2>10
<1> QED BY <1>2, <1>3 DEF WholeLoad

LEMMA WholeLoads ==
    ASSUME GraphInv, NEW input \in ReadInputs, NEW d \in Nat PROVE WholeLoad(d, input)
<1> DEFINE bad == {m \in Nat : ~ WholeLoad(m, input)}
<1> SUFFICES ASSUME bad # {} PROVE FALSE
  OBVIOUS
<1>1. PICK m \in bad : \A l \in bad : m <= l
  BY LeastOfNats
<1>2. m # 0
  BY WholeStart
<1>3. m - 1 \in Nat /\ ~ (m <= m - 1)
  BY <1>2
<1>4. WholeLoad(m - 1, input)
  BY <1>1, <1>3
<1> QED BY <1>2, <1>4, WholeStep

-----------------------------------------------------------------------------
(* Paths.                                                                     *)

ReachAfter(f, k) == [p \in PathScopes |->
    IF k = 0 THEN {p.from} ELSE f[k - 1][p] \cup Successors(p.edges, p.relations, f[k - 1][p])]

LEMMA SuccessorSet ==
    ASSUME NEW edges, NEW relations, NEW nodes, NEW n
    PROVE  n \in Successors(edges, relations, nodes) <=>
             \E e \in edges : /\ EndsOf[e].relation \in relations
                              /\ \/ EndsOf[e].from \in nodes /\ n = EndsOf[e].to
                                 \/ /\ EndsOf[e].relation = "contradicts"
                                    /\ EndsOf[e].to \in nodes /\ n = EndsOf[e].from
  BY DEF Successors

LEMMA ReachUnfolds ==
    /\ \A p \in PathScopes : Reach[0][p] = {p.from}
    /\ \A k \in Nat, p \in PathScopes : k # 0 =>
         Reach[k][p] = Reach[k - 1][p] \cup Successors(p.edges, p.relations, Reach[k - 1][p])
<1> DEFINE S == [PathScopes -> SUBSET ViewNodes]
           base == [p \in PathScopes |-> {p.from}]
           G == [s \in S |-> [p \in PathScopes |-> s[p] \cup Successors(p.edges, p.relations, s[p])]]
           IsReach(f) == f = [k \in Nat |-> ReachAfter(f, k)]
<1>1. base \in S
  BY DEF PathScopes
<1>2. G \in [S -> S]
  <2>1. \A p \in PathScopes, nodes \in SUBSET ViewNodes : Successors(p.edges, p.relations, nodes) \in SUBSET ViewNodes
    <3> SUFFICES ASSUME NEW p \in PathScopes, NEW nodes, NEW n \in Successors(p.edges, p.relations, nodes)
                 PROVE  n \in ViewNodes
      OBVIOUS
    <3>1. p.edges \subseteq ViewEdges
      BY DEF PathScopes
    <3> QED BY <3>1, SuccessorSet, EndsTyped
  <2> QED BY <2>1
<1>3. PICK f \in [Nat -> S] : f[0] = base /\ \A k \in Nat : k # 0 => f[k] = G[f[k - 1]]
  <2> HIDE DEF S, base, G
  <2> QED BY <1>1, <1>2, Iterates
<1>4. \A k \in Nat : k # 0 => f[k - 1] \in S
  OBVIOUS
<1>5. \A k \in Nat : f[k] = ReachAfter(f, k)
  BY <1>3, <1>4 DEF ReachAfter
<1>6. IsReach(f)
  BY <1>3, <1>5
<1>7. Reach = CHOOSE g : IsReach(g)
  BY DEF Reach, ReachAfter
<1>8. IsReach(Reach)
  <2> HIDE DEF IsReach
  <2> QED BY <1>6, <1>7
<1>9. \A k \in Nat : Reach[k] = ReachAfter(Reach, k)
  BY <1>8
<1> HIDE DEF IsReach
<1> QED BY <1>9 DEF ReachAfter

LEMMA ReachGrows ==
    ASSUME NEW p \in PathScopes, NEW k \in Nat, NEW j \in 0..k
    PROVE  Reach[j][p] \subseteq Reach[k][p]
<1> DEFINE bad == {m \in Nat : \E i \in 0..m : ~ (Reach[i][p] \subseteq Reach[m][p])}
<1> SUFFICES ASSUME bad # {} PROVE FALSE
  OBVIOUS
<1>1. PICK m \in bad : \A l \in bad : m <= l
  BY LeastOfNats
<1>2. PICK i \in 0..m : ~ (Reach[i][p] \subseteq Reach[m][p])
  OBVIOUS
<1>3. m # 0 /\ m - 1 \in Nat /\ i \in 0..(m - 1)
  BY <1>2
<1>4. m - 1 \notin bad
  BY <1>1, <1>3
<1>5. Reach[i][p] \subseteq Reach[m - 1][p]
  BY <1>3, <1>4
<1>6. Reach[m - 1][p] \subseteq Reach[m][p]
  <2>1. Reach[m][p] = Reach[m - 1][p] \cup Successors(p.edges, p.relations, Reach[m - 1][p])
    <3>1. m \in Nat /\ m # 0
      BY <1>3
    <3> HIDE DEF bad
    <3> QED BY <3>1, ReachUnfolds
  <2> QED BY <2>1
<1> QED BY <1>2, <1>5, <1>6

\* A layer that adds nothing is the last one.
LEMMA ReachStops ==
    ASSUME NEW p \in PathScopes, NEW j \in Nat, Reach[j + 1][p] = Reach[j][p], NEW k \in Nat, j <= k
    PROVE  Reach[k][p] = Reach[j][p]
<1> DEFINE bad == {m \in Nat : j <= m /\ Reach[m][p] # Reach[j][p]}
<1> SUFFICES ASSUME bad # {} PROVE FALSE
  OBVIOUS
<1>1. PICK m \in bad : \A l \in bad : m <= l
  BY LeastOfNats
<1>2. m - 1 \in Nat /\ m # 0 /\ j <= m - 1 /\ ~ (m <= m - 1)
  OBVIOUS
<1>3. Reach[m - 1][p] = Reach[j][p]
  BY <1>1, <1>2
<1>4. Reach[m][p] = Reach[m - 1][p] \cup Successors(p.edges, p.relations, Reach[m - 1][p])
  BY <1>2, ReachUnfolds
<1>5. Reach[j + 1][p] = Reach[j][p] \cup Successors(p.edges, p.relations, Reach[j][p])
  <2>1. j + 1 \in Nat /\ j + 1 # 0 /\ (j + 1) - 1 = j
    OBVIOUS
  <2> QED BY <2>1, ReachUnfolds
<1> QED BY <1>3, <1>4, <1>5

\* A node met for the first time after k steps is one of more than k.
LEMMA ReachCounts ==
    ASSUME NEW p \in PathScopes, NEW k \in Nat, NEW n, n \in Reach[k][p], IsFiniteSet(Reach[k][p]),
           \A j \in Nat : j < k => n \notin Reach[j][p]
    PROVE  k < Cardinality(Reach[k][p])
<1> DEFINE bad == {m \in Nat : m <= k /\ ~ (m < Cardinality(Reach[m][p]))}
<1> SUFFICES ASSUME bad # {} PROVE FALSE
  <2>1. k \notin bad
    OBVIOUS
  <2> QED BY <2>1
<1>1. PICK m \in bad : \A l \in bad : m <= l
  BY LeastOfNats
<1>2. \A j \in Nat : j <= k => IsFiniteSet(Reach[j][p]) /\ Cardinality(Reach[j][p]) \in Nat
  <2>1. ASSUME NEW j \in Nat, j <= k PROVE Reach[j][p] \in SUBSET Reach[k][p]
    BY <2>1, ReachGrows
  <2> QED BY <2>1, FS_Subset, FS_CardinalityType
<1>3. CASE m = 0
  <2>1. Reach[m][p] = {p.from}
    BY <1>3, ReachUnfolds
  <2>2. Cardinality({p.from}) = 1
    BY FS_Singleton
  <2>3. ~ (0 < Cardinality(Reach[m][p]))
    BY <1>1, <1>3
  <2> QED BY <2>1, <2>2, <2>3
<1>4. CASE m # 0
  <2>1. m - 1 \in Nat /\ m - 1 <= k /\ ~ (m <= m - 1) /\ m \in Nat /\ m <= k
    BY <1>4
  <2>2. m - 1 < Cardinality(Reach[m - 1][p])
    BY <1>1, <2>1
  <2>3. Reach[m - 1][p] \in SUBSET Reach[m][p]
    BY <2>1, ReachGrows
  <2>4. Reach[m - 1][p] # Reach[m][p]
    <3> SUFFICES ASSUME Reach[m - 1][p] = Reach[m][p] PROVE FALSE
      OBVIOUS
    <3>1. Reach[(m - 1) + 1][p] = Reach[m - 1][p] /\ m - 1 < k
      BY <2>1
    <3>2. Reach[k][p] = Reach[m - 1][p]
      BY <2>1, <3>1, ReachStops
    <3> QED BY <2>1, <3>1, <3>2
  <2>5. /\ Cardinality(Reach[m - 1][p]) <= Cardinality(Reach[m][p])
        /\ Cardinality(Reach[m - 1][p]) # Cardinality(Reach[m][p])
    BY <1>2, <2>1, <2>3, <2>4, FS_Subset
  <2>6. Cardinality(Reach[m - 1][p]) \in Nat /\ Cardinality(Reach[m][p]) \in Nat
    BY <1>2, <2>1
  <2> QED BY <1>1, <2>1, <2>2, <2>5, <2>6
<1> QED BY <1>3, <1>4

Within(edges, relations, from) == [edges |-> edges, relations |-> relations, from |-> from]

LEMMA MoreEdgesReachMore ==
    ASSUME NEW p \in PathScopes, NEW q \in PathScopes, p.edges \subseteq q.edges,
           p.relations = q.relations, p.from = q.from, NEW k \in Nat
    PROVE  Reach[k][p] \subseteq Reach[k][q]
<1> DEFINE bad == {m \in Nat : ~ (Reach[m][p] \subseteq Reach[m][q])}
<1> SUFFICES ASSUME bad # {} PROVE FALSE
  OBVIOUS
<1>1. PICK m \in bad : \A l \in bad : m <= l
  BY LeastOfNats
<1>2. m # 0
  BY <1>1, ReachUnfolds
<1>3. m - 1 \in Nat /\ ~ (m <= m - 1) /\ m \in Nat
  BY <1>2
<1>4. Reach[m - 1][p] \subseteq Reach[m - 1][q]
  BY <1>1, <1>3
<1>5. /\ Reach[m][p] = Reach[m - 1][p] \cup Successors(p.edges, p.relations, Reach[m - 1][p])
      /\ Reach[m][q] = Reach[m - 1][q] \cup Successors(q.edges, q.relations, Reach[m - 1][q])
  BY <1>2, <1>3, ReachUnfolds
<1>6. Successors(p.edges, p.relations, Reach[m - 1][p]) \subseteq Successors(q.edges, q.relations, Reach[m - 1][q])
  <2> SUFFICES ASSUME NEW n \in Successors(p.edges, p.relations, Reach[m - 1][p])
               PROVE  n \in Successors(q.edges, q.relations, Reach[m - 1][q])
    OBVIOUS
  <2> HIDE DEF bad
  <2> QED BY <1>4, SuccessorSet
<1>7. ~ (Reach[m][p] \subseteq Reach[m][q])
  OBVIOUS
<1> QED BY <1>4, <1>5, <1>6, <1>7

\* Within the depth of a whole view, its paths are those of the graph.
LEMMA ViewReaches ==
    ASSUME GraphInv, NEW input \in ReadInputs, input.relations = {}, NEW p \in PathScopes, NEW q \in PathScopes,
           p.edges \subseteq graph.edges, q.edges = graph.edges,
           input.depth > 0 => p.edges = Candidates(Ball[input.depth - 1][input], input, {}),
           p.relations = q.relations, p.from = q.from, p.from \in input.roots,
           NEW k \in 0..input.depth
    PROVE  Reach[k][p] = Reach[k][q] /\ Reach[k][q] \subseteq Ball[k][input]
<1> DEFINE bad == {m \in 0..input.depth : ~ (Reach[m][p] = Reach[m][q] /\ Reach[m][q] \subseteq Ball[m][input])}
<1> SUFFICES ASSUME bad # {} PROVE FALSE
  OBVIOUS
<1>1. input.depth \in Nat
  BY ReadAssumption
<1>2. PICK m \in bad : \A l \in bad : m <= l
  <2>1. bad \subseteq Nat
    BY <1>1
  <2> HIDE DEF bad
  <2> QED BY <2>1, LeastOfNats
<1>3. m # 0
  <2>1. Reach[0][p] = {p.from} /\ Reach[0][q] = {q.from}
    BY ReachUnfolds
  <2>2. Ball[0][input] = input.roots
    BY BallUnfolds
  <2> QED BY <1>2, <2>1, <2>2
<1>4. m \in Nat /\ m - 1 \in Nat /\ m - 1 \in 0..input.depth /\ ~ (m <= m - 1) /\ m - 1 \in 0..(input.depth - 1)
      /\ input.depth > 0 /\ input.depth - 1 \in Nat
  BY <1>1, <1>3
<1>5. Reach[m - 1][p] = Reach[m - 1][q] /\ Reach[m - 1][q] \subseteq Ball[m - 1][input]
  BY <1>2, <1>4
<1>6. /\ Reach[m][p] = Reach[m - 1][p] \cup Successors(p.edges, p.relations, Reach[m - 1][p])
      /\ Reach[m][q] = Reach[m - 1][q] \cup Successors(q.edges, q.relations, Reach[m - 1][q])
      /\ Ball[m][input] = Around(input, Ball[m - 1][input])
  BY <1>3, <1>4, ReachUnfolds, BallUnfolds
<1>7. Ball[m - 1][input] \subseteq Ball[input.depth - 1][input]
  BY <1>4, BallGrows
<1> HIDE DEF bad
<1>8. ASSUME NEW e \in graph.edges, Ends(e) \cap Reach[m - 1][q] # {}
      PROVE  e \in p.edges /\ e \in Candidates(Ball[m - 1][input], input, {})
  BY <1>4, <1>5, <1>7, <1>8 DEF Candidates
<1>9. \A n : n \in Successors(p.edges, p.relations, Reach[m - 1][p])
               <=> n \in Successors(q.edges, q.relations, Reach[m - 1][q])
  BY <1>5, <1>8, SuccessorSet DEF Ends
<1>10. ASSUME NEW n, n \in Successors(q.edges, q.relations, Reach[m - 1][q]) PROVE n \in Ball[m][input]
  <2>1. PICK e \in graph.edges : Ends(e) \cap Reach[m - 1][q] # {} /\ n \in Ends(e)
    BY <1>10, SuccessorSet DEF Ends
  <2> QED BY <1>6, <1>8, <2>1 DEF Around
<1>11. Ball[m - 1][input] \subseteq Ball[m][input]
  BY <1>6 DEF Around
<1>12. Reach[m][p] = Reach[m][q] /\ Reach[m][q] \subseteq Ball[m][input]
  BY <1>5, <1>6, <1>9, <1>10, <1>11
<1> QED BY <1>12 DEF bad

Lengths(a, relations, from, to) ==
    {k \in 0..Cardinality(a.nodes) : to \in Reach[k][Within(a.edges, relations, from)]}

LEMMA FindPathLeast ==
    ASSUME NEW a, NEW relations, NEW from, NEW to, NEW k
    PROVE  k \in FindPath(a, relations, from, to) <=>
             /\ k \in Lengths(a, relations, from, to)
             /\ \A l \in Lengths(a, relations, from, to) : k <= l
  BY DEF FindPath, Lengths, Within

LEMMA ShortestKept ==
    ASSUME GraphInv, NEW input \in ReadInputs, input.relations = {}, NEW a,
           a.edges \subseteq graph.edges, a.nodes \subseteq graph.nodes,
           a.nodes = Ball[input.depth][input],
           input.depth > 0 => a.edges = Candidates(Ball[input.depth - 1][input], input, {}),
           NEW relations \in PathRelations, NEW root \in input.roots, NEW n,
           FindPath(graph, relations, root, n) \subseteq 0..input.depth
    PROVE  FindPath(a, relations, root, n) = FindPath(graph, relations, root, n)
<1> DEFINE p == Within(a.edges, relations, root)
           q == Within(graph.edges, relations, root)
           inView == Lengths(a, relations, root, n)
           inGraph == Lengths(graph, relations, root, n)
<1>1. /\ IsFiniteSet(a.nodes) /\ Cardinality(a.nodes) \in Nat /\ Cardinality(graph.nodes) \in Nat
      /\ Cardinality(a.nodes) <= Cardinality(graph.nodes) /\ input.depth \in Nat
  BY FS_Subset, FS_CardinalityType, ReadAssumption DEF GraphInv
<1>2. /\ p \in PathScopes /\ q \in PathScopes /\ p.edges = a.edges /\ q.edges = graph.edges
      /\ p.relations = q.relations /\ p.from = root /\ q.from = root
  <2>1. root \in ViewNodes /\ a.edges \in SUBSET ViewEdges /\ graph.edges \in SUBSET ViewEdges
    BY ReadAssumption DEF GraphInv
  <2> QED BY <2>1 DEF Within, PathScopes
<1>3. /\ \A k : k \in inView <=> k \in 0..Cardinality(a.nodes) /\ n \in Reach[k][p]
      /\ \A k : k \in inGraph <=> k \in 0..Cardinality(graph.nodes) /\ n \in Reach[k][q]
  BY DEF Lengths
<1>4. /\ inView \subseteq Nat /\ inGraph \subseteq Nat
  BY <1>1, <1>3
<1> HIDE DEF p, q, inView, inGraph
<1>5. \A k \in Nat : Reach[k][p] \subseteq Reach[k][q]
  BY <1>2, MoreEdgesReachMore
<1>6. inView \subseteq inGraph
  BY <1>1, <1>3, <1>4, <1>5
<1>7. CASE inGraph = {}
  <2>1. \A k : k \notin FindPath(a, relations, root, n) /\ k \notin FindPath(graph, relations, root, n)
    BY <1>6, <1>7, FindPathLeast DEF inView, inGraph
  <2> QED BY <2>1
<1>8. CASE inGraph # {}
  <2>1. PICK m \in inGraph : \A l \in inGraph : m <= l
    BY <1>4, <1>8, LeastOfNats
  <2>2. m \in FindPath(graph, relations, root, n) /\ m \in Nat
    BY <1>4, <2>1, FindPathLeast DEF inGraph
  <2>3. m \in 0..input.depth
    BY <2>2
  <2>4. Reach[m][p] = Reach[m][q] /\ Reach[m][q] \subseteq Ball[m][input]
    BY <1>2, <2>3, ViewReaches
  <2>5. Reach[m][p] \in SUBSET a.nodes /\ n \in Reach[m][p]
    BY <1>1, <1>3, <2>1, <2>3, <2>4, BallGrows
  <2>6. IsFiniteSet(Reach[m][p]) /\ Cardinality(Reach[m][p]) <= Cardinality(a.nodes)
        /\ Cardinality(Reach[m][p]) \in Nat
    BY <1>1, <2>5, FS_Subset, FS_CardinalityType
  <2>7. ASSUME NEW j \in Nat, j < m PROVE n \notin Reach[j][p]
    <3>1. j \in 0..Cardinality(graph.nodes)
      BY <1>1, <1>3, <2>1, <2>7
    <3>2. j \notin inGraph
      BY <2>1, <2>2, <2>7
    <3> QED BY <1>3, <1>5, <3>1, <3>2
  <2>8. m < Cardinality(Reach[m][p])
    BY <1>2, <2>2, <2>5, <2>6, <2>7, ReachCounts
  <2>9. m \in inView
    BY <1>1, <1>3, <2>2, <2>5, <2>6, <2>8
  <2>10. ASSUME NEW k, k \in FindPath(a, relations, root, n) PROVE k = m
    <3>1. k \in inView /\ k <= m
      BY <2>9, <2>10, FindPathLeast DEF inView
    <3>2. k \in Nat /\ m <= k
      BY <1>4, <1>6, <2>1, <3>1
    <3> QED BY <2>2, <3>1, <3>2
  <2>11. ASSUME NEW k, k \in FindPath(graph, relations, root, n) PROVE k = m
    <3>1. k \in inGraph /\ k <= m
      BY <2>1, <2>11, FindPathLeast DEF inGraph
    <3> QED BY <1>4, <2>1, <2>2, <3>1
  <2>12. m \in FindPath(a, relations, root, n)
    BY <1>6, <2>1, <2>9, FindPathLeast DEF inView
  <2> QED BY <2>2, <2>10, <2>11, <2>12
<1> QED BY <1>7, <1>8

LEMMA ReadIsWhole ==
    ASSUME GraphInv, NEW o \in Readers, NEW input \in ReadInputs, ReadGraphView(o, input),
           NEW v, v = View(o, input), ~ v.truncated
    PROVE  Whole(v)
<1> DEFINE t == Traversal(input)
           a == [nodes |-> t.selected, edges |-> t.edges]
<1>1. v.input = input /\ v.artifact = a /\ v.truncated = t.truncated
  BY DEF View
<1>2. input.depth \in Nat
  BY ReadAssumption
<1>3. /\ ~ t.truncated /\ t.edges \subseteq graph.edges
      /\ t.selected = Ball[input.depth][input]
      /\ input.depth > 0 => t.edges = Candidates(Ball[input.depth - 1][input], input, {})
  <2>1. WholeLoad(input.depth, input)
    BY <1>2, WholeLoads
  <2> QED BY <1>1, <1>2, <2>1 DEF WholeLoad, Traversal, Sound
<1>4. t.selected \subseteq graph.nodes
  BY DEF ReadGraphView, Assembles
<1>5. /\ a.nodes = Ball[input.depth][input] /\ a.nodes \subseteq graph.nodes /\ a.edges \subseteq graph.edges
      /\ input.depth > 0 => a.edges = Candidates(Ball[input.depth - 1][input], input, {})
  BY <1>3, <1>4
<1> HIDE DEF a
<1>6. ASSUME input.relations = {}, NEW relations \in PathRelations, NEW root \in input.roots, NEW n \in a.nodes,
             FindPath(graph, relations, root, n) \subseteq 0..input.depth
      PROVE  FindPath(a, relations, root, n) = FindPath(graph, relations, root, n)
  BY <1>5, <1>6, ShortestKept
<1> QED BY <1>1, <1>5, <1>6 DEF Whole

\* Loads by levels under the two budgets lose nothing in silence: a view that does
\* not say it was truncated has every node and relation of its scope, and answers
\* for every shortest path the graph has within its depth
\* (loadCanonicalReadArtifact, FindPath).
THEOREM UntruncatedViewsAreComplete == ViewSpec => UntruncatedViewComplete
<1>1. ASSUME ViewInv, GraphInv, ReadNext, NEW o \in Readers, loading[o] = NoView, loading'[o] # NoView
      PROVE  \E input \in ReadInputs : ReadGraphView(o, input) /\ loading'[o] = View(o, input)
  <2>1. ~ UNCHANGED loading
    BY <1>1
  <2>2. ASSUME NEW r \in Readers, OpenView(r) PROVE FALSE
    <3>1. loading' = [loading EXCEPT ![r] = NoView]
      BY <2>2 DEF OpenView
    <3> QED BY <1>1, <3>1 DEF ViewInv
  <2>3. PICK r \in Readers, input \in ReadInputs : ReadGraphView(r, input)
    BY <1>1, <2>1, <2>2 DEF ReadNext, AddClaim, AddRelation, GovernanceMoves, ReadHandle
  <2>4. loading' = [loading EXCEPT ![r] = View(r, input)]
    BY <2>3 DEF ReadGraphView
  <2>5. r = o /\ loading'[o] = View(o, input)
    BY <1>1, <2>4 DEF ViewInv
  <2> QED BY <2>3, <2>5
<1>2. ViewInv /\ GraphInv /\ [ReadNext]_readVars =>
        [\A o \in Readers :
           loading[o] = NoView /\ loading'[o] # NoView /\ ~ loading'[o].truncated => Whole(loading'[o])]_readVars
  BY <1>1, ReadIsWhole
<1> QED BY <1>2, ViewStarts, ViewStep, GraphStarts, GraphStep, PTL DEF ViewSpec, UntruncatedViewComplete

-----------------------------------------------------------------------------
(* The walk of a derivation.                                                  *)

IsLayers(f) ==
    /\ f \in [DOMAIN derivations -> Nat]
    /\ \A n \in DOMAIN derivations : f[n] = Height(n, f)

\* Claims rest on claims admitted before them: some measure goes up from parent to
\* claim.
Grounded ==
    /\ DOMAIN derivations \subseteq SpecNodes /\ IsFiniteSet(DOMAIN derivations)
    /\ \A n \in DOMAIN derivations : derivations[n] \subseteq DOMAIN derivations
    /\ \E f : IsLayers(f)

WalkRow ==
    [ok : BOOLEAN, headers : SUBSET DOMAIN derivations,
     heights : UNION {[S -> Nat] : S \in SUBSET DOMAIN derivations},
     path : Seq(DOMAIN derivations), followed : SUBSET ((DOMAIN derivations) \X (DOMAIN derivations))]

\* Every node read is on the path or has been left.
HeadersSplit(w) ==
    /\ w.headers = Range(w.path) \cup DOMAIN w.heights
    /\ Range(w.path) \cap DOMAIN w.heights = {}

\* The path leads from the root from claim to parent, and meets nothing twice.
PathLeads(w, root) ==
    /\ root \in w.headers /\ (w.path # << >> => w.path[1] = root)
    /\ \A i \in 1..Len(w.path) - 1 : w.path[i + 1] \in derivations[w.path[i]]
    /\ \A i, j \in 1..Len(w.path) : w.path[i] = w.path[j] => i = j

\* What has been left has been left with all it rests on.
LeftWhole(w) ==
    \A m \in DOMAIN w.heights : derivations[m] \subseteq DOMAIN w.heights /\ w.heights[m] = Layers[m]

\* An edge that was followed led to the next node of the path, or to one that has
\* been left and whose layers fit.
FollowedFit(w) ==
    /\ w.followed \subseteq EdgesAmong(w.headers)
    /\ \A i \in 1..Len(w.path) : \A q \in derivations[w.path[i]] :
         <<w.path[i], q>> \in w.followed =>
            \/ q \in DOMAIN w.heights /\ i + Layers[q] <= MaxLayers
            \/ i < Len(w.path) /\ q = w.path[i + 1]

\* The budgets are kept.
BudgetsKept(w, root) ==
    /\ Cardinality(w.headers) <= MaxClosure
    /\ Cardinality(EdgesAmong(w.headers)) <= MaxClosureEdges
    /\ \A m \in w.headers : Cardinality(derivations[m]) <= MaxAndParents
    /\ \A i \in 1..Len(w.path) : i <= MaxLayers + 1 /\ (~ SourceClaim(w.path[i]) => i <= MaxLayers)
    /\ root \in DOMAIN w.heights => Layers[root] <= MaxLayers
    /\ ~ SourceClaim(root)

\* All of it below the root, and no deeper than the root is.
BelowRoot(w, root) ==
    /\ w.headers \subseteq Ancestors(root)
    /\ \A i \in 1..Len(w.path) : i - 1 + Layers[w.path[i]] <= Layers[root]

WalkInv(w, root) ==
    /\ w \in WalkRow
    /\ HeadersSplit(w) /\ PathLeads(w, root) /\ LeftWhole(w) /\ FollowedFit(w)
    /\ BudgetsKept(w, root) /\ BelowRoot(w, root)

\* The walk has gone on, or has come to its end after so many steps.
StepsCounted(k, w) ==
    w.path # << >> => k = Cardinality(w.followed) + Cardinality(DOMAIN w.heights)

LEMMA LargestIs ==
    ASSUME NEW S \in SUBSET Nat, IsFiniteSet(S), S # {}
    PROVE  Max(S) \in S /\ \A x \in S : x <= Max(S)
<1> DEFINE HasLargest(T) == \E m \in T : \A x \in T : m >= x
           bad == {k \in Nat : \E T \in SUBSET Nat : /\ IsFiniteSet(T) /\ T # {}
                                                     /\ Cardinality(T) = k /\ ~ HasLargest(T)}
<1>1. ASSUME bad # {} PROVE FALSE
  <2>1. PICK k \in bad : \A l \in bad : k <= l
    BY <1>1, LeastOfNats
  <2>2. PICK T \in SUBSET Nat : IsFiniteSet(T) /\ T # {} /\ Cardinality(T) = k /\ ~ HasLargest(T)
    OBVIOUS
  <2>3. PICK x \in T : TRUE
    BY <2>2
  <2>4. IsFiniteSet(T \ {x}) /\ Cardinality(T \ {x}) = k - 1 /\ T \ {x} \in SUBSET Nat
    BY <2>2, <2>3, FS_RemoveElement
  <2>5. Cardinality(T \ {x}) \in Nat
    BY <2>4, FS_CardinalityType
  <2>6. ~ (k <= k - 1)
    OBVIOUS
  <2>7. k - 1 \notin bad
    BY <2>1, <2>6
  <2>8. T \ {x} = {} \/ HasLargest(T \ {x})
    BY <2>4, <2>5, <2>7
  <2>9. CASE T \ {x} = {}
    <3>1. T = {x} /\ x \in Nat
      BY <2>3, <2>9
    <3>2. x >= x
      BY <3>1
    <3> QED BY <2>2, <3>1, <3>2
  <2>10. CASE HasLargest(T \ {x})
    <3>1. PICK m \in T \ {x} : \A y \in T \ {x} : m >= y
      BY <2>10
    <3>2. \A y \in T : (m >= x => m >= y) /\ (x >= m => x >= y)
      BY <2>3, <3>1
    <3>3. m >= x \/ x >= m
      BY <2>3, <3>1
    <3> QED BY <2>2, <2>3, <3>1, <3>2, <3>3
  <2> QED BY <2>8, <2>9, <2>10
<1>2. Cardinality(S) \in Nat
  BY FS_CardinalityType
<1>3. HasLargest(S)
  BY <1>1, <1>2
<1>4. Max(S) \in S /\ \A x \in S : Max(S) >= x
  BY <1>3 DEF Max
<1>5. \A x \in S : Max(S) >= x => x <= Max(S)
  BY <1>4
<1> QED BY <1>4, <1>5

LEMMA SmallestIs ==
    ASSUME NEW S \in SUBSET Nat, S # {}
    PROVE  Min(S) \in S
<1>1. \E x \in S : \A y \in S : x <= y
  BY LeastOfNats
<1> QED BY <1>1 DEF Min

\* The height of a claim is above that of its parents, and no more than it must.
LEMMA HeightIs ==
    ASSUME Grounded, NEW n \in DOMAIN derivations, NEW S, derivations[n] \subseteq S, NEW f \in [S -> Nat]
    PROVE  /\ Height(n, f) \in Nat
           /\ SourceClaim(n) => Height(n, f) = 0
           /\ \A p \in derivations[n] : f[p] < Height(n, f)
           /\ ~ SourceClaim(n) => \E p \in derivations[n] : Height(n, f) = f[p] + 1
<1> DEFINE heights == {f[p] : p \in derivations[n]}
<1>1. CASE SourceClaim(n)
  BY <1>1 DEF Height, SourceClaim
<1>2. CASE ~ SourceClaim(n)
  <2>1. heights \in SUBSET Nat /\ heights # {}
    BY <1>2 DEF SourceClaim
  <2>2. IsFiniteSet(derivations[n])
    BY FS_Subset DEF Grounded
  <2>3. IsFiniteSet(heights)
    <3> DEFINE g == [p \in derivations[n] |-> f[p]]
    <3>1. g \in Surjection(derivations[n], heights)
      BY DEF Surjection
    <3> QED BY <2>2, <3>1, FS_Surjection
  <2>4. Max(heights) \in heights /\ \A x \in heights : x <= Max(heights)
    <3> HIDE DEF heights
    <3> QED BY <2>1, <2>3, LargestIs
  <2>5. Height(n, f) = 1 + Max(heights)
    BY <1>2 DEF Height
  <2>6. PICK p \in derivations[n] : Max(heights) = f[p]
    BY <2>4
  <2>7. Max(heights) \in Nat
    BY <2>1, <2>4
  <2>8. \A q \in derivations[n] : f[q] \in Nat /\ f[q] <= Max(heights)
    BY <2>4
  <2> HIDE DEF heights
  <2>9. \A q \in derivations[n] : f[q] < Height(n, f)
    BY <2>5, <2>7, <2>8
  <2> QED BY <1>2, <2>5, <2>6, <2>7, <2>9
<1> QED BY <1>1, <1>2

LEMMA SameHeight ==
    ASSUME NEW n, NEW f, NEW g, \A p \in derivations[n] : f[p] = g[p]
    PROVE  Height(n, f) = Height(n, g)
<1>1. {f[p] : p \in derivations[n]} = {g[p] : p \in derivations[n]}
  OBVIOUS
<1> QED BY <1>1 DEF Height

\* There is one way only to count layers.
LayersAreUnique == IsLayers(Layers) /\ \A f : IsLayers(f) => Layers = f

LEMMA LayersUnique == Grounded => LayersAreUnique
<1> SUFFICES ASSUME Grounded PROVE LayersAreUnique
  OBVIOUS
<1> DEFINE IsFixed(g) == g = [n \in DOMAIN derivations |-> Height(n, g)]
<1>1. ASSUME NEW f, IsLayers(f), NEW g, IsFixed(g) PROVE g = f
  <2> DEFINE bad == {n \in DOMAIN derivations : g[n] # f[n]}
             low == {f[n] : n \in bad}
  <2>0. f \in [DOMAIN derivations -> Nat] /\ \A n \in DOMAIN derivations : f[n] = Height(n, f)
    BY <1>1 DEF IsLayers
  <2>1. \A n \in DOMAIN derivations : g[n] = Height(n, g)
    BY <1>1
  <2>2. ASSUME bad # {} PROVE FALSE
    <3>1. low \subseteq Nat /\ low # {}
      BY <2>0, <2>2
    <3>2. PICK l \in low : \A x \in low : l <= x
      BY <3>1, LeastOfNats
    <3>3. PICK n \in bad : l = f[n]
      BY <3>2
    <3>4. \A p \in derivations[n] : f[p] < f[n] /\ p \in DOMAIN derivations
      BY <2>0, HeightIs DEF Grounded
    <3>5. \A p \in derivations[n] : ~ (f[n] <= f[p])
      BY <2>0, <3>4
    <3>6. \A p \in derivations[n] : p \notin bad
      BY <3>2, <3>3, <3>5
    <3>7. \A p \in derivations[n] : g[p] = f[p]
      BY <3>4, <3>6
    <3>8. Height(n, g) = Height(n, f)
      BY <3>7, SameHeight
    <3> QED BY <2>0, <2>1, <3>3, <3>8
  <2>3. \A n \in DOMAIN derivations : g[n] = f[n]
    BY <2>2
  <2>4. g = [n \in DOMAIN derivations |-> g[n]]
    BY <1>1, <2>1
  <2> QED BY <2>0, <2>3, <2>4
<1>2. PICK f : IsLayers(f)
  BY DEF Grounded
<1>3. IsFixed(f)
  BY <1>2 DEF IsLayers
<1>4. Layers = CHOOSE g : IsFixed(g)
  BY DEF Layers
<1>5. IsFixed(Layers)
  <2> HIDE DEF IsFixed
  <2> QED BY <1>3, <1>4
<1> HIDE DEF IsFixed
<1>6. \A g : IsLayers(g) => Layers = g
  BY <1>1, <1>5
<1> QED BY <1>2, <1>6 DEF LayersAreUnique

\* A claim has more layers than each of its parents, and only one more than some.
LEMMA LayersGo ==
    ASSUME Grounded
    PROVE  /\ Layers \in [DOMAIN derivations -> Nat]
           /\ \A n \in DOMAIN derivations :
                /\ Layers[n] = Height(n, Layers)
                /\ SourceClaim(n) => Layers[n] = 0
                /\ ~ SourceClaim(n) => Layers[n] > 0
                /\ \A p \in derivations[n] : Layers[p] < Layers[n]
                /\ ~ SourceClaim(n) => \E p \in derivations[n] : Layers[n] = Layers[p] + 1
<1>1. /\ Layers \in [DOMAIN derivations -> Nat]
      /\ \A n \in DOMAIN derivations : Layers[n] = Height(n, Layers)
  BY LayersUnique DEF LayersAreUnique, IsLayers
<1> SUFFICES ASSUME NEW n \in DOMAIN derivations
             PROVE /\ SourceClaim(n) => Layers[n] = 0
                   /\ ~ SourceClaim(n) => Layers[n] > 0
                   /\ \A p \in derivations[n] : Layers[p] < Layers[n]
                   /\ ~ SourceClaim(n) => \E p \in derivations[n] : Layers[n] = Layers[p] + 1
  BY <1>1
<1>2. derivations[n] \subseteq DOMAIN derivations
  BY DEF Grounded
<1>3. /\ SourceClaim(n) => Layers[n] = 0
      /\ \A p \in derivations[n] : Layers[p] < Layers[n]
      /\ ~ SourceClaim(n) => \E p \in derivations[n] : Layers[n] = Layers[p] + 1
  BY <1>1, <1>2, HeightIs
<1>4. ASSUME NEW p \in derivations[n], Layers[n] = Layers[p] + 1 PROVE Layers[n] > 0
  <2>1. Layers[p] \in Nat
    BY <1>1, <1>2
  <2> QED BY <1>4, <2>1
<1> QED BY <1>3, <1>4

LEMMA AncestorsAre ==
    ASSUME Grounded, NEW root \in DOMAIN derivations
    PROVE  /\ root \in Ancestors(root) /\ Ancestors(root) \subseteq DOMAIN derivations
           /\ \A n \in Ancestors(root) : derivations[n] \subseteq Ancestors(root)
           /\ \A S \in SUBSET DOMAIN derivations :
                root \in S /\ (\A m \in S : derivations[m] \subseteq S) => Ancestors(root) \subseteq S
<1> DEFINE Whole0(S) == root \in S /\ \A m \in S : derivations[m] \subseteq S
<1>1. \A m \in DOMAIN derivations : derivations[m] \cap DOMAIN derivations = derivations[m]
  BY DEF Grounded
<1>2. \A S \in SUBSET DOMAIN derivations :
        (\A m \in S : derivations[m] \cap DOMAIN derivations \subseteq S) <=> (\A m \in S : derivations[m] \subseteq S)
  BY <1>1
<1>3. \A n : n \in Ancestors(root) <=>
              n \in DOMAIN derivations /\ \A S \in SUBSET DOMAIN derivations : Whole0(S) => n \in S
  BY <1>2 DEF Ancestors, Reached
<1>4. \A S \in SUBSET DOMAIN derivations : Whole0(S) => Ancestors(root) \subseteq S
  BY <1>3
<1>5. ASSUME NEW n \in Ancestors(root), NEW p \in derivations[n] PROVE p \in Ancestors(root)
  <2>1. p \in DOMAIN derivations
    BY <1>3 DEF Grounded
  <2>2. \A S \in SUBSET DOMAIN derivations : Whole0(S) => n \in S
    BY <1>3
  <2>3. \A S \in SUBSET DOMAIN derivations : Whole0(S) => p \in S
    BY <2>2
  <2> QED BY <1>3, <2>1, <2>3
<1>6. root \in Ancestors(root) /\ Ancestors(root) \subseteq DOMAIN derivations
  BY <1>3
<1> QED BY <1>4, <1>5, <1>6

LEMMA EdgesAre ==
    ASSUME Grounded, NEW S \in SUBSET DOMAIN derivations
    PROVE  /\ \A n, p : <<n, p>> \in EdgesAmong(S) <=> n \in S /\ p \in derivations[n]
           /\ EdgesAmong(S) \subseteq (DOMAIN derivations) \X (DOMAIN derivations)
           /\ IsFiniteSet(S) /\ IsFiniteSet(EdgesAmong(S))
           /\ Cardinality(S) \in Nat /\ Cardinality(EdgesAmong(S)) \in Nat
<1>1. \A n, p : <<n, p>> \in EdgesAmong(S) <=> n \in S /\ p \in derivations[n]
  BY DEF EdgesAmong
<1>2. EdgesAmong(S) \subseteq (DOMAIN derivations) \X (DOMAIN derivations)
  BY DEF EdgesAmong, Grounded
<1>3. IsFiniteSet((DOMAIN derivations) \X (DOMAIN derivations)) /\ IsFiniteSet(DOMAIN derivations)
  BY FS_Product DEF Grounded
<1>4. IsFiniteSet(S) /\ IsFiniteSet(EdgesAmong(S))
  BY <1>2, <1>3, FS_Subset
<1>5. Cardinality(S) \in Nat /\ Cardinality(EdgesAmong(S)) \in Nat
  BY <1>4, FS_CardinalityType
<1> QED BY <1>1, <1>2, <1>4, <1>5

LEMMA EdgesGrow ==
    ASSUME Grounded, NEW T \in SUBSET DOMAIN derivations, NEW S \in SUBSET T
    PROVE  /\ Cardinality(S) <= Cardinality(T)
           /\ EdgesAmong(S) \subseteq EdgesAmong(T)
           /\ Cardinality(EdgesAmong(S)) <= Cardinality(EdgesAmong(T))
<1>1. IsFiniteSet(T) /\ IsFiniteSet(EdgesAmong(T))
  BY EdgesAre
<1>2. EdgesAmong(S) \subseteq EdgesAmong(T)
  BY DEF EdgesAmong
<1> QED BY <1>1, <1>2, FS_Subset

-----------------------------------------------------------------------------
(* The steps of a walk.                                                       *)

LEMMA RefuseFields ==
    ASSUME NEW w \in WalkRow
    PROVE  Refuse(w) \in WalkRow /\ ~ Refuse(w).ok
  BY DEF WalkRow, Refuse

\* The walk u differs from w in one edge followed.
Followed(u, w, n, p) ==
    /\ u \in WalkRow /\ u.ok = w.ok /\ u.headers = w.headers /\ u.heights = w.heights
    /\ u.path = w.path /\ u.followed = w.followed \cup {<<n, p>>}

LEMMA FollowFields ==
    ASSUME NEW w \in WalkRow, NEW n \in DOMAIN derivations, NEW p \in DOMAIN derivations
    PROVE  Followed(Follow(w, n, p), w, n, p)
  BY DEF WalkRow, Follow, Followed

LEMMA EnterFields ==
    ASSUME NEW w \in WalkRow, NEW n \in DOMAIN derivations
    PROVE  /\ Enter(w, n) \in WalkRow /\ Enter(w, n).ok = w.ok
           /\ Enter(w, n).headers = w.headers \cup {n} /\ Enter(w, n).heights = w.heights
           /\ Enter(w, n).path = Append(w.path, n)
           /\ Enter(w, n).followed = w.followed
<1>1. Append(w.path, n) \in Seq(DOMAIN derivations) /\ w.headers \cup {n} \in SUBSET DOMAIN derivations
  BY DEF WalkRow
<1> DEFINE path == Append(w.path, n)
<1>2. Enter(w, n) = [w EXCEPT !.headers = w.headers \cup {n}, !.path = path]
  BY DEF Enter, WalkRow
<1> HIDE DEF path
<1>3. path \in Seq(DOMAIN derivations)
  BY <1>1 DEF path
<1>4. /\ Enter(w, n) \in WalkRow /\ Enter(w, n).ok = w.ok
      /\ Enter(w, n).headers = w.headers \cup {n} /\ Enter(w, n).heights = w.heights
      /\ Enter(w, n).path = path /\ Enter(w, n).followed = w.followed
  BY <1>1, <1>2, <1>3 DEF WalkRow
<1> QED BY <1>4 DEF path

LEMMA WalkTyped ==
    ASSUME NEW w \in WalkRow
    PROVE  /\ w.ok \in BOOLEAN /\ w.headers \in SUBSET DOMAIN derivations
           /\ w.path \in Seq(DOMAIN derivations) /\ Len(w.path) \in Nat
           /\ DOMAIN w.path = 1..Len(w.path)
           /\ \A i \in 1..Len(w.path) : w.path[i] \in DOMAIN derivations
           /\ w.path # << >> <=> Len(w.path) > 0
           /\ DOMAIN w.heights \in SUBSET DOMAIN derivations
           /\ w.heights \in [DOMAIN w.heights -> Nat]
           /\ w.followed \in SUBSET ((DOMAIN derivations) \X (DOMAIN derivations))
<1>1. /\ w.ok \in BOOLEAN /\ w.headers \in SUBSET DOMAIN derivations
      /\ w.path \in Seq(DOMAIN derivations)
      /\ w.followed \in SUBSET ((DOMAIN derivations) \X (DOMAIN derivations))
      /\ w.heights \in UNION {[S -> Nat] : S \in SUBSET DOMAIN derivations}
  BY DEF WalkRow
<1>2. PICK S \in SUBSET DOMAIN derivations : w.heights \in [S -> Nat]
  BY <1>1
<1>3. DOMAIN w.heights = S
  BY <1>2
<1>4. /\ Len(w.path) \in Nat /\ DOMAIN w.path = 1..Len(w.path)
      /\ \A i \in 1..Len(w.path) : w.path[i] \in DOMAIN derivations
      /\ w.path # << >> <=> Len(w.path) > 0
  BY <1>1
<1> QED BY <1>1, <1>2, <1>3, <1>4

Higher(n, heights) == With(heights, n, Height(n, heights))

LEMMA HigherIs ==
    ASSUME Grounded, NEW n \in DOMAIN derivations, NEW f, DOMAIN f \subseteq DOMAIN derivations,
           f \in [DOMAIN f -> Nat], derivations[n] \subseteq DOMAIN f, n \notin DOMAIN f
    PROVE  /\ Higher(n, f) \in [DOMAIN f \cup {n} -> Nat]
           /\ \A m \in DOMAIN f : Higher(n, f)[m] = f[m]
           /\ Higher(n, f)[n] = Height(n, f)
<1>1. Height(n, f) \in Nat
  BY HeightIs
<1>2. Higher(n, f) = [m \in DOMAIN f \cup {n} |-> IF m = n THEN Height(n, f) ELSE f[m]]
  BY DEF Higher, With
<1> QED BY <1>1, <1>2

LEMMA LeaveFields ==
    ASSUME Grounded, NEW w \in WalkRow, NEW n \in DOMAIN derivations, w.path # << >>,
           derivations[n] \subseteq DOMAIN w.heights, n \notin DOMAIN w.heights
    PROVE  /\ Leave(w, n) \in WalkRow /\ Leave(w, n).ok = w.ok
           /\ Leave(w, n).headers = w.headers
           /\ Leave(w, n).heights \in [DOMAIN w.heights \cup {n} -> Nat]
           /\ \A m \in DOMAIN w.heights : Leave(w, n).heights[m] = w.heights[m]
           /\ Leave(w, n).heights[n] = Height(n, w.heights)
           /\ Leave(w, n).path \in Seq(DOMAIN derivations)
           /\ Len(Leave(w, n).path) = Len(w.path) - 1
           /\ \A i \in 1..Len(w.path) - 1 : Leave(w, n).path[i] = w.path[i]
           /\ Leave(w, n).followed = w.followed
<1> DEFINE S == DOMAIN w.heights
           h == Higher(n, w.heights)
           rest == Front(w.path)
<1>1. h \in [S \cup {n} -> Nat] /\ (\A m \in S : h[m] = w.heights[m]) /\ h[n] = Height(n, w.heights)
  <2>1. DOMAIN w.heights \subseteq DOMAIN derivations /\ w.heights \in [DOMAIN w.heights -> Nat]
    BY WalkTyped
  <2>2. PICK f : f = w.heights
    OBVIOUS
  <2>3. /\ Higher(n, f) \in [DOMAIN f \cup {n} -> Nat]
        /\ \A m \in DOMAIN f : Higher(n, f)[m] = f[m]
        /\ Higher(n, f)[n] = Height(n, f)
    <3>1. DOMAIN f \subseteq DOMAIN derivations /\ f \in [DOMAIN f -> Nat] /\ derivations[n] \subseteq DOMAIN f /\ n \notin DOMAIN f
      BY <2>1, <2>2
    <3> HIDE DEF S, h, rest
    <3> QED BY ONLY <3>1, Grounded, n \in DOMAIN derivations, HigherIs
  <2> QED BY <2>2, <2>3
<1>2. S \cup {n} \in SUBSET DOMAIN derivations
  BY WalkTyped
<1>3. h \in UNION {[T -> Nat] : T \in SUBSET DOMAIN derivations}
  <2> HIDE DEF h
  <2> QED BY <1>1, <1>2
<1>4. /\ rest \in Seq(DOMAIN derivations) /\ Len(rest) = Len(w.path) - 1
      /\ \A i \in 1..Len(w.path) - 1 : rest[i] = w.path[i]
  BY WalkTyped DEF Front
<1>5. Leave(w, n) = [w EXCEPT !.heights = h, !.path = rest]
  BY DEF Leave, Higher, WalkRow
<1> HIDE DEF h, rest
<1>6. /\ Leave(w, n) \in WalkRow /\ Leave(w, n).ok = w.ok /\ Leave(w, n).headers = w.headers
      /\ Leave(w, n).heights = h /\ Leave(w, n).path = rest /\ Leave(w, n).followed = w.followed
  BY <1>3, <1>4, <1>5 DEF WalkRow
<1> QED BY <1>1, <1>4, <1>6

\* The node the walk is at.
LEMMA AtTop ==
    ASSUME Grounded, NEW root, NEW w, WalkInv(w, root), w.path # << >>
    PROVE  /\ Len(w.path) \in Nat /\ Len(w.path) >= 1 /\ Len(w.path) \in 1..Len(w.path)
           /\ Last(w.path) = w.path[Len(w.path)] /\ Last(w.path) \in DOMAIN derivations
           /\ Last(w.path) \in w.headers /\ Last(w.path) \in Range(w.path)
           /\ Last(w.path) \notin DOMAIN w.heights
           /\ derivations[Last(w.path)] \subseteq DOMAIN derivations
<1>1. w \in WalkRow /\ HeadersSplit(w)
  BY DEF WalkInv
<1>2. Len(w.path) \in Nat /\ Len(w.path) >= 1 /\ Len(w.path) \in 1..Len(w.path) /\ DOMAIN w.path = 1..Len(w.path)
  BY <1>1, WalkTyped
<1>3. Last(w.path) = w.path[Len(w.path)]
  BY DEF Last
<1>4. Last(w.path) \in DOMAIN derivations
  BY <1>1, <1>2, <1>3, WalkTyped
<1>5. Last(w.path) \in Range(w.path)
  BY <1>2, <1>3 DEF Range
<1> QED BY <1>1, <1>2, <1>3, <1>4, <1>5 DEF HeadersSplit, Grounded

\* The claims of the path are those met on the way from the root.
LEMMA OnPath ==
    ASSUME NEW w \in WalkRow, NEW x
    PROVE  x \in Range(w.path) <=> \E i \in 1..Len(w.path) : x = w.path[i]
  BY WalkTyped DEF Range

LEMMA FollowKnown ==
    ASSUME Grounded, NEW root, NEW w, WalkInv(w, root), w.path # << >>,
           NEW p \in derivations[Last(w.path)], p \in DOMAIN w.heights, ~ RefusedAgain(w, p)
    PROVE  WalkInv(Follow(w, Last(w.path), p), root)
<1> DEFINE n == Last(w.path)
<1>1. w \in WalkRow /\ p \in DOMAIN derivations /\ n \in DOMAIN derivations
  BY AtTop DEF WalkInv
<1> HIDE DEF n
<1>2. PICK v : v = Follow(w, n, p)
  OBVIOUS
<1>3. /\ v \in WalkRow /\ v.headers = w.headers /\ v.heights = w.heights
      /\ v.path = w.path /\ v.followed = w.followed \cup {<<n, p>>}
  <2>1. Followed(Follow(w, n, p), w, n, p)
    BY ONLY <1>1, FollowFields
  <2> QED BY ONLY <1>2, <2>1 DEF Followed
<1>4. HeadersSplit(v) /\ PathLeads(v, root) /\ LeftWhole(v) /\ BudgetsKept(v, root) /\ BelowRoot(v, root)
  BY <1>3 DEF WalkInv, HeadersSplit, PathLeads, LeftWhole, BudgetsKept, BelowRoot
<1>5. FollowedFit(w) /\ LeftWhole(w) /\ PathLeads(w, root) /\ w.headers \in SUBSET DOMAIN derivations
  BY <1>1, WalkTyped DEF WalkInv
<1>6. Len(w.path) + Layers[p] <= MaxLayers
  <2>1. w.heights[p] = Layers[p]
    BY <1>5 DEF LeftWhole
  <2>2. Len(w.path) \in Nat /\ Layers[p] \in Nat /\ MaxLayers \in Nat
    BY <1>1, WalkTyped, LayersGo, ImplementsAssumption
  <2>3. ~ (Len(w.path) + Layers[p] > MaxLayers)
    BY <2>1 DEF RefusedAgain
  <2> QED BY <2>2, <2>3
<1>7. n \in w.headers /\ n = w.path[Len(w.path)] /\ Len(w.path) \in 1..Len(w.path) /\ p \in derivations[n]
  BY AtTop DEF n
<1>8. v.followed \subseteq EdgesAmong(v.headers)
  <2>1. <<n, p>> \in EdgesAmong(w.headers)
    BY <1>5, <1>7, EdgesAre
  <2> QED BY <1>3, <1>5, <2>1 DEF FollowedFit
<1>9. ASSUME NEW i \in 1..Len(v.path), NEW q \in derivations[v.path[i]], <<v.path[i], q>> \in v.followed
      PROVE  \/ q \in DOMAIN v.heights /\ i + Layers[q] <= MaxLayers
             \/ i < Len(v.path) /\ q = v.path[i + 1]
  <2>1. CASE <<w.path[i], q>> \in w.followed
    BY <1>3, <1>5, <2>1 DEF FollowedFit
  <2>2. CASE <<w.path[i], q>> = <<n, p>>
    <3>1. w.path[i] = w.path[Len(w.path)] /\ q = p
      BY <1>7, <2>2
    <3>2. i = Len(w.path)
      BY <1>3, <1>5, <1>7, <3>1 DEF PathLeads
    <3> QED BY <1>3, <1>6, <3>1, <3>2
  <2> QED BY <1>3, <1>9, <2>1, <2>2
<1>10. FollowedFit(v)
  BY <1>8, <1>9 DEF FollowedFit
<1> QED BY <1>2, <1>3, <1>4, <1>10 DEF WalkInv, n

\* A path that is one node longer.
LEMMA LongerRange ==
    ASSUME NEW s \in Seq(DOMAIN derivations), NEW p \in DOMAIN derivations
    PROVE  Range(Append(s, p)) = Range(s) \cup {p}
<1>1. PICK t : t = Append(s, p)
  OBVIOUS
<1>2. /\ Len(t) = Len(s) + 1 /\ Len(t) \in 1..Len(t) /\ t[Len(t)] = p
      /\ \A i \in 1..Len(s) : t[i] = s[i] /\ i \in 1..Len(t)
      /\ \A i \in 1..Len(t) : i \in 1..Len(s) \/ i = Len(t)
      /\ DOMAIN t = 1..Len(t) /\ DOMAIN s = 1..Len(s)
  BY <1>1
<1>3. \A x : x \in Range(t) <=> x \in Range(s) \/ x = p
  BY <1>2 DEF Range
<1> QED BY <1>1, <1>3

LEMMA EnterNew ==
    ASSUME Grounded, NEW root, NEW w, WalkInv(w, root), w.path # << >>, root \in DOMAIN derivations,
           NEW p \in derivations[Last(w.path)], p \notin Range(w.path), p \notin DOMAIN w.heights,
           ~ RefusedFirst(Follow(w, Last(w.path), p), p)
    PROVE  WalkInv(Enter(Follow(w, Last(w.path), p), p), root)
<1> DEFINE n == Last(w.path)
           L == Len(w.path)
<1>1. w \in WalkRow /\ p \in DOMAIN derivations /\ n \in DOMAIN derivations
  BY AtTop DEF WalkInv
<1>2. n \in w.headers /\ n = w.path[L] /\ L \in 1..L /\ p \in derivations[n] /\ L \in Nat
  BY AtTop
<1> HIDE DEF n
<1>3. PICK u : u = Follow(w, n, p)
  OBVIOUS
<1>4. /\ u \in WalkRow /\ u.headers = w.headers /\ u.heights = w.heights
      /\ u.path = w.path /\ u.followed = w.followed \cup {<<n, p>>}
  <2>1. Followed(Follow(w, n, p), w, n, p)
    BY ONLY <1>1, FollowFields
  <2> QED BY ONLY <1>3, <2>1 DEF Followed
<1>5. PICK v : v = Enter(u, p)
  OBVIOUS
<1>6. /\ v \in WalkRow /\ v.headers = w.headers \cup {p} /\ v.heights = w.heights
      /\ v.path = Append(w.path, p) /\ v.followed = w.followed \cup {<<n, p>>}
  <2>1. /\ Enter(u, p) \in WalkRow /\ Enter(u, p).headers = u.headers \cup {p}
        /\ Enter(u, p).heights = u.heights /\ Enter(u, p).path = Append(u.path, p)
        /\ Enter(u, p).followed = u.followed
    BY ONLY <1>1, <1>4, EnterFields
  <2> QED BY ONLY <1>4, <1>5, <2>1
<1>7. /\ Len(v.path) = L + 1 /\ v.path # << >> /\ v.path[L + 1] = p
      /\ \A i \in 1..L : v.path[i] = w.path[i]
      /\ \A i \in 1..Len(v.path) : i \in 1..L \/ i = L + 1
      /\ Range(v.path) = Range(w.path) \cup {p}
  <2>1. w.path \in Seq(DOMAIN derivations)
    BY <1>1, WalkTyped
  <2>2. PICK t : t = Append(w.path, p)
    OBVIOUS
  <2>3. /\ Len(t) = L + 1 /\ t # << >> /\ t[L + 1] = p
        /\ \A i \in 1..L : t[i] = w.path[i]
        /\ \A i \in 1..Len(t) : i \in 1..L \/ i = L + 1
    BY <2>1, <2>2
  <2>4. Range(Append(w.path, p)) = Range(w.path) \cup {p}
    BY <1>1, <2>1, LongerRange
  <2> QED BY <1>6, <2>2, <2>3, <2>4
<1>8. HeadersSplit(w) /\ PathLeads(w, root) /\ LeftWhole(w) /\ FollowedFit(w) /\ BudgetsKept(w, root) /\ BelowRoot(w, root)
  BY DEF WalkInv
<1>9. HeadersSplit(v)
  BY <1>6, <1>7, <1>8 DEF HeadersSplit
<1>10. p \notin Range(w.path) /\ \A i \in 1..L : w.path[i] # p
  BY <1>1, OnPath
<1>11. PathLeads(v, root)
  <2>1. root \in v.headers /\ v.path[1] = root
    BY <1>2, <1>6, <1>7, <1>8 DEF PathLeads
  <2>2. ASSUME NEW i \in 1..Len(v.path) - 1 PROVE v.path[i + 1] \in derivations[v.path[i]]
    <3>1. CASE i = L
      BY <1>2, <1>7, <3>1
    <3>2. CASE i # L
      <4>1. i \in 1..L - 1 /\ i \in 1..L /\ i + 1 \in 1..L
        BY <1>2, <1>7, <3>2
      <4> QED BY <1>7, <1>8, <4>1 DEF PathLeads
    <3> QED BY <3>1, <3>2
  <2>3. ASSUME NEW i \in 1..Len(v.path), NEW j \in 1..Len(v.path), v.path[i] = v.path[j] PROVE i = j
    <3>1. CASE i \in 1..L /\ j \in 1..L
      BY <1>7, <1>8, <2>3, <3>1 DEF PathLeads
    <3>2. CASE ~ (i \in 1..L /\ j \in 1..L)
      BY <1>7, <1>10, <2>3, <3>2
    <3> QED BY <3>1, <3>2
  <2> QED BY <1>7, <2>1, <2>2, <2>3 DEF PathLeads
<1>12. LeftWhole(v)
  BY <1>6, <1>8 DEF LeftWhole
<1>13. w.headers \in SUBSET DOMAIN derivations /\ v.headers \in SUBSET DOMAIN derivations
  BY <1>1, <1>6, WalkTyped
<1>14. v.followed \subseteq EdgesAmong(v.headers)
  <2>1. <<n, p>> \in EdgesAmong(w.headers)
    BY <1>2, <1>13, EdgesAre
  <2>2. EdgesAmong(w.headers) \subseteq EdgesAmong(v.headers)
    BY <1>6, <1>13, EdgesGrow
  <2> QED BY <1>6, <1>8, <2>1, <2>2 DEF FollowedFit
<1>15. ASSUME NEW i \in 1..Len(v.path), NEW q \in derivations[v.path[i]], <<v.path[i], q>> \in v.followed
       PROVE  \/ q \in DOMAIN v.heights /\ i + Layers[q] <= MaxLayers
              \/ i < Len(v.path) /\ q = v.path[i + 1]
  <2>1. CASE i = L + 1
    <3>1. v.path[i] = p /\ p # n /\ p \notin w.headers
      BY <1>2, <1>7, <1>8, <1>10, <2>1 DEF HeadersSplit
    <3>2. <<p, q>> \in w.followed
      BY <1>6, <1>15, <3>1
    <3>3. <<p, q>> \notin EdgesAmong(w.headers)
      BY <1>13, <3>1, EdgesAre
    <3> QED BY <1>8, <3>2, <3>3 DEF FollowedFit
  <2>2. CASE i \in 1..L /\ <<w.path[i], q>> \in w.followed
    <3>1. v.path[i] = w.path[i]
      BY <1>7, <2>2
    <3>2. \/ q \in DOMAIN w.heights /\ i + Layers[q] <= MaxLayers
          \/ i < L /\ q = w.path[i + 1]
      BY <1>8, <2>2, <3>1 DEF FollowedFit
    <3>3. i < L => i + 1 \in 1..L
      BY <1>2, <2>2
    <3>4. i < L => i < Len(v.path)
      BY <1>2, <1>7, <2>2
    <3> QED BY <1>6, <1>7, <3>2, <3>3, <3>4
  <2>3. CASE i \in 1..L /\ <<w.path[i], q>> = <<n, p>>
    <3>1. i = L /\ q = p
      BY <1>2, <1>8, <2>3 DEF PathLeads
    <3> QED BY <1>2, <1>7, <3>1
  <2>4. i \in 1..L => <<w.path[i], q>> \in w.followed \/ <<w.path[i], q>> = <<n, p>>
    BY <1>6, <1>7, <1>15
  <2> QED BY <1>7, <2>1, <2>2, <2>3, <2>4
<1>16. FollowedFit(v)
  BY <1>14, <1>15 DEF FollowedFit
<1>17. /\ Cardinality(w.headers) # MaxClosure
       /\ Cardinality(derivations[p]) > MaxAndParents => FALSE
       /\ Cardinality(EdgesAmong(v.headers)) > MaxClosureEdges => FALSE
       /\ ~SourceClaim(p) => L # MaxLayers
  BY <1>3, <1>4, <1>6 DEF RefusedFirst, n
<1>18. MaxLayers \in Nat /\ MaxClosure \in Nat /\ MaxClosureEdges \in Nat /\ MaxAndParents \in Nat
  BY ImplementsAssumption
<1>19. Cardinality(v.headers) <= MaxClosure
  <2>1. IsFiniteSet(w.headers) /\ Cardinality(w.headers) \in Nat
    BY <1>13, EdgesAre
  <2>2. Cardinality(v.headers) <= Cardinality(w.headers) + 1
    <3>1. Cardinality(w.headers \cup {p}) = IF p \in w.headers THEN Cardinality(w.headers) ELSE Cardinality(w.headers) + 1
      BY <2>1, FS_AddElement
    <3> QED BY <1>6, <2>1, <3>1
  <2>3. Cardinality(w.headers) <= MaxClosure /\ Cardinality(v.headers) \in Nat
    BY <1>8, <1>13, EdgesAre DEF BudgetsKept
  <2> QED BY <1>17, <1>18, <2>1, <2>2, <2>3
<1>20. Cardinality(EdgesAmong(v.headers)) <= MaxClosureEdges
  <2>1. Cardinality(EdgesAmong(v.headers)) \in Nat
    BY <1>13, EdgesAre
  <2> QED BY <1>17, <1>18, <2>1
<1>21. \A m \in v.headers : Cardinality(derivations[m]) <= MaxAndParents
  <2>1. Cardinality(derivations[p]) \in Nat
    BY <1>1, EdgesAre DEF Grounded
  <2>2. Cardinality(derivations[p]) <= MaxAndParents
    BY <1>17, <1>18, <2>1
  <2> QED BY <1>6, <1>8, <2>2 DEF BudgetsKept
<1>22. \A i \in 1..Len(v.path) : i <= MaxLayers + 1 /\ (~ SourceClaim(v.path[i]) => i <= MaxLayers)
  <2>1. ~ SourceClaim(n)
    BY <1>2 DEF SourceClaim
  <2>2. L <= MaxLayers
    BY <1>2, <1>8, <2>1 DEF BudgetsKept
  <2>3. L + 1 <= MaxLayers + 1 /\ (~ SourceClaim(p) => L + 1 <= MaxLayers)
    BY <1>2, <1>17, <1>18, <2>2
  <2>4. \A i \in 1..L : i <= MaxLayers + 1 /\ (~ SourceClaim(w.path[i]) => i <= MaxLayers)
    BY <1>8 DEF BudgetsKept
  <2> QED BY <1>7, <2>3, <2>4
<1>23. BudgetsKept(v, root)
  BY <1>6, <1>8, <1>19, <1>20, <1>21, <1>22 DEF BudgetsKept
<1>24. BelowRoot(v, root)
  <2>1. p \in Ancestors(root)
    BY <1>2, <1>8, AncestorsAre DEF BelowRoot
  <2>2. Layers[p] < Layers[n] /\ Layers[p] \in Nat /\ Layers[n] \in Nat /\ Layers[root] \in Nat
    BY <1>1, <1>2, LayersGo
  <2>3. L - 1 + Layers[n] <= Layers[root]
    BY <1>2, <1>8 DEF BelowRoot
  <2>4. L + 1 - 1 + Layers[p] <= Layers[root]
    BY <1>2, <2>2, <2>3
  <2>5. \A i \in 1..L : i - 1 + Layers[w.path[i]] <= Layers[root]
    BY <1>8 DEF BelowRoot
  <2>6. \A i \in 1..Len(v.path) : i - 1 + Layers[v.path[i]] <= Layers[root]
    <3> SUFFICES ASSUME NEW i \in 1..Len(v.path) PROVE i - 1 + Layers[v.path[i]] <= Layers[root]
      OBVIOUS
    <3>1. CASE i = L + 1
      BY <1>7, <2>4, <3>1
    <3>2. CASE i # L + 1
      <4>1. i \in 1..L /\ v.path[i] = w.path[i]
        BY <1>2, <1>7, <3>2
      <4> QED BY <2>5, <4>1
    <3> QED BY <3>1, <3>2
  <2> QED BY <1>6, <1>8, <2>1, <2>6 DEF BelowRoot
<1>25. WalkInv(v, root)
  BY <1>6, <1>9, <1>11, <1>12, <1>16, <1>23, <1>24 DEF WalkInv
<1> QED BY <1>3, <1>5, <1>25 DEF n

LEMMA LeaveTop ==
    ASSUME Grounded, NEW root, NEW w, WalkInv(w, root), w.path # << >>, Due(w, Last(w.path)) = {}
    PROVE  /\ WalkInv(Leave(w, Last(w.path)), root)
           /\ Leave(w, Last(w.path)).ok = w.ok /\ Leave(w, Last(w.path)).followed = w.followed
           /\ DOMAIN Leave(w, Last(w.path)).heights = DOMAIN w.heights \cup {Last(w.path)}
<1> DEFINE n == Last(w.path)
           L == Len(w.path)
<1>1. w \in WalkRow /\ n \in DOMAIN derivations
  BY AtTop DEF WalkInv
<1>2. n \in w.headers /\ n = w.path[L] /\ L \in 1..L /\ L \in Nat /\ L >= 1 /\ n \notin DOMAIN w.heights
  BY AtTop
<1>3. HeadersSplit(w) /\ PathLeads(w, root) /\ LeftWhole(w) /\ FollowedFit(w) /\ BudgetsKept(w, root) /\ BelowRoot(w, root)
  BY DEF WalkInv
<1>4. \A q \in derivations[n] : <<n, q>> \in w.followed
  BY DEF Due
<1> HIDE DEF n
<1>5. \A q \in derivations[n] : q \in DOMAIN w.heights /\ L + Layers[q] <= MaxLayers
  <2> SUFFICES ASSUME NEW q \in derivations[n] PROVE q \in DOMAIN w.heights /\ L + Layers[q] <= MaxLayers
    OBVIOUS
  <2>1. q \in derivations[w.path[L]] /\ <<w.path[L], q>> \in w.followed
    BY <1>2, <1>4
  <2>2. \/ q \in DOMAIN w.heights /\ L + Layers[q] <= MaxLayers
        \/ L < L /\ q = w.path[L + 1]
    <3> HIDE DEF L
    <3> QED BY <1>2, <1>3, <2>1 DEF FollowedFit, L
  <2>3. ~ (L < L)
    BY <1>2
  <2> QED BY <2>2, <2>3
<1>6. PICK v : v = Leave(w, n)
  OBVIOUS
<1>7. /\ v \in WalkRow /\ v.ok = w.ok /\ v.headers = w.headers
      /\ v.heights \in [DOMAIN w.heights \cup {n} -> Nat]
      /\ \A m \in DOMAIN w.heights : v.heights[m] = w.heights[m]
      /\ v.heights[n] = Height(n, w.heights)
      /\ v.path \in Seq(DOMAIN derivations)
      /\ Len(v.path) = L - 1
      /\ \A i \in 1..L - 1 : v.path[i] = w.path[i]
      /\ v.followed = w.followed
  <2>1. derivations[n] \subseteq DOMAIN w.heights
    BY <1>5
  <2>2. w.path # << >> /\ n \notin DOMAIN w.heights
    BY <1>2
  <2>3. /\ Leave(w, n) \in WalkRow /\ Leave(w, n).ok = w.ok /\ Leave(w, n).headers = w.headers
        /\ Leave(w, n).heights \in [DOMAIN w.heights \cup {n} -> Nat]
        /\ \A m \in DOMAIN w.heights : Leave(w, n).heights[m] = w.heights[m]
        /\ Leave(w, n).heights[n] = Height(n, w.heights)
        /\ Leave(w, n).path \in Seq(DOMAIN derivations)
        /\ Len(Leave(w, n).path) = Len(w.path) - 1
        /\ \A i \in 1..Len(w.path) - 1 : Leave(w, n).path[i] = w.path[i]
        /\ Leave(w, n).followed = w.followed
    BY ONLY Grounded, <1>1, <2>1, <2>2, LeaveFields
  <2> QED BY <1>6, <2>3
<1>8. DOMAIN v.heights = DOMAIN w.heights \cup {n}
  BY <1>7
<1>9. v.heights[n] = Layers[n]
  <2>1. \A q \in derivations[n] : w.heights[q] = Layers[q]
    BY <1>3, <1>5 DEF LeftWhole
  <2>2. Height(n, w.heights) = Height(n, Layers)
    BY <2>1, SameHeight
  <2>3. Layers[n] = Height(n, Layers)
    BY <1>1, LayersGo
  <2> QED BY <1>7, <2>2, <2>3
<1>10. LeftWhole(v)
  <2>1. ASSUME NEW m \in DOMAIN w.heights
        PROVE  derivations[m] \subseteq DOMAIN v.heights /\ v.heights[m] = Layers[m]
    BY <1>3, <1>7, <1>8 DEF LeftWhole
  <2>2. derivations[n] \subseteq DOMAIN v.heights
    BY <1>5, <1>8
  <2> QED BY <1>8, <1>9, <2>1, <2>2 DEF LeftWhole
<1>11. \A x : x \in Range(v.path) <=> x \in Range(w.path) /\ x # n
  <2>1. \A x : x \in Range(v.path) <=> \E i \in 1..L - 1 : x = w.path[i]
    <3>1. \A x : x \in Range(v.path) <=> \E i \in 1..Len(v.path) : x = v.path[i]
      BY <1>7, OnPath
    <3>2. 1..Len(v.path) = 1..L - 1
      BY <1>7
    <3>3. \A i \in 1..L - 1 : v.path[i] = w.path[i]
      BY <1>7
    <3> QED BY ONLY <3>1, <3>2, <3>3
  <2>2. \A x : x \in Range(w.path) <=> \E i \in 1..L : x = w.path[i]
    BY <1>1, OnPath
  <2>3. \A i \in 1..L - 1 : i \in 1..L /\ i # L
    BY <1>2
  <2>4. \A i \in 1..L - 1 : w.path[i] # n
    BY <1>2, <1>3, <2>3 DEF PathLeads
  <2>5. \A i \in 1..L : i = L \/ i \in 1..L - 1
    BY <1>2
  <2> QED BY <1>2, <2>1, <2>2, <2>3, <2>4, <2>5
<1>12. HeadersSplit(v)
  BY <1>2, <1>3, <1>7, <1>8, <1>11 DEF HeadersSplit
<1>13. \A i \in 1..L - 1 : i \in 1..L
  BY <1>2
<1>14. PathLeads(v, root)
  <2>1. v.path # << >> => v.path[1] = root
    <3> SUFFICES ASSUME v.path # << >> PROVE v.path[1] = root
      OBVIOUS
    <3>1. Len(v.path) > 0
      BY <1>7, WalkTyped
    <3>2. 1 \in 1..L - 1
      BY <1>2, <1>7, <3>1
    <3>3. w.path[1] = root
      BY <1>1, <1>2, <1>3 DEF PathLeads
    <3> QED BY <1>7, <3>2, <3>3
  <2>2. ASSUME NEW i \in 1..Len(v.path) - 1 PROVE v.path[i + 1] \in derivations[v.path[i]]
    <3>1. i \in 1..L - 1 /\ i + 1 \in 1..L - 1
      BY <1>2, <1>7
    <3> QED BY <1>3, <1>7, <3>1 DEF PathLeads
  <2>3. ASSUME NEW i \in 1..Len(v.path), NEW j \in 1..Len(v.path), v.path[i] = v.path[j] PROVE i = j
    <3>1. i \in 1..L - 1 /\ j \in 1..L - 1
      BY <1>7
    <3>2. w.path[i] = w.path[j]
      BY <1>7, <2>3, <3>1
    <3> QED BY <1>3, <1>13, <3>1, <3>2 DEF PathLeads
  <2>4. root \in v.headers
    BY <1>3, <1>7 DEF PathLeads
  <2> QED BY <2>1, <2>2, <2>3, <2>4 DEF PathLeads
<1>15. /\ MaxLayers \in Nat /\ Layers[n] \in Nat
       /\ \A q \in derivations[n] : Layers[q] \in Nat
       /\ SourceClaim(n) => Layers[n] = 0
       /\ ~ SourceClaim(n) => \E q \in derivations[n] : Layers[n] = Layers[q] + 1
  BY <1>1, LayersGo, ImplementsAssumption DEF Grounded
<1>16. L - 1 + Layers[n] <= MaxLayers
  <2>1. CASE SourceClaim(n)
    <3>1. L <= MaxLayers + 1
      BY <1>2, <1>3 DEF BudgetsKept
    <3> QED BY <1>2, <1>15, <2>1, <3>1
  <2>2. CASE ~ SourceClaim(n)
    <3>1. PICK q \in derivations[n] : Layers[n] = Layers[q] + 1
      BY <1>15, <2>2
    <3>2. L + Layers[q] <= MaxLayers /\ Layers[q] \in Nat
      BY <1>5, <1>15
    <3> QED BY <1>2, <1>15, <3>1, <3>2
  <2> QED BY <2>1, <2>2
<1>17. ASSUME NEW i \in 1..Len(v.path), NEW q \in derivations[v.path[i]], <<v.path[i], q>> \in v.followed
       PROVE  \/ q \in DOMAIN v.heights /\ i + Layers[q] <= MaxLayers
              \/ i < Len(v.path) /\ q = v.path[i + 1]
  <2>1. i \in 1..L - 1 /\ i \in 1..L /\ v.path[i] = w.path[i]
    BY <1>7, <1>13
  <2>2. \/ q \in DOMAIN w.heights /\ i + Layers[q] <= MaxLayers
        \/ i < L /\ q = w.path[i + 1]
    BY <1>3, <1>7, <1>17, <2>1 DEF FollowedFit
  <2>3. CASE q = w.path[i + 1] /\ i + 1 = L
    <3>1. q = n
      BY <1>2, <2>3
    <3>2. i = L - 1
      BY <1>2, <2>1, <2>3
    <3> QED BY <1>8, <1>16, <3>1, <3>2
  <2>4. CASE q = w.path[i + 1] /\ i + 1 # L
    <3>1. i + 1 \in 1..L - 1 /\ i < L - 1
      BY <1>2, <2>1, <2>4
    <3> QED BY <1>7, <2>4, <3>1
  <2> QED BY <1>8, <2>2, <2>3, <2>4
<1>18. FollowedFit(v)
  BY <1>3, <1>7, <1>17 DEF FollowedFit
<1>19. root \in DOMAIN v.heights => Layers[root] <= MaxLayers
  <2>1. CASE root = n
    <3>1. w.path[1] = root /\ 1 \in 1..L
      BY <1>1, <1>2, <1>3, WalkTyped DEF PathLeads
    <3>2. L = 1
      BY <1>2, <1>3, <2>1, <3>1 DEF PathLeads
    <3> QED BY <1>15, <1>16, <2>1, <3>2
  <2>2. CASE root # n
    BY <1>3, <1>8, <2>2 DEF BudgetsKept
  <2> QED BY <2>1, <2>2
<1>20. BudgetsKept(v, root)
  <2>1. \A i \in 1..Len(v.path) : i <= MaxLayers + 1 /\ (~ SourceClaim(v.path[i]) => i <= MaxLayers)
    <3> SUFFICES ASSUME NEW i \in 1..Len(v.path)
                 PROVE  i <= MaxLayers + 1 /\ (~ SourceClaim(v.path[i]) => i <= MaxLayers)
      OBVIOUS
    <3>1. i \in 1..L /\ v.path[i] = w.path[i]
      BY <1>7, <1>13
    <3> QED BY <1>3, <3>1 DEF BudgetsKept
  <2> QED BY <1>3, <1>7, <1>19, <2>1 DEF BudgetsKept
<1>21. BelowRoot(v, root)
  <2>1. \A i \in 1..Len(v.path) : i - 1 + Layers[v.path[i]] <= Layers[root]
    <3> SUFFICES ASSUME NEW i \in 1..Len(v.path) PROVE i - 1 + Layers[v.path[i]] <= Layers[root]
      OBVIOUS
    <3>1. i \in 1..L /\ v.path[i] = w.path[i]
      BY <1>7, <1>13
    <3> QED BY <1>3, <3>1 DEF BelowRoot
  <2> QED BY <1>3, <1>7, <2>1 DEF BelowRoot
<1>22. WalkInv(v, root)
  BY <1>7, <1>10, <1>12, <1>14, <1>18, <1>20, <1>21 DEF WalkInv
<1> QED BY <1>6, <1>7, <1>8, <1>22 DEF n

LEMMA DueTyped ==
    ASSUME Grounded, NEW root, NEW w, WalkInv(w, root), w.path # << >>, Due(w, Last(w.path)) # {}
    PROVE  /\ Min(Due(w, Last(w.path))) \in derivations[Last(w.path)]
           /\ <<Last(w.path), Min(Due(w, Last(w.path)))>> \notin w.followed
<1> DEFINE due == Due(w, Last(w.path))
<1>1. due \subseteq derivations[Last(w.path)] /\ derivations[Last(w.path)] \subseteq DOMAIN derivations
  BY AtTop DEF Due
<1>2. due \in SUBSET Nat
  BY <1>1, ImplementsAssumption DEF Grounded
<1>3. Min(due) \in due
  <2> HIDE DEF due
  <2> QED BY <1>2, SmallestIs DEF due
<1> QED BY <1>3 DEF Due

\* What the walk has counted.
LEMMA CountsTyped ==
    ASSUME Grounded, NEW w \in WalkRow
    PROVE  /\ IsFiniteSet(w.followed) /\ Cardinality(w.followed) \in Nat
           /\ IsFiniteSet(DOMAIN w.heights) /\ Cardinality(DOMAIN w.heights) \in Nat
<1>1. w.followed \in SUBSET ((DOMAIN derivations) \X (DOMAIN derivations)) /\ DOMAIN w.heights \in SUBSET DOMAIN derivations
  BY WalkTyped
<1>2. IsFiniteSet(DOMAIN derivations) /\ IsFiniteSet((DOMAIN derivations) \X (DOMAIN derivations))
  BY FS_Product DEF Grounded
<1>3. IsFiniteSet(w.followed) /\ IsFiniteSet(DOMAIN w.heights)
  BY <1>1, <1>2, FS_Subset
<1> QED BY <1>3, FS_CardinalityType

LEMMA OneMore ==
    ASSUME NEW S, IsFiniteSet(S), NEW x, x \notin S
    PROVE  Cardinality(S \cup {x}) = Cardinality(S) + 1
  BY FS_AddElement

\* A step that is not refused.
LEMMA AdvanceKeeps ==
    ASSUME Grounded, NEW root \in DOMAIN derivations, NEW w, WalkInv(w, root), Advance(w).ok,
           NEW k \in Nat, StepsCounted(k, w)
    PROVE  WalkInv(Advance(w), root) /\ StepsCounted(k + 1, Advance(w)) /\ w.ok
<1> DEFINE n == Last(w.path)
           p == Min(Due(w, n))
           u == Follow(w, n, p)
<1>1. w \in WalkRow /\ w.ok \in BOOLEAN
  BY WalkTyped DEF WalkInv
<1>2. w.ok
  BY DEF Advance
<1>3. IsFiniteSet(w.followed) /\ Cardinality(w.followed) \in Nat
      /\ IsFiniteSet(DOMAIN w.heights) /\ Cardinality(DOMAIN w.heights) \in Nat
  BY <1>1, CountsTyped
<1>4. CASE w.path = << >>
  BY <1>2, <1>4 DEF Advance, StepsCounted
<1>5. CASE w.path # << >> /\ Due(w, n) = {}
  <2>1. Advance(w) = Leave(w, n)
    BY <1>2, <1>5 DEF Advance
  <2>2. /\ WalkInv(Leave(w, n), root) /\ Leave(w, n).followed = w.followed
        /\ DOMAIN Leave(w, n).heights = DOMAIN w.heights \cup {n} /\ n \notin DOMAIN w.heights
    BY <1>5, LeaveTop, AtTop
  <2> HIDE DEF n
  <2>3. Cardinality(DOMAIN w.heights \cup {n}) = Cardinality(DOMAIN w.heights) + 1
    BY <1>3, <2>2, OneMore
  <2>4. k = Cardinality(w.followed) + Cardinality(DOMAIN w.heights)
    BY <1>5 DEF StepsCounted
  <2>5. StepsCounted(k + 1, Leave(w, n))
    BY <1>3, <2>2, <2>3, <2>4 DEF StepsCounted
  <2> QED BY <1>2, <2>1, <2>2, <2>5
<1>6. CASE w.path # << >> /\ Due(w, n) # {}
  <2>1. p \in derivations[n] /\ <<n, p>> \notin w.followed /\ n \in DOMAIN derivations /\ p \in DOMAIN derivations
    BY <1>6, DueTyped, AtTop
  <2>2. Advance(w) = Visit(u, p)
    BY <1>2, <1>6 DEF Advance
  <2>3. /\ u \in WalkRow /\ u.ok = w.ok /\ u.headers = w.headers /\ u.heights = w.heights
        /\ u.path = w.path /\ u.followed = w.followed \cup {<<n, p>>}
    <3> HIDE DEF n, p
    <3>1. Followed(u, w, n, p)
      BY ONLY <1>1, <2>1, FollowFields DEF u
    <3> QED BY ONLY <3>1 DEF Followed
  <2>4. Cardinality(w.followed \cup {<<n, p>>}) = Cardinality(w.followed) + 1
    BY <1>3, <2>1, OneMore
  <2>5. k = Cardinality(w.followed) + Cardinality(DOMAIN w.heights)
    BY <1>6 DEF StepsCounted
  <2>6. ~ Refuse(u).ok
    BY <2>3, RefuseFields
  <2>7. p \notin Range(w.path)
    BY <2>2, <2>3, <2>6 DEF Visit
  <2>8. CASE p \in DOMAIN w.heights
    <3>1. ~ RefusedAgain(u, p) /\ Visit(u, p) = u
      BY <2>2, <2>3, <2>6, <2>7, <2>8 DEF Visit
    <3>2. ~ RefusedAgain(w, p)
      BY <2>3, <3>1 DEF RefusedAgain
    <3>3. WalkInv(u, root)
      BY <1>6, <2>1, <2>8, <3>2, FollowKnown
    <3> HIDE DEF u, p, n
    <3>4. StepsCounted(k + 1, u)
      BY <1>3, <2>3, <2>4, <2>5 DEF StepsCounted
    <3> QED BY <1>2, <2>2, <3>1, <3>3, <3>4
  <2>9. CASE p \notin DOMAIN w.heights
    <3>1. ~ RefusedFirst(u, p) /\ Visit(u, p) = Enter(u, p)
      BY <2>2, <2>3, <2>6, <2>7, <2>9 DEF Visit
    <3>2. WalkInv(Enter(u, p), root)
      BY <1>6, <2>1, <2>7, <2>9, <3>1, EnterNew
    <3> HIDE DEF u, p, n
    <3>3. Enter(u, p).followed = u.followed /\ Enter(u, p).heights = u.heights
      BY <2>1, <2>3, EnterFields
    <3>4. StepsCounted(k + 1, Enter(u, p))
      BY <1>3, <2>3, <2>4, <2>5, <3>3 DEF StepsCounted
    <3> QED BY <1>2, <2>2, <3>1, <3>2, <3>4
  <2> QED BY <2>8, <2>9
<1> QED BY <1>4, <1>5, <1>6

\* Parents have fewer layers: a path does not come back.
LEMMA PathDescends ==
    ASSUME Grounded, NEW root, NEW w, WalkInv(w, root), w.path # << >>, NEW i \in 1..Len(w.path)
    PROVE  Layers[Last(w.path)] <= Layers[w.path[i]]
<1> DEFINE L == Len(w.path)
           low == {Layers[w.path[j]] : j \in i..L}
<1>1. w \in WalkRow /\ PathLeads(w, root)
  BY DEF WalkInv
<1>2. L \in Nat /\ \A j \in 1..L : w.path[j] \in DOMAIN derivations
  BY <1>1, WalkTyped
<1>3. \A j \in i..L : j \in 1..L
  BY <1>2
<1>4. \A j \in 1..L : Layers[w.path[j]] \in Nat
  BY <1>2, LayersGo
<1>5. low \subseteq Nat /\ low # {}
  <2>1. i \in i..L
    BY <1>2
  <2> QED BY <1>3, <1>4, <2>1
<1>6. PICK l \in low : \A x \in low : l <= x
  BY <1>5, LeastOfNats
<1>7. PICK j \in i..L : l = Layers[w.path[j]]
  BY <1>6
<1>8. j = L
  <2> SUFFICES ASSUME j # L PROVE FALSE
    OBVIOUS
  <2>1. j \in 1..L /\ j + 1 \in i..L /\ j \in 1..L - 1
    BY <1>2
  <2>2. w.path[j + 1] \in derivations[w.path[j]]
    BY <1>1, <2>1 DEF PathLeads
  <2>3. Layers[w.path[j + 1]] < Layers[w.path[j]]
    BY <1>2, <2>1, <2>2, LayersGo
  <2>4. Layers[w.path[j + 1]] \in low /\ j + 1 \in 1..L
    BY <1>3, <2>1
  <2>5. l <= Layers[w.path[j + 1]] /\ Layers[w.path[j + 1]] \in Nat /\ l \in Nat
    BY <1>4, <1>5, <1>6, <2>4
  <2> QED BY <1>7, <2>3, <2>5
<1>9. Layers[w.path[i]] \in low
  BY <1>2
<1> QED BY <1>6, <1>7, <1>8, <1>9 DEF Last

\* Of a claim within the bounds no step is refused.
LEMMA NothingRefused ==
    ASSUME Grounded, NEW root \in DOMAIN derivations, NEW w, WalkInv(w, root), w.ok, WithinBounds(root)
    PROVE  Advance(w).ok
<1> DEFINE n == Last(w.path)
           L == Len(w.path)
           p == Min(Due(w, n))
           u == Follow(w, n, p)
<1>1. w \in WalkRow
  BY DEF WalkInv
<1>2. CASE w.path = << >>
  BY <1>2 DEF Advance
<1>3. CASE w.path # << >> /\ Due(w, n) = {}
  <2>1. Advance(w) = Leave(w, n)
    BY <1>3 DEF Advance
  <2> QED BY <1>3, <2>1, LeaveTop
<1>4. CASE w.path # << >> /\ Due(w, n) # {}
  <2>1. p \in derivations[n] /\ n \in DOMAIN derivations /\ p \in DOMAIN derivations
    BY <1>4, DueTyped, AtTop
  <2>2. Advance(w) = Visit(u, p)
    BY <1>4 DEF Advance
  <2>3. /\ u \in WalkRow /\ u.ok = w.ok /\ u.headers = w.headers /\ u.heights = w.heights /\ u.path = w.path
    <3> HIDE DEF n, p
    <3>1. Followed(u, w, n, p)
      BY ONLY <1>1, <2>1, FollowFields DEF u
    <3> QED BY ONLY <3>1 DEF Followed
  <2>4. /\ Layers[p] < Layers[n] /\ Layers[p] \in Nat /\ Layers[n] \in Nat /\ Layers[root] \in Nat
        /\ (~ SourceClaim(p) => Layers[p] > 0) /\ MaxLayers \in Nat /\ MaxClosure \in Nat
        /\ MaxAndParents \in Nat /\ MaxClosureEdges \in Nat
    BY <2>1, LayersGo, ImplementsAssumption
  <2>5. L \in Nat /\ L \in 1..L /\ n = w.path[L] /\ n \in w.headers
    BY <1>4, AtTop
  <2>6. L - 1 + Layers[n] <= Layers[root] /\ Layers[root] <= MaxLayers
    BY <2>5 DEF WalkInv, BelowRoot, WithinBounds
  <2>7. L + Layers[p] <= MaxLayers
    <3> HIDE DEF L, n, p
    <3> QED BY <2>4, <2>5, <2>6
  <2>8. p \notin Range(u.path)
    <3>1. ASSUME p \in Range(w.path) PROVE FALSE
      <4>1. PICK i \in 1..L : p = w.path[i]
        BY <1>1, <3>1, OnPath
      <4>2. Layers[n] <= Layers[p]
        BY <1>4, <4>1, PathDescends
      <4> HIDE DEF n, p
      <4> QED BY <2>4, <4>2
    <3> QED BY <2>3, <3>1
  <2>9. CASE p \in DOMAIN u.heights
    <3>1. u.heights[p] = Layers[p]
      BY <2>3, <2>9 DEF WalkInv, LeftWhole
    <3>2. ~ RefusedAgain(u, p)
      <4>1. Len(u.path) = L
        BY <2>3
      <4> HIDE DEF u, p, L, n
      <4> QED BY <2>4, <2>5, <2>7, <3>1, <4>1 DEF RefusedAgain
    <3>3. Visit(u, p) = u
      BY <2>8, <2>9, <3>2 DEF Visit
    <3> QED BY <2>2, <2>3, <3>3
  <2>10. CASE p \notin DOMAIN u.heights
    <3>1. w.headers \cup {p} \in SUBSET Ancestors(root) /\ Ancestors(root) \in SUBSET DOMAIN derivations /\ p \in Ancestors(root)
      <4>1. w.headers \subseteq Ancestors(root)
        BY DEF WalkInv, BelowRoot
      <4> HIDE DEF p, n
      <4> QED BY <2>1, <2>5, <4>1, AncestorsAre
    <3>2. p \notin w.headers
      BY <2>3, <2>8, <2>10 DEF WalkInv, HeadersSplit
    <3>3. /\ Cardinality(Ancestors(root)) <= MaxClosure
          /\ Cardinality(EdgesAmong(Ancestors(root))) <= MaxClosureEdges
          /\ Cardinality(derivations[p]) <= MaxAndParents
      BY <3>1 DEF WithinBounds
    <3>4. Cardinality(w.headers) # MaxClosure
      <4>1. Cardinality(w.headers \cup {p}) <= Cardinality(Ancestors(root))
        BY <3>1, EdgesGrow
      <4>2. w.headers \in SUBSET DOMAIN derivations
        BY <1>1, WalkTyped
      <4>3. IsFiniteSet(w.headers) /\ Cardinality(w.headers) \in Nat
        BY <4>2, EdgesAre
      <4>4. Cardinality(w.headers \cup {p}) = Cardinality(w.headers) + 1
        BY <3>2, <4>3, OneMore
      <4>5. Cardinality(Ancestors(root)) \in Nat
        BY <3>1, EdgesAre
      <4> HIDE DEF p
      <4> QED BY <2>4, <3>3, <4>1, <4>3, <4>4, <4>5
    <3>5. ~ (Cardinality(EdgesAmong(w.headers \cup {p})) > MaxClosureEdges)
      <4>1. Cardinality(EdgesAmong(w.headers \cup {p})) <= Cardinality(EdgesAmong(Ancestors(root)))
        BY <3>1, EdgesGrow
      <4>2. Cardinality(EdgesAmong(w.headers \cup {p})) \in Nat /\ Cardinality(EdgesAmong(Ancestors(root))) \in Nat
        BY <3>1, EdgesAre
      <4> HIDE DEF p
      <4> QED BY <2>4, <3>3, <4>1, <4>2
    <3>6. ~ (Cardinality(derivations[p]) > MaxAndParents)
      <4>1. Cardinality(derivations[p]) \in Nat
        BY <2>1, EdgesAre DEF Grounded
      <4> HIDE DEF p
      <4> QED BY <2>4, <3>3, <4>1
    <3>7. SourceClaim(p) \/ L # MaxLayers
      <4> HIDE DEF p, L, n
      <4> QED BY <2>4, <2>5, <2>7
    <3>8. ~ RefusedFirst(u, p)
      <4> HIDE DEF p, u, n
      <4> QED BY <1>4, <2>3, <3>4, <3>5, <3>6, <3>7 DEF RefusedFirst
    <3>9. Visit(u, p) = Enter(u, p)
      BY <2>8, <2>10, <3>8 DEF Visit
    <3>10. Enter(u, p).ok = u.ok
      BY <2>1, <2>3, EnterFields
    <3> QED BY <2>2, <2>3, <3>9, <3>10
  <2> QED BY <2>9, <2>10
<1> QED BY <1>2, <1>3, <1>4

LEMMA NothingWalked ==
    /\ NoWalk \in WalkRow /\ NoWalk.ok /\ NoWalk.headers = {} /\ NoWalk.path = << >> /\ NoWalk.followed = {}
    /\ DOMAIN NoWalk.heights = {}
<1>1. << >> \in [{} -> Nat] /\ DOMAIN << >> = {}
  OBVIOUS
<1>2. {} \in SUBSET DOMAIN derivations
  OBVIOUS
<1>3. << >> \in UNION {[S -> Nat] : S \in SUBSET DOMAIN derivations}
  BY <1>1, <1>2
<1>4. << >> \in Seq(DOMAIN derivations)
  OBVIOUS
<1> QED BY <1>1, <1>3, <1>4 DEF NoWalk, WalkRow

LEMMA FirstRefused ==
    ASSUME Grounded, NEW root \in DOMAIN derivations
    PROVE  RefusedFirst(NoWalk, root) <=>
             \/ SourceClaim(root)
             \/ Cardinality(derivations[root]) > MaxAndParents
             \/ Cardinality(EdgesAmong({root})) > MaxClosureEdges
<1>1. Cardinality({}) = 0 /\ MaxClosure # 0 /\ MaxLayers # 0
  BY FS_EmptySet, ImplementsAssumption
<1>2. Len(NoWalk.path) = 0 /\ NoWalk.headers \cup {root} = {root}
  BY NothingWalked
<1> QED BY <1>1, <1>2, NothingWalked DEF RefusedFirst

\* The walk starts at the root.
LEMMA WalkBegins ==
    ASSUME Grounded, NEW root \in DOMAIN derivations
    PROVE  /\ Visit(NoWalk, root) \in WalkRow
           /\ Visit(NoWalk, root).ok => WalkInv(Visit(NoWalk, root), root) /\ StepsCounted(0, Visit(NoWalk, root))
           /\ Visit(NoWalk, root).ok <=> ~ RefusedFirst(NoWalk, root)
<1>1. root \notin Range(NoWalk.path) /\ root \notin DOMAIN NoWalk.heights
  BY NothingWalked DEF Range
<1>2. CASE RefusedFirst(NoWalk, root)
  <2>1. Visit(NoWalk, root) = Refuse(NoWalk)
    BY <1>1, <1>2 DEF Visit
  <2> QED BY <1>2, <2>1, NothingWalked, RefuseFields
<1>3. CASE ~ RefusedFirst(NoWalk, root)
  <2>1. Visit(NoWalk, root) = Enter(NoWalk, root)
    BY <1>1, <1>3 DEF Visit
  <2>2. PICK v : v = Enter(NoWalk, root)
    OBVIOUS
  <2>3. /\ v \in WalkRow /\ v.ok /\ v.headers = {root} /\ DOMAIN v.heights = {}
        /\ v.path = Append(<< >>, root) /\ v.followed = {}
    <3>1. /\ Enter(NoWalk, root) \in WalkRow /\ Enter(NoWalk, root).ok = NoWalk.ok
          /\ Enter(NoWalk, root).headers = NoWalk.headers \cup {root}
          /\ Enter(NoWalk, root).heights = NoWalk.heights
          /\ Enter(NoWalk, root).path = Append(NoWalk.path, root)
          /\ Enter(NoWalk, root).followed = NoWalk.followed
      BY ONLY root \in DOMAIN derivations, NothingWalked, EnterFields
    <3> QED BY <2>2, <3>1, NothingWalked
  <2>4. Len(v.path) = 1 /\ v.path[1] = root /\ v.path # << >>
    BY <2>3
  <2>5. Range(v.path) = {root}
    <3>1. \A x : x \in Range(v.path) <=> \E i \in 1..Len(v.path) : x = v.path[i]
      BY <2>3, OnPath
    <3>2. 1..Len(v.path) = {1}
      BY <2>4
    <3> QED BY <2>4, <3>1, <3>2
  <2>6. HeadersSplit(v) /\ LeftWhole(v)
    BY <2>3, <2>5 DEF HeadersSplit, LeftWhole
  <2>7. PathLeads(v, root)
    <3>1. root \in v.headers /\ 1..Len(v.path) - 1 = {} /\ 1..Len(v.path) = {1}
      BY <2>3, <2>4
    <3> QED BY <2>4, <3>1 DEF PathLeads
  <2>8. FollowedFit(v)
    BY <2>3 DEF FollowedFit
  <2>9. BudgetsKept(v, root)
    <3>1. /\ Cardinality({root}) = 1 /\ MaxClosure \in Nat \ {0} /\ MaxLayers \in Nat \ {0}
          /\ MaxAndParents \in Nat /\ MaxClosureEdges \in Nat
      <4>1. IsFiniteSet({}) /\ Cardinality({}) = 0
        BY FS_EmptySet
      <4>2. Cardinality({} \cup {root}) = 0 + 1
        BY <4>1, OneMore
      <4>3. {} \cup {root} = {root}
        OBVIOUS
      <4> QED BY <4>2, <4>3, ImplementsAssumption
    <3>2. Cardinality(derivations[root]) \in Nat /\ Cardinality(EdgesAmong({root})) \in Nat
      BY EdgesAre DEF Grounded
    <3>3. /\ ~ SourceClaim(root)
          /\ Cardinality(derivations[root]) <= MaxAndParents
          /\ Cardinality(EdgesAmong({root})) <= MaxClosureEdges
      BY <1>3, <3>1, <3>2, FirstRefused
    <3>4. \A i \in 1..Len(v.path) : i <= MaxLayers + 1 /\ (~ SourceClaim(v.path[i]) => i <= MaxLayers)
      BY <2>4, <3>1
    <3> QED BY <2>3, <3>1, <3>3, <3>4 DEF BudgetsKept
  <2>10. BelowRoot(v, root)
    <3>1. root \in Ancestors(root) /\ Layers[root] \in Nat
      BY AncestorsAre, LayersGo
    <3>2. \A i \in 1..Len(v.path) : i = 1
      BY <2>4
    <3>3. \A i \in 1..Len(v.path) : i - 1 + Layers[v.path[i]] <= Layers[root]
      BY <2>4, <3>1, <3>2
    <3> QED BY <2>3, <3>1, <3>3 DEF BelowRoot
  <2>11. StepsCounted(0, v)
    <3>1. Cardinality({}) = 0
      BY FS_EmptySet
    <3> QED BY <2>3, <3>1 DEF StepsCounted
  <2> QED BY <1>3, <2>1, <2>2, <2>3, <2>6, <2>7, <2>8, <2>9, <2>10, <2>11 DEF WalkInv
<1> QED BY <1>2, <1>3

\* What a walk from root may be.
WalkSound(w, root) == w \in WalkRow /\ (w.ok => WalkInv(w, root))

LEMMA AdvanceSound ==
    ASSUME Grounded, NEW root \in DOMAIN derivations, NEW w, WalkSound(w, root)
    PROVE  WalkSound(Advance(w), root)
<1>1. CASE ~ w.ok
  BY <1>1 DEF Advance, WalkSound
<1>2. CASE w.ok
  <2> DEFINE n == Last(w.path)
             p == Min(Due(w, n))
             u == Follow(w, n, p)
  <2>1. WalkInv(w, root) /\ w \in WalkRow
    BY <1>2 DEF WalkSound
  <2>2. Advance(w) \in WalkRow
    <3>1. CASE w.path = << >>
      BY <2>1, <3>1 DEF Advance
    <3>2. CASE w.path # << >> /\ Due(w, n) = {}
      <4>1. Advance(w) = Leave(w, n)
        BY <1>2, <3>2 DEF Advance
      <4> QED BY <2>1, <3>2, <4>1, LeaveTop DEF WalkInv
    <3>3. CASE w.path # << >> /\ Due(w, n) # {}
      <4>1. p \in DOMAIN derivations /\ n \in DOMAIN derivations
        BY <2>1, <3>3, DueTyped, AtTop
      <4>2. Advance(w) = Visit(u, p)
        BY <1>2, <3>3 DEF Advance
      <4> HIDE DEF n, p
      <4>3. u \in WalkRow
        BY <2>1, <4>1, FollowFields DEF Followed
      <4> HIDE DEF u
      <4>4. Refuse(u) \in WalkRow /\ Enter(u, p) \in WalkRow
        BY <4>1, <4>3, RefuseFields, EnterFields
      <4> QED BY <4>2, <4>3, <4>4 DEF Visit
    <3> QED BY <3>1, <3>2, <3>3
  <2>3. ASSUME Advance(w).ok PROVE WalkInv(Advance(w), root)
    <3> DEFINE k == Cardinality(w.followed) + Cardinality(DOMAIN w.heights)
    <3>1. k \in Nat /\ StepsCounted(k, w)
      BY <2>1, CountsTyped DEF StepsCounted
    <3> HIDE DEF k
    <3> QED BY <2>1, <2>3, <3>1, AdvanceKeeps
  <2> QED BY <2>2, <2>3 DEF WalkSound
<1> QED BY <1>1, <1>2

IsWalk(f) ==
    f = [k \in Nat |-> [root \in DOMAIN derivations |->
            IF k = 0 THEN Visit(NoWalk, root) ELSE Advance(f[k - 1][root])]]
SoundWalks == {f \in [DOMAIN derivations -> WalkRow] : \A root \in DOMAIN derivations : WalkSound(f[root], root)}

LEMMA WalkUnfolds ==
    ASSUME Grounded
    PROVE  /\ Walk \in [Nat -> SoundWalks]
           /\ \A root \in DOMAIN derivations : Walk[0][root] = Visit(NoWalk, root)
           /\ \A k \in Nat : k # 0 =>
                \A root \in DOMAIN derivations : Walk[k][root] = Advance(Walk[k - 1][root])
<1> DEFINE S == SoundWalks
           base == [root \in DOMAIN derivations |-> Visit(NoWalk, root)]
           G == [f \in S |-> [root \in DOMAIN derivations |-> Advance(f[root])]]
<1>1. base \in S
  BY WalkBegins DEF SoundWalks, WalkSound
<1>2. G \in [S -> S]
  <2>1. ASSUME NEW f \in S PROVE [root \in DOMAIN derivations |-> Advance(f[root])] \in S
    <3>1. \A root \in DOMAIN derivations : WalkSound(Advance(f[root]), root)
      BY AdvanceSound DEF SoundWalks
    <3> QED BY <3>1 DEF SoundWalks, WalkSound
  <2> HIDE DEF S
  <2> QED BY <2>1
<1>3. PICK f \in [Nat -> S] : f[0] = base /\ \A k \in Nat : k # 0 => f[k] = G[f[k - 1]]
  <2> HIDE DEF S, base, G
  <2> QED BY <1>1, <1>2, Iterates
<1>4. \A k \in Nat : k # 0 => f[k - 1] \in S /\ k - 1 \in Nat
  OBVIOUS
<1>5. \A k \in Nat : k # 0 => f[k] = [root \in DOMAIN derivations |-> Advance(f[k - 1][root])]
  <2> HIDE DEF S
  <2> QED BY <1>3, <1>4
<1>6. ASSUME NEW k \in Nat
      PROVE f[k] = [root \in DOMAIN derivations |-> IF k = 0 THEN Visit(NoWalk, root) ELSE Advance(f[k - 1][root])]
  BY <1>3, <1>5
<1>7. IsWalk(f)
  BY <1>3, <1>6 DEF IsWalk
<1>8. Walk = CHOOSE g : IsWalk(g)
  BY DEF Walk, IsWalk
<1>9. IsWalk(Walk)
  BY <1>7, <1>8
<1>10. \A k \in Nat : Walk[k] = [root \in DOMAIN derivations |->
                          IF k = 0 THEN Visit(NoWalk, root) ELSE Advance(Walk[k - 1][root])]
  BY <1>9 DEF IsWalk
<1>11. Walk[0] = base
  BY <1>10
<1>12. \A k \in Nat : k # 0 => Walk[k] = [root \in DOMAIN derivations |-> Advance(Walk[k - 1][root])]
  BY <1>10
<1>13. \A k \in Nat : Walk[k] \in S
  <2> DEFINE bad == {k \in Nat : Walk[k] \notin S}
  <2>1. ASSUME bad # {} PROVE FALSE
    <3>1. PICK k \in bad : \A l \in bad : k <= l
      BY <2>1, LeastOfNats
    <3>2. k # 0
      BY <1>1, <1>11
    <3>3. k - 1 \in Nat /\ ~ (k <= k - 1)
      BY <3>2
    <3>4. Walk[k - 1] \in S
      BY <3>1, <3>3
    <3>5. G[Walk[k - 1]] \in S
      <4> HIDE DEF S, G
      <4> QED BY <1>2, <3>4
    <3>6. G[Walk[k - 1]] = [root \in DOMAIN derivations |-> Advance(Walk[k - 1][root])]
      <4> HIDE DEF S
      <4> QED BY <3>4
    <3>7. Walk[k] = G[Walk[k - 1]]
      BY <1>12, <3>2, <3>6
    <3> QED BY <3>5, <3>7
  <2> QED BY <2>1
<1>14. Walk = [k \in Nat |-> Walk[k]]
  BY <1>9 DEF IsWalk
<1>15. Walk \in [Nat -> S]
  <2> HIDE DEF S
  <2> QED BY <1>13, <1>14
<1> QED BY <1>11, <1>12, <1>15

\* A walk counts its steps, and comes to its end.
LEMMA WalkCounts ==
    ASSUME Grounded, NEW root \in DOMAIN derivations, NEW k \in Nat
    PROVE  Walk[k][root].ok => WalkInv(Walk[k][root], root) /\ StepsCounted(k, Walk[k][root])
<1> DEFINE Good(j) == Walk[j][root].ok => WalkInv(Walk[j][root], root) /\ StepsCounted(j, Walk[j][root])
           bad == {j \in Nat : ~ Good(j)}
<1>1. ASSUME bad # {} PROVE FALSE
  <2>1. PICK j \in bad : \A l \in bad : j <= l
    BY <1>1, LeastOfNats
  <2>2. j # 0
    BY WalkBegins, WalkUnfolds
  <2>3. j - 1 \in Nat /\ ~ (j <= j - 1) /\ j - 1 + 1 = j
    BY <2>2
  <2>4. Good(j - 1)
    BY <2>1, <2>3
  <2>5. PICK w : w = Walk[j - 1][root]
    OBVIOUS
  <2>6. Walk[j][root] = Advance(w) /\ WalkSound(w, root) /\ Advance(w).ok
    BY <2>2, <2>3, <2>5, WalkUnfolds DEF SoundWalks
  <2>7. w.ok
    BY <2>6 DEF Advance
  <2>8. WalkInv(w, root) /\ StepsCounted(j - 1, w)
    BY <2>4, <2>5, <2>7
  <2>9. WalkInv(Advance(w), root) /\ StepsCounted(j - 1 + 1, Advance(w))
    BY <2>3, <2>6, <2>8, AdvanceKeeps
  <2>10. Good(j)
    BY <2>3, <2>6, <2>9
  <2> QED BY <2>10
<1> QED BY <1>1

LEMMA NeverRefused ==
    ASSUME Grounded, NEW root \in DOMAIN derivations, WithinBounds(root), NEW k \in Nat
    PROVE  Walk[k][root].ok
<1> DEFINE bad == {j \in Nat : ~ Walk[j][root].ok}
<1>1. ASSUME bad # {} PROVE FALSE
  <2>1. PICK j \in bad : \A l \in bad : j <= l
    BY <1>1, LeastOfNats
  <2>2. CASE j = 0
    <3>1. root \in Ancestors(root) /\ Ancestors(root) \in SUBSET DOMAIN derivations /\ {root} \in SUBSET Ancestors(root)
      BY AncestorsAre
    <3>2. /\ ~ SourceClaim(root) /\ Cardinality(derivations[root]) <= MaxAndParents
          /\ Cardinality(EdgesAmong(Ancestors(root))) <= MaxClosureEdges
      BY <3>1 DEF WithinBounds
    <3>3. Cardinality(EdgesAmong({root})) <= Cardinality(EdgesAmong(Ancestors(root)))
      BY <3>1, EdgesGrow
    <3>4. /\ Cardinality(derivations[root]) \in Nat /\ Cardinality(EdgesAmong({root})) \in Nat
          /\ Cardinality(EdgesAmong(Ancestors(root))) \in Nat /\ MaxAndParents \in Nat /\ MaxClosureEdges \in Nat
      BY <3>1, EdgesAre, ImplementsAssumption DEF Grounded
    <3>5. ~ (Cardinality(derivations[root]) > MaxAndParents) /\ ~ (Cardinality(EdgesAmong({root})) > MaxClosureEdges)
      BY <3>2, <3>3, <3>4
    <3>6. ~ RefusedFirst(NoWalk, root)
      BY <3>2, <3>5, FirstRefused
    <3>7. Visit(NoWalk, root).ok
      BY <3>6, WalkBegins
    <3> QED BY <2>2, <3>7, WalkUnfolds
  <2>3. CASE j # 0
    <3>1. j - 1 \in Nat /\ ~ (j <= j - 1)
      BY <2>3
    <3>2. Walk[j - 1][root].ok
      BY <2>1, <3>1
    <3>3. WalkInv(Walk[j - 1][root], root)
      BY <3>1, <3>2, WalkCounts
    <3>4. Advance(Walk[j - 1][root]).ok
      BY <3>2, <3>3, NothingRefused
    <3> QED BY <2>3, <3>4, WalkUnfolds
  <2> QED BY <2>2, <2>3
<1> QED BY <1>1

\* Whatever the order of the parents: the walk of a claim is refused exactly
\* if its ancestry is not within the bounds, and has read that ancestry otherwise.
LEMMA WalkIsExact ==
    ASSUME Grounded, NEW root \in DOMAIN derivations
    PROVE  /\ Closure(root).ok <=> WithinBounds(root)
           /\ Closure(root).ok => Closure(root).headers = Ancestors(root)
<1> DEFINE F == MaxClosureEdges + MaxClosure
<1>1. F \in Nat /\ MaxClosureEdges \in Nat /\ MaxClosure \in Nat
  BY ImplementsAssumption
<1>2. PICK w : w = Walk[F][root]
  OBVIOUS
<1>3. Closure(root) = w /\ WalkSound(w, root)
  BY <1>1, <1>2, WalkUnfolds DEF Closure, SoundWalks
<1>4. WithinBounds(root) => w.ok
  BY <1>1, <1>2, NeverRefused
<1>5. ASSUME w.ok PROVE WithinBounds(root) /\ w.headers = Ancestors(root)
  <2>1. WalkInv(w, root) /\ StepsCounted(F, w)
    BY <1>1, <1>2, <1>5, WalkCounts
  <2>2. w \in WalkRow /\ HeadersSplit(w) /\ LeftWhole(w) /\ BudgetsKept(w, root) /\ PathLeads(w, root)
        /\ FollowedFit(w) /\ BelowRoot(w, root)
    BY <2>1 DEF WalkInv
  <2>3. w.headers \in SUBSET DOMAIN derivations /\ w.followed \subseteq EdgesAmong(w.headers)
    BY <2>2, WalkTyped DEF FollowedFit
  <2>4. /\ IsFiniteSet(w.headers) /\ IsFiniteSet(EdgesAmong(w.headers))
        /\ Cardinality(w.headers) \in Nat /\ Cardinality(EdgesAmong(w.headers)) \in Nat
    BY <2>3, EdgesAre
  <2>5. Cardinality(w.headers) <= MaxClosure /\ Cardinality(EdgesAmong(w.headers)) <= MaxClosureEdges
    BY <2>2 DEF BudgetsKept
  <2>6. /\ IsFiniteSet(w.followed) /\ Cardinality(w.followed) \in Nat
        /\ IsFiniteSet(DOMAIN w.heights) /\ Cardinality(DOMAIN w.heights) \in Nat
    BY <2>2, CountsTyped
  <2>7. w.path = << >>
    <3> SUFFICES ASSUME w.path # << >> PROVE FALSE
      OBVIOUS
    <3> DEFINE n == Last(w.path)
    <3>1. F = Cardinality(w.followed) + Cardinality(DOMAIN w.heights)
      BY <2>1 DEF StepsCounted
    <3>2. Cardinality(w.followed) <= Cardinality(EdgesAmong(w.headers))
      BY <2>3, <2>4, FS_Subset
    <3>3. n \in w.headers /\ n \notin DOMAIN w.heights
      BY <2>1, AtTop
    <3> HIDE DEF n
    <3>4. DOMAIN w.heights \cup {n} \in SUBSET w.headers
      BY <2>2, <3>3 DEF HeadersSplit
    <3>5. Cardinality(DOMAIN w.heights \cup {n}) <= Cardinality(w.headers)
      BY <2>4, <3>4, FS_Subset
    <3>6. Cardinality(DOMAIN w.heights \cup {n}) = Cardinality(DOMAIN w.heights) + 1
      BY <2>6, <3>3, OneMore
    <3> QED BY <1>1, <2>4, <2>5, <2>6, <3>1, <3>2, <3>5, <3>6
  <2>8. w.headers = DOMAIN w.heights
    <3>1. Range(w.path) = {}
      BY <2>7 DEF Range
    <3> QED BY <2>2, <3>1 DEF HeadersSplit
  <2>9. Ancestors(root) = w.headers
    <3>1. \A m \in w.headers : derivations[m] \subseteq w.headers
      BY <2>2, <2>8 DEF LeftWhole
    <3>2. root \in w.headers
      BY <2>2 DEF PathLeads
    <3>3. Ancestors(root) \subseteq w.headers
      BY <2>3, <3>1, <3>2, AncestorsAre
    <3> QED BY <2>2, <3>3 DEF BelowRoot
  <2>10. Layers[root] <= MaxLayers
    BY <2>2, <2>8 DEF BudgetsKept, PathLeads
  <2> QED BY <2>2, <2>5, <2>9, <2>10 DEF WithinBounds, BudgetsKept
<1> QED BY <1>3, <1>4, <1>5

-----------------------------------------------------------------------------
(* What a review shows.                                                       *)

\* The second check accepts what the walk accepts.
LEMMA SealAccepts ==
    ASSUME Grounded, NEW root \in DOMAIN derivations, WithinBounds(root)
    PROVE  LET nodes == Ancestors(root) IN SealedBasis(root, nodes, DerivedAmong(nodes))
<1> DEFINE nodes == Ancestors(root)
<1>1. /\ root \in nodes /\ nodes \in SUBSET DOMAIN derivations
      /\ \A n \in nodes : derivations[n] \subseteq nodes
      /\ \A S \in SUBSET DOMAIN derivations :
           root \in S /\ (\A m \in S : derivations[m] \subseteq S) => nodes \subseteq S
  BY AncestorsAre
<1>2. /\ IsFiniteSet(nodes) /\ Cardinality(nodes) \in Nat
      /\ Cardinality(nodes) <= MaxClosure /\ Cardinality(EdgesAmong(nodes)) <= MaxClosureEdges
      /\ \A n \in nodes : Cardinality(derivations[n]) <= MaxAndParents
      /\ ~ SourceClaim(root) /\ Layers[root] <= MaxLayers
  BY <1>1, EdgesAre DEF WithinBounds
<1>3. Layers[root] \in Nat /\ Layers[root] > 0 /\ \A p \in derivations[root] : Layers[p] < Layers[root]
  BY <1>2, LayersGo
<1>4. Cardinality(nodes) >= 2
  <2>1. PICK p \in derivations[root] : TRUE
    BY <1>2 DEF SourceClaim
  <2>2. p \in nodes /\ p # root
    BY <1>1, <1>3
  <2>3. IsFiniteSet({root}) /\ Cardinality({root}) = 1 /\ p \notin {root}
    BY <2>2, FS_Singleton
  <2>4. Cardinality({root} \cup {p}) = Cardinality({root}) + 1
    BY ONLY <2>3, OneMore, Zenon
  <2>5. {root} \cup {p} \subseteq nodes
    BY <1>1, <2>2
  <2>6. Cardinality({root} \cup {p}) <= Cardinality(nodes)
    BY <1>2, <2>5, FS_Subset
  <2>7. Cardinality(nodes) >= Cardinality({root} \cup {p})
    <3> HIDE DEF nodes
    <3> QED BY <1>2, <2>3, <2>4, <2>6
  <2> QED BY <2>3, <2>4, <2>7
<1>5. SealedBounds(nodes)
  BY <1>2, <1>4, ImplementsAssumption DEF SealedBounds
<1>6. Reached(nodes, root) = nodes
  <2>1. ASSUME NEW n \in nodes, NEW S \in SUBSET nodes, root \in S, \A m \in S : derivations[m] \cap nodes \subseteq S
        PROVE  n \in S
    <3>1. \A m \in S : derivations[m] \subseteq S
      BY <1>1, <2>1
    <3>2. S \in SUBSET DOMAIN derivations
      BY <1>1
    <3> QED BY <1>1, <2>1, <3>1, <3>2
  <2> HIDE DEF nodes
  <2> QED BY <2>1 DEF Reached
<1>7. SealedClosure(root, nodes)
  BY <1>1, <1>2, <1>3, <1>6, ImplementsAssumption DEF SealedClosure
<1> QED BY <1>5, <1>7 DEF SealedBasis, RulesExact

\* Fewer nodes than the report holds outrank the reviewed one, which is one of them.
LEMMA ReportKeeps ==
    ASSUME NEW nodes, IsFiniteSet(nodes), NEW root \in nodes, Cardinality(nodes) <= MaxClosure,
           root \in Nat, MethodStrength(root) > 0, MentionsOf[root].terms \in Nat
    PROVE  InReport(root, nodes)
<1> DEFINE above == {m \in nodes : MethodStrength(m) > 0 /\ Outranks(m, root)}
<1>1. ~ Outranks(root, root)
  <2>1. \A i \in 1..3 : Rank(root)[i] \in Int
    BY DEF Rank, MethodStrength
  <2>2. \A i \in 1..3 : ~ (Rank(root)[i] < Rank(root)[i])
    BY <2>1
  <2> QED BY <2>2 DEF Outranks
<1>2. above \in SUBSET (nodes \ {root})
  BY <1>1
<1>3. /\ IsFiniteSet(nodes \ {root}) /\ Cardinality(nodes) \in Nat
      /\ Cardinality(nodes \ {root}) = Cardinality(nodes) - 1
  BY FS_RemoveElement, FS_CardinalityType
<1>4. IsFiniteSet(above) /\ Cardinality(above) \in Nat /\ Cardinality(above) <= Cardinality(nodes \ {root})
  <2> HIDE DEF above
  <2> QED BY <1>2, <1>3, FS_Subset, FS_CardinalityType
<1>5. Cardinality(above) < MaxClosure
  <2> HIDE DEF above
  <2> QED BY <1>3, <1>4, ImplementsAssumption
<1> QED BY <1>5 DEF InReport

\* A review shows the whole ancestry of a claim within the bounds, or nothing.
Shown(root, rules) ==
    IF WithinBounds(root) /\ rules = DerivedAmong(Ancestors(root)) /\ MethodStrength(root) > 0
      THEN Ancestors(root) ELSE {}

ReviewsShow == \A root \in DOMAIN derivations : \A rules : Review(root, rules) = Shown(root, rules)

LEMMA BoundsFit ==
    ASSUME Grounded, NEW root \in DOMAIN derivations, WithinBounds(root), MethodStrength(root) > 0
    PROVE  InReport(root, Ancestors(root))
<1>1. PICK nodes : nodes = Ancestors(root)
  OBVIOUS
<1>2. root \in nodes /\ nodes \in SUBSET DOMAIN derivations /\ Cardinality(nodes) <= MaxClosure
  BY <1>1, AncestorsAre DEF WithinBounds
<1>3. IsFiniteSet(nodes)
  BY <1>2, EdgesAre
<1>4. root \in SpecNodes /\ root \in Nat /\ MentionsOf[root].terms \in Nat
  BY ImplementsAssumption DEF Grounded
<1> QED BY <1>1, <1>2, <1>3, <1>4, ReportKeeps

LEMMA ReviewIs == Grounded => ReviewsShow
<1> SUFFICES ASSUME Grounded, NEW root \in DOMAIN derivations, NEW rules
             PROVE  Review(root, rules) = Shown(root, rules)
  BY DEF ReviewsShow
<1>1. PICK w : w = Closure(root)
  OBVIOUS
<1>2. (w.ok <=> WithinBounds(root)) /\ (w.ok => w.headers = Ancestors(root))
  BY <1>1, WalkIsExact
<1>3. Review(root, rules) =
        IF w.ok /\ SealedBasis(root, w.headers, rules) /\ InReport(root, w.headers) THEN w.headers ELSE {}
  BY <1>1 DEF Review
<1>4. CASE ~ WithinBounds(root)
  BY <1>2, <1>3, <1>4 DEF Shown
<1>5. CASE WithinBounds(root)
  <2>1. SealedBasis(root, Ancestors(root), DerivedAmong(Ancestors(root)))
    BY <1>5, SealAccepts
  <2>2. SealedBasis(root, Ancestors(root), rules) <=> rules = DerivedAmong(Ancestors(root))
    BY <2>1 DEF SealedBasis, RulesExact
  <2>3. InReport(root, Ancestors(root)) <=> MethodStrength(root) > 0
    BY <1>5, BoundsFit DEF InReport
  <2> QED BY <1>2, <1>3, <1>5, <2>2, <2>3 DEF Shown
<1> QED BY <1>4, <1>5

-----------------------------------------------------------------------------
(* A claim that is admitted changes no review of those before it.             *)

\* What is true of every claim, to be cited of the next state too.
AncestriesHold ==
    \A root \in DOMAIN derivations :
        /\ root \in Ancestors(root) /\ Ancestors(root) \subseteq DOMAIN derivations
        /\ \A n \in Ancestors(root) : derivations[n] \subseteq Ancestors(root)
        /\ \A S \in SUBSET DOMAIN derivations :
             root \in S /\ (\A m \in S : derivations[m] \subseteq S) => Ancestors(root) \subseteq S

LEMMA AncestriesAre == Grounded => AncestriesHold
  BY AncestorsAre DEF AncestriesHold

Above(parents, f) == IF parents = {} THEN 0 ELSE 1 + Max({f[p] : p \in parents})

LEMMA AboveIs ==
    ASSUME NEW parents, IsFiniteSet(parents), NEW f, \A p \in parents : f[p] \in Nat
    PROVE  Above(parents, f) \in Nat
<1> DEFINE heights == {f[p] : p \in parents}
<1>1. CASE parents = {}
  BY <1>1 DEF Above
<1>2. CASE parents # {}
  <2>1. heights \in SUBSET Nat /\ heights # {}
    BY <1>2
  <2>2. IsFiniteSet(heights)
    <3> DEFINE g == [p \in parents |-> f[p]]
    <3>1. g \in Surjection(parents, heights)
      BY DEF Surjection
    <3> QED BY <3>1, FS_Surjection
  <2>3. Max(heights) \in Nat
    <3> HIDE DEF heights
    <3>1. Max(heights) \in heights
      BY <2>1, <2>2, LargestIs
    <3> QED BY <2>1, <3>1
  <2> QED BY <1>2, <2>3 DEF Above
<1> QED BY <1>1, <1>2

\* What AdmitClaim does to the derivations.
Extends(n, parents) ==
    /\ DOMAIN derivations' = DOMAIN derivations \cup {n} /\ n \notin DOMAIN derivations
    /\ derivations'[n] = parents /\ parents \subseteq DOMAIN derivations
    /\ \A m \in DOMAIN derivations : derivations'[m] = derivations[m]

LEMMA AdmittedExtends ==
    ASSUME NEW n, NEW parents, AdmitClaim(n, parents)
    PROVE  Extends(n, parents)
  BY DEF AdmitClaim, Extends, With

LEMMA LayersExtend ==
    ASSUME Grounded, NEW n \in SpecNodes, NEW parents, Extends(n, parents)
    PROVE  \E g : IsLayers(g)' /\ \A m \in DOMAIN derivations : g[m] = Layers[m]
<1>0. PICK layers : layers = Layers
  OBVIOUS
<1>1. layers \in [DOMAIN derivations -> Nat] /\ \A m \in DOMAIN derivations : layers[m] = Height(m, layers)
  BY <1>0, LayersGo
<1>2. /\ DOMAIN derivations' = DOMAIN derivations \cup {n} /\ n \notin DOMAIN derivations
      /\ derivations'[n] = parents /\ parents \subseteq DOMAIN derivations
      /\ \A m \in DOMAIN derivations : derivations'[m] = derivations[m]
  BY DEF Extends
<1>3. IsFiniteSet(parents) /\ \A m \in DOMAIN derivations : derivations[m] \subseteq DOMAIN derivations
  BY <1>2, FS_Subset DEF Grounded
<1>4. PICK h : h = Above(parents, layers)
  OBVIOUS
<1>5. h \in Nat
  <2>1. \A p \in parents : layers[p] \in Nat
    BY <1>1, <1>2
  <2> QED BY <1>3, <1>4, <2>1, AboveIs
<1>6. PICK g : g = [m \in DOMAIN derivations \cup {n} |-> IF m = n THEN h ELSE layers[m]]
  OBVIOUS
<1>7. /\ g \in [DOMAIN derivations \cup {n} -> Nat] /\ g[n] = h
      /\ \A m \in DOMAIN derivations : g[m] = layers[m]
  BY <1>1, <1>2, <1>5, <1>6
<1>8. \A m : Height(m, g)' = Above(derivations'[m], g)
  BY DEF Height, SourceClaim, Above
<1>9. \A m : Height(m, layers) = Above(derivations[m], layers)
  BY DEF Height, SourceClaim, Above
<1>10. \A S \in SUBSET DOMAIN derivations : Above(S, g) = Above(S, layers)
  <2> SUFFICES ASSUME NEW S \in SUBSET DOMAIN derivations PROVE Above(S, g) = Above(S, layers)
    OBVIOUS
  <2>1. {g[p] : p \in S} = {layers[p] : p \in S}
    BY <1>7
  <2> QED BY <2>1 DEF Above
<1>11. ASSUME NEW m \in DOMAIN derivations' PROVE g[m] = Height(m, g)'
  <2>1. CASE m = n
    BY <1>2, <1>4, <1>7, <1>8, <1>10, <2>1
  <2>2. CASE m # n
    <3>1. m \in DOMAIN derivations /\ derivations'[m] = derivations[m] /\ derivations[m] \in SUBSET DOMAIN derivations
      BY <1>2, <1>3, <2>2
    <3>2. Height(m, g)' = Above(derivations[m], layers)
      BY <1>8, <1>10, <3>1
    <3> QED BY <1>1, <1>7, <1>9, <3>1, <3>2
  <2> QED BY <2>1, <2>2
<1>12. g \in [DOMAIN derivations' -> Nat]
  BY <1>2, <1>7
<1>13. IsLayers(g)'
  BY <1>11, <1>12 DEF IsLayers
<1> QED BY <1>0, <1>7, <1>13

LEMMA GroundExtends ==
    ASSUME Grounded, NEW n \in SpecNodes, NEW parents, Extends(n, parents)
    PROVE  Grounded'
<1>1. DOMAIN derivations' \subseteq SpecNodes /\ IsFiniteSet(DOMAIN derivations')
  <2>1. IsFiniteSet(DOMAIN derivations \cup {n})
    BY FS_AddElement DEF Grounded
  <2> QED BY <2>1 DEF Grounded, Extends
<1>2. \A m \in DOMAIN derivations' : derivations'[m] \subseteq DOMAIN derivations'
  BY DEF Grounded, Extends
<1>3. \E g : IsLayers(g)'
  BY LayersExtend
<1> QED BY <1>1, <1>2, <1>3 DEF Grounded

\* All of what a review is made from stays.
LEMMA ReviewStays ==
    ASSUME Grounded, NEW n \in SpecNodes, NEW parents, Extends(n, parents),
           NEW root \in DOMAIN derivations, NEW rules
    PROVE  Shown(root, rules)' = Shown(root, rules)
<1>0. Grounded' /\ AncestriesHold /\ AncestriesHold' /\ LayersAreUnique'
  <2>1. Grounded'
    BY GroundExtends
  <2>2. Grounded' => AncestriesHold' /\ LayersAreUnique'
    BY AncestriesAre, LayersUnique, PTL
  <2> QED BY <2>1, <2>2, AncestriesAre
<1>1. /\ DOMAIN derivations' = DOMAIN derivations \cup {n}
      /\ \A m \in DOMAIN derivations : derivations'[m] = derivations[m]
  BY DEF Extends
<1>2. PICK A, B : A = Ancestors(root) /\ B = Ancestors(root)'
  OBVIOUS
<1>3. /\ root \in A /\ A \subseteq DOMAIN derivations
      /\ \A m \in A : derivations[m] \subseteq A
      /\ \A S \in SUBSET DOMAIN derivations :
           root \in S /\ (\A m \in S : derivations[m] \subseteq S) => A \subseteq S
  BY <1>0, <1>2 DEF AncestriesHold
<1>4. /\ root \in B
      /\ \A m \in B : derivations'[m] \subseteq B
      /\ \A S \in SUBSET DOMAIN derivations' :
           root \in S /\ (\A m \in S : derivations'[m] \subseteq S) => B \subseteq S
  BY <1>0, <1>1, <1>2 DEF AncestriesHold
<1>5. B \subseteq A
  BY <1>1, <1>3, <1>4
<1>6. A \subseteq B
  <2>1. \A m \in B : derivations[m] \subseteq B
    BY <1>1, <1>3, <1>4, <1>5
  <2>2. B \in SUBSET DOMAIN derivations
    BY <1>3, <1>5
  <2> QED BY <1>3, <1>4, <2>1, <2>2
<1>7. A = B
  BY <1>5, <1>6
<1>8. \A m \in A : derivations'[m] = derivations[m]
  BY <1>1, <1>3
<1>9. EdgesAmong(B)' = EdgesAmong(A)
  BY <1>7, <1>8 DEF EdgesAmong
<1>10. DerivedAmong(B)' = DerivedAmong(A)
  BY <1>7, <1>8 DEF DerivedAmong, SourceClaim
<1>11. Layers'[root] = Layers[root]
  <2>1. PICK g : IsLayers(g)' /\ \A m \in DOMAIN derivations : g[m] = Layers[m]
    BY LayersExtend
  <2>2. Layers' = g
    BY <1>0, <2>1 DEF LayersAreUnique
  <2> QED BY <2>1, <2>2
<1>12. SourceClaim(root)' <=> SourceClaim(root)
  BY <1>1 DEF SourceClaim
<1>13. WithinBounds(root)' <=> WithinBounds(root)
  BY <1>2, <1>7, <1>8, <1>9, <1>11, <1>12 DEF WithinBounds
<1>14. EdgesAmong(Ancestors(root))' = EdgesAmong(B)' /\ DerivedAmong(Ancestors(root))' = DerivedAmong(B)'
  BY <1>2 DEF EdgesAmong, DerivedAmong
<1>15. MethodStrength(root)' = MethodStrength(root)
  BY DEF MethodStrength
<1> QED BY <1>2, <1>7, <1>10, <1>13, <1>14, <1>15 DEF Shown

LEMMA SameReview ==
    ASSUME Grounded, UNCHANGED derivations, NEW root \in DOMAIN derivations, NEW rules
    PROVE  Grounded' /\ Shown(root, rules)' = Shown(root, rules)
<1>1. PICK d : d = derivations /\ d = derivations'
  OBVIOUS
<1>2. \A f, m : Height(m, f)' = Height(m, f)
  BY DEF Height, SourceClaim
<1>3. \A f : IsLayers(f)' <=> IsLayers(f)
  BY <1>2 DEF IsLayers
<1>4. Grounded'
  BY <1>3 DEF Grounded
<1>5. Layers' = Layers
  <2>1. Grounded' => LayersAreUnique'
    BY LayersUnique, PTL
  <2>2. IsLayers(Layers)
    BY LayersUnique DEF LayersAreUnique
  <2>3. PICK f : f = Layers
    OBVIOUS
  <2>4. IsLayers(f)'
    BY <1>3, <2>2, <2>3
  <2> QED BY <1>4, <2>1, <2>3, <2>4 DEF LayersAreUnique
<1>6. Ancestors(root)' = Ancestors(root)
  BY DEF Ancestors, Reached
<1>7. /\ EdgesAmong(Ancestors(root))' = EdgesAmong(Ancestors(root))
      /\ DerivedAmong(Ancestors(root))' = DerivedAmong(Ancestors(root))
  BY <1>6 DEF EdgesAmong, DerivedAmong, SourceClaim
<1>8. WithinBounds(root)' <=> WithinBounds(root)
  BY <1>5, <1>6, <1>7 DEF WithinBounds, SourceClaim
<1>9. MethodStrength(root)' = MethodStrength(root)
  BY DEF MethodStrength
<1> QED BY <1>4, <1>6, <1>7, <1>8, <1>9 DEF Shown

\* A call in progress holds what the review of its pair still shows, and none has
\* been told that it changed.
HoldsReview(call) ==
    /\ call.phase \in {"ready", "open"} =>
         /\ call.want.pair \in DOMAIN derivations
         /\ call.want.receipt.shown = Shown(call.want.pair, call.want.receipt.rules)
    /\ call.phase = "answered" => call.result # "changed"

ReviewsHeld == \A a \in Approvers : HoldsReview(approvals[a])

ReviewInv == Grounded /\ ApprovalInv /\ ReviewsHeld

LEMMA OneCallHolds ==
    ASSUME ReviewInv, UNCHANGED derivations, NEW a \in Approvers, NEW row,
           approvals' = [approvals EXCEPT ![a] = row], HoldsReview(row)
    PROVE  ReviewsHeld'
<1> SUFFICES ASSUME NEW b \in Approvers PROVE HoldsReview(approvals[b])'
  BY DEF ReviewsHeld
<1>1. approvals'[b] = row \/ approvals'[b] = approvals[b]
  BY DEF ReviewInv, ApprovalInv
<1>2. PICK call : call = approvals'[b] /\ HoldsReview(call)
  BY <1>1 DEF ReviewInv, ReviewsHeld
<1>3. HoldsReview(call)'
  BY <1>2, SameReview DEF HoldsReview, ReviewInv
<1> QED BY <1>2, <1>3 DEF HoldsReview

LEMMA ReplyHolds ==
    ASSUME ReviewInv, UNCHANGED derivations, NEW a \in Approvers, NEW want, NEW result, NEW disturbed,
           Reply(a, want, result, disturbed), result # "changed"
    PROVE  ReviewsHeld'
<1> DEFINE row == [phase |-> "answered", want |-> want, result |-> result, disturbed |-> disturbed]
<1>1. approvals' = [approvals EXCEPT ![a] = row]
  BY DEF Reply
<1>2. row.phase = "answered" /\ row.result = result
  OBVIOUS
<1> HIDE DEF row
<1>3. HoldsReview(row)
  BY <1>2 DEF HoldsReview
<1> QED BY <1>1, <1>3, OneCallHolds

LEMMA LoadHolds ==
    ASSUME ReviewInv, UNCHANGED derivations, NEW a \in Approvers, NEW input,
           LoadReview(a, input, Review(input.root, input.rules))
    PROVE  ReviewsHeld'
<1>1. PICK shown : shown = Review(input.root, input.rules)
  OBVIOUS
<1>2. LoadReview(a, input, shown)
  BY <1>1
<1> DEFINE want == Authority(input, shown)
           row == [phase |-> "ready", want |-> want, attempt |-> 1, seen |-> {}, disturbed |-> FALSE]
<1>3. CASE shown = {}
  <2>1. Reply(a, want, "refused", FALSE)
    BY <1>2, <1>3 DEF LoadReview
  <2> HIDE DEF want
  <2> QED BY <2>1, ReplyHolds
<1>4. CASE shown # {}
  <2>1. approvals' = [approvals EXCEPT ![a] = row]
    BY <1>2, <1>4 DEF LoadReview
  <2>2. input.root \in DOMAIN derivations
    BY <1>1, <1>4 DEF Review
  <2>3. shown = Shown(input.root, input.rules)
    BY <1>1, <2>2, ReviewIs DEF ReviewsShow, ReviewInv
  <2>4. want.pair = input.root /\ want.receipt.shown = shown /\ want.receipt.rules = input.rules
    BY DEF Authority, Receipt
  <2> HIDE DEF want
  <2>5. row.phase = "ready" /\ row.want = want
    OBVIOUS
  <2> HIDE DEF row
  <2>6. HoldsReview(row)
    BY <2>2, <2>3, <2>4, <2>5 DEF HoldsReview
  <2> QED BY <2>1, <2>6, OneCallHolds
<1> QED BY <1>3, <1>4

LEMMA CallHolds ==
    ASSUME ReviewInv, NEW a \in Approvers, approvals[a].phase \in {"ready", "open"}
    PROVE  /\ CallUnderway(approvals[a], authorities)
           /\ Review(approvals[a].want.pair, approvals[a].want.receipt.rules) = approvals[a].want.receipt.shown
<1>1. CallUnderway(approvals[a], authorities)
  BY CallOpen DEF ReviewInv, ApprovalInv
<1>2. /\ approvals[a].want.pair \in DOMAIN derivations
      /\ approvals[a].want.receipt.shown = Shown(approvals[a].want.pair, approvals[a].want.receipt.rules)
  BY DEF ReviewInv, ReviewsHeld, HoldsReview
<1> QED BY <1>1, <1>2, ReviewIs DEF ReviewsShow, ReviewInv

LEMMA BeginHolds ==
    ASSUME ReviewInv, UNCHANGED derivations, NEW a \in Approvers, BeginApproval(a, Reloaded(a))
    PROVE  ReviewsHeld'
<1> DEFINE call == approvals[a]
           row == [call EXCEPT !.phase = "open", !.seen = authorities]
<1>1. call.phase = "ready"
  BY DEF BeginApproval
<1>2. CallUnderway(call, authorities) /\ Reloaded(a) = call.want.receipt.shown
  BY <1>1, CallHolds DEF Reloaded
<1>3. approvals' = [approvals EXCEPT ![a] = row]
  BY <1>2 DEF BeginApproval, Snapshot, ReviewInv, ApprovalInv
<1>4. row.phase = "open" /\ row.want = call.want
  BY <1>2 DEF CallUnderway
<1>5. HoldsReview(call)
  BY DEF ReviewInv, ReviewsHeld
<1> HIDE DEF row, call
<1>6. HoldsReview(row)
  BY <1>1, <1>4, <1>5 DEF HoldsReview
<1> QED BY <1>3, <1>6, OneCallHolds

LEMMA RetryHolds ==
    ASSUME ReviewInv, UNCHANGED derivations, NEW a \in Approvers, approvals[a].phase = "open",
           NEW disturbed, Retry(a, disturbed)
    PROVE  ReviewsHeld'
<1> DEFINE call == approvals[a]
           row == [call EXCEPT !.phase = "ready", !.attempt = @ + 1, !.disturbed = disturbed]
<1>1. CASE call.attempt = ApprovalAttempts
  <2>1. Reply(a, call.want, "failed", disturbed)
    BY <1>1 DEF Retry
  <2> HIDE DEF call
  <2> QED BY <2>1, ReplyHolds
<1>2. CASE call.attempt # ApprovalAttempts
  <2>1. approvals' = [approvals EXCEPT ![a] = row]
    BY <1>2 DEF Retry
  <2>2. CallUnderway(call, authorities) /\ HoldsReview(call)
    BY CallHolds DEF ReviewInv, ReviewsHeld
  <2>3. row.phase = "ready" /\ row.want = call.want
    BY <2>2 DEF CallUnderway
  <2>4. call.phase = "open"
    OBVIOUS
  <2> HIDE DEF row, call
  <2>5. HoldsReview(row)
    BY <2>2, <2>3, <2>4 DEF HoldsReview
  <2> QED BY <2>1, <2>5, OneCallHolds
<1> QED BY <1>1, <1>2

LEMMA CommitHolds ==
    ASSUME ReviewInv, UNCHANGED derivations, NEW a \in Approvers, CommitApproval(a)
    PROVE  ReviewsHeld'
<1>1. approvals[a].phase = "open"
  BY DEF CommitApproval
<1>2. CASE Retry(a, approvals[a].disturbed)
  BY <1>1, <1>2, RetryHolds
<1>3. ASSUME NEW result \in {"replayed", "conflict", "recorded"},
             Reply(a, approvals[a].want, result, approvals[a].disturbed)
      PROVE  ReviewsHeld'
  BY <1>3, ReplyHolds
<1> QED BY <1>2, <1>3 DEF CommitApproval

LEMMA AdmitHolds ==
    ASSUME ReviewInv, NEW n \in SpecNodes, NEW parents, AdmitClaim(n, parents)
    PROVE  Grounded' /\ ReviewsHeld'
<1>1. Extends(n, parents) /\ UNCHANGED approvals
  BY AdmittedExtends DEF AdmitClaim, approvalVars
<1>2. Grounded'
  BY <1>1, GroundExtends DEF ReviewInv
<1> SUFFICES ASSUME NEW a \in Approvers PROVE HoldsReview(approvals[a])'
  BY <1>2 DEF ReviewsHeld
<1>3. PICK call : call = approvals[a] /\ call = approvals'[a]
  BY <1>1
<1>4. HoldsReview(call)
  BY <1>3 DEF ReviewInv, ReviewsHeld
<1>5. DOMAIN derivations \subseteq DOMAIN derivations'
  BY <1>1 DEF Extends
<1>6. HoldsReview(call)'
  BY <1>1, <1>4, <1>5, ReviewStays DEF HoldsReview, ReviewInv
<1> QED BY <1>3, <1>6 DEF HoldsReview

ReviewsSpec == ImplementsInit(<< >>) /\ [][ImplementsAdmits \/ ImplementsApproves]_implementsVars

LEMMA ReviewStep == ReviewInv /\ [ImplementsAdmits \/ ImplementsApproves]_implementsVars => ReviewInv'
<1> SUFFICES ASSUME ReviewInv, [ImplementsAdmits \/ ImplementsApproves]_implementsVars PROVE ReviewInv'
  OBVIOUS
<1>1. ApprovalInv'
  <2>1. [ApprovalsNext]_approvalVars
    BY DEF ImplementsAdmits, AdmitClaim, ImplementsApproves, ApprovalsNext, implementsVars
  <2> QED BY <2>1, ApprovalStep DEF ReviewInv
<1>2. ASSUME UNCHANGED derivations PROVE Grounded'
  <2>1. \A f, m : Height(m, f)' = Height(m, f)
    BY <1>2 DEF Height, SourceClaim
  <2>2. \A f : IsLayers(f)' <=> IsLayers(f)
    BY <1>2, <2>1 DEF IsLayers
  <2> QED BY <1>2, <2>2 DEF Grounded, ReviewInv
<1>3. CASE UNCHANGED implementsVars
  <2>1. UNCHANGED <<derivations, approvals>>
    BY <1>3 DEF implementsVars, approvalVars
  <2>2. ASSUME NEW a \in Approvers PROVE HoldsReview(approvals[a])'
    <3>1. PICK call : call = approvals[a] /\ call = approvals'[a] /\ HoldsReview(call)
      BY <2>1 DEF ReviewInv, ReviewsHeld
    <3>2. HoldsReview(call)'
      BY <2>1, <3>1, SameReview DEF HoldsReview, ReviewInv
    <3> QED BY <3>1, <3>2 DEF HoldsReview
  <2> QED BY <1>1, <1>2, <2>1, <2>2 DEF ReviewInv, ReviewsHeld
<1>4. CASE ImplementsAdmits
  BY <1>1, <1>4, AdmitHolds DEF ImplementsAdmits, ReviewInv
<1>5. CASE ImplementsApproves
  <2>1. UNCHANGED derivations
    BY <1>5 DEF ImplementsApproves
  <2>2. ReviewsHeld'
    BY <1>5, <2>1, LoadHolds, BeginHolds, RetryHolds, CommitHolds DEF ImplementsApproves, DisturbApproval
  <2> QED BY <1>1, <1>2, <2>1, <2>2 DEF ReviewInv
<1> QED BY <1>3, <1>4, <1>5

LEMMA ReviewsBegin == ImplementsInit(<< >>) => ReviewInv
<1> SUFFICES ASSUME ImplementsInit(<< >>) PROVE ReviewInv
  OBVIOUS
<1>1. derivations = << >> /\ DOMAIN derivations = {} /\ ApprovalsInit
  BY DEF ImplementsInit
<1>2. Grounded
  <2>1. PICK f : f = [n \in {} |-> 0]
    OBVIOUS
  <2>2. IsLayers(f)
    BY <1>1, <2>1 DEF IsLayers
  <2>3. IsFiniteSet({})
    BY FS_EmptySet
  <2> QED BY <1>1, <2>2, <2>3 DEF Grounded
<1>3. ApprovalInv
  BY <1>1 DEF ApprovalsInit, ApprovalInv, Apart, CallTells
<1>4. ReviewsHeld
  BY <1>1 DEF ApprovalsInit, ReviewsHeld, HoldsReview, NoCall
<1> QED BY <1>2, <1>3, <1>4 DEF ReviewInv

\* Whatever claims are admitted over which, and in which order a walk visits and
\* shares their ancestors: it accepts exactly the derived claims whose whole ancestry
\* is within the bounds, and shows all of it; the second check and the report agree;
\* and no approval finds that its review has changed (derivationClosure,
\* validateRecursiveClosure, ProposeCandidates, admitReviewedRecursiveAttempt).
THEOREM ReviewsAreExact == ReviewsSpec => []ReviewsExact
<1>1. ReviewInv => ReviewsExact
  <2> SUFFICES ASSUME ReviewInv PROVE ReviewsExact
    OBVIOUS
  <2>1. ASSUME NEW root \in DOMAIN derivations
        PROVE  LET walk == Closure(root) IN
               /\ walk.ok <=> WithinBounds(root)
               /\ walk.ok => /\ walk.headers = Ancestors(root)
                             /\ SealedBasis(root, walk.headers, DerivedAmong(Ancestors(root)))
                             /\ MethodStrength(root) > 0 => InReport(root, walk.headers)
    <3>1. Grounded
      BY DEF ReviewInv
    <3>2. (Closure(root).ok <=> WithinBounds(root)) /\ (Closure(root).ok => Closure(root).headers = Ancestors(root))
      BY <3>1, WalkIsExact
    <3>3. WithinBounds(root) =>
            /\ SealedBasis(root, Ancestors(root), DerivedAmong(Ancestors(root)))
            /\ MethodStrength(root) > 0 => InReport(root, Ancestors(root))
      BY <3>1, SealAccepts, BoundsFit
    <3> QED BY <3>2, <3>3
  <2>2. \A a \in Approvers : approvals[a].phase = "answered" => approvals[a].result # "changed"
    BY DEF ReviewInv, ReviewsHeld, HoldsReview
  <2> QED BY <2>1, <2>2 DEF ReviewsExact
<1> QED BY <1>1, ReviewsBegin, ReviewStep, PTL DEF ReviewsSpec

=============================================================================

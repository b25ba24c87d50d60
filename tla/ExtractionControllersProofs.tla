-------------------- MODULE ExtractionControllersProofs --------------------
(***************************************************************************)
(* Theorems about ExtractionControllers for every number of streams,       *)
(* observations, claims and concurrent ticks, and every limit: what a      *)
(* batch of transitions leaves behind, and that the snapshot it works from *)
(* may be as old as it likes.                                              *)
(***************************************************************************)
EXTENDS ExtractionControllers, NaturalsInduction, WellFoundedInduction, TLAPS

By == Ticks \cup {Operator}
Transitions == {"recovery", "retry", "consumption"}

\* The tables keep their shape.  Nothing is needed of a tick: whatever candidates
\* its snapshot has, the transitions check each of them.
DatabaseInv == db \in Database

-----------------------------------------------------------------------------
(* One transition.                                                          *)

LEMMA ClaimParts ==
  ASSUME NEW c \in Claims
  PROVE  c[1] \in Works /\ c[2] \in 1..MaxClaims
BY DEF Claims

\* A release touches its own item and notes itself, and nothing else.
LEMMA ReleaseWrites ==
  ASSUME NEW d \in Database, NEW c \in Claims, NEW kind \in Transitions, NEW by \in By
  PROVE  LET e == Release(d, c, kind, by) IN
         /\ e \in Database
         /\ \A w \in Works : w # c[1] => e.status[w] = d.status[w]
         /\ e.status[c[1]] \in {"pending", "superseded"}
         /\ e.tries = d.tries /\ e.lapsed = d.lapsed /\ e.due = d.due
         /\ e.released = d.released \cup {[claim |-> c, by |-> by, kind |-> kind]}
<1> DEFINE to == IF InState(d, StreamOf(c[1]), "pending") = {} THEN "pending" ELSE "superseded"
           note == [claim |-> c, by |-> by, kind |-> kind]
<1>1. c[1] \in Works
  BY ClaimParts
<1>2. to \in {"pending", "superseded"}
  OBVIOUS
<1>3. note \in [claim : Claims, by : Ticks \cup {Operator}, kind : {"recovery", "retry", "consumption"}]
  BY DEF By, Transitions
<1>4. Release(d, c, kind, by) = [d EXCEPT !.status[c[1]] = to, !.released = @ \cup {note}]
  BY DEF Release
<1> HIDE DEF to, note
<1>5. [d.status EXCEPT ![c[1]] = to] \in [Works -> Status]
  BY <1>1, <1>2 DEF Database, Status
<1>6. Release(d, c, kind, by) =
        [status |-> [d.status EXCEPT ![c[1]] = to], tries |-> d.tries, lapsed |-> d.lapsed,
         due |-> d.due, released |-> d.released \cup {note}]
  BY <1>4 DEF Database
<1>7. Release(d, c, kind, by) \in Database
  BY <1>3, <1>5, <1>6 DEF Database
<1>8. Release(d, c, kind, by).status[c[1]] = to
      /\ \A w \in Works : w # c[1] => Release(d, c, kind, by).status[w] = d.status[w]
  BY <1>1, <1>6 DEF Database
<1> QED
  BY <1>2, <1>6, <1>7, <1>8 DEF note

\* A transition finds the claim as it has to be, whoever calls it.
LEMMA ReleasesOnlyHeld ==
  ASSUME NEW d, NEW c, NEW kind \in Transitions, MayRelease(d, c, kind)
  PROVE  /\ Holds(d, c, IF kind = "recovery" THEN "running" ELSE "failed")
         /\ kind = "recovery" => c \in ToSet(d.lapsed)
         /\ kind = "consumption" => c \in ToSet(d.due)
<1>1. CASE kind = "recovery"    BY <1>1 DEF MayRelease
<1>2. CASE kind = "retry"       BY <1>2 DEF MayRelease
<1>3. CASE kind = "consumption" BY <1>3 DEF MayRelease
<1> QED BY <1>1, <1>2, <1>3 DEF Transitions

-----------------------------------------------------------------------------
(* A batch.                                                                 *)

\* The part of a batch after k candidates, if f tells the parts before.
PartAfter(f, k) ==
    [p \in Ticks |-> [locked \in SUBSET Streams |->
        IF k = 0 THEN {db}
        ELSE IF k \notin DOMAIN Lockable(p, locked) THEN f[k - 1][p][locked]
        ELSE Advance(f[k - 1][p][locked], Lockable(p, locked)[k],
                     TransitionOf(tick[p].kind), p)]]

IsBatch(f, n) == f = [k \in 0..n |-> PartAfter(f, k)]

LEMMA LeastOf ==
  ASSUME NEW S \in SUBSET Nat, S # {}
  PROVE  \E n \in S : \A m \in S : n <= m
<1>1. PICK x \in S : \A y \in S : ~ (<<y, x>> \in OpToRel(<, Nat))
  BY NatLessThanWellFounded, WFMin
<1>2. ASSUME NEW y \in S PROVE x <= y
  <2>1. x \in Nat /\ y \in Nat
    OBVIOUS
  <2>2. ~ (y < x)
    BY <1>1, <2>1 DEF OpToRel
  <2> QED BY <2>1, <2>2
<1> QED BY <1>2

LEMMA PartsLookBack ==
  ASSUME NEW f, NEW g, NEW k \in Nat, k > 0 => f[k - 1] = g[k - 1]
  PROVE  PartAfter(f, k) = PartAfter(g, k)
BY DEF PartAfter

\* A batch cut after n candidates can be carried on by one more.
LEMMA BatchExtends ==
  ASSUME NEW n \in Nat, NEW f, n > 0 => IsBatch(f, n - 1)
  PROVE  \E g : IsBatch(g, n)
<1>1. PICK g : g = [k \in 0..n |-> IF k < n THEN f[k] ELSE PartAfter(f, n)]
  OBVIOUS
<1>2. ASSUME NEW k \in 0..n PROVE g[k] = PartAfter(g, k)
  <2>1. k \in Nat /\ (k > 0 => f[k - 1] = g[k - 1])
    <3>1. k > 0 => k - 1 \in 0..n /\ k - 1 < n
      OBVIOUS
    <3> QED BY <1>1, <3>1
  <2>2. PartAfter(f, k) = PartAfter(g, k)
    BY <2>1, PartsLookBack
  <2>3. g[k] = PartAfter(f, k)
    <3>1. CASE k = n
      BY <1>1, <3>1
    <3>2. CASE k < n
      <4>1. n > 0 /\ k \in 0..(n - 1)
        BY <3>2
      <4>2. f[k] = PartAfter(f, k)
        BY <4>1 DEF IsBatch
      <4> QED BY <1>1, <3>2, <4>2
    <3> QED BY <3>1, <3>2
  <2> QED BY <2>2, <2>3
<1>3. g = [k \in 0..n |-> PartAfter(g, k)]
  <2>1. DOMAIN g = 0..n /\ g = [k \in 0..n |-> g[k]]
    BY <1>1
  <2> QED BY <1>2, <2>1
<1> QED BY <1>3 DEF IsBatch

LEMMA BatchesExist ==
  ASSUME NEW n \in Nat
  PROVE  \E f : IsBatch(f, n)
<1> DEFINE S == {m \in Nat : ~ \E f : IsBatch(f, m)}
<1> SUFFICES ASSUME S # {} PROVE FALSE
  OBVIOUS
<1>1. PICK m \in S : \A l \in S : m <= l
  BY LeastOf
<1>2. m \in Nat /\ ~ \E f : IsBatch(f, m)
  OBVIOUS
<1>3. \E f : m > 0 => IsBatch(f, m - 1)
  <2>1. CASE m = 0
    BY <2>1
  <2>2. CASE m > 0
    <3>1. m - 1 \in Nat /\ ~ (m <= m - 1)
      BY <1>2, <2>2
    <3>2. m - 1 \notin S
      BY <1>1, <3>1
    <3> QED BY <3>1, <3>2
  <2> QED BY <1>2, <2>1, <2>2
<1> QED BY <1>2, <1>3, BatchExtends

LEMMA DoneUnfolds == IsBatch(Done, Limit)
<1>1. Limit \in Nat
  BY ControllerAssumption
<1>2. \E f : IsBatch(f, Limit)
  BY <1>1, BatchesExist
<1>3. Done = CHOOSE f : IsBatch(f, Limit)
  BY DEF Done, IsBatch, PartAfter
<1> QED BY <1>2, <1>3

-----------------------------------------------------------------------------
(* What a batch leaves behind.                                              *)

\* After some candidates: what has been released was held, and what is held was.
Harmless(d) ==
    /\ d \in Database /\ d.lapsed = db.lapsed /\ d.due = db.due
    /\ \A e \in d.released \ db.released :
         Holds(db, e.claim, IF e.kind = "recovery" THEN "running" ELSE "failed")
    /\ \A c \in Claims, status \in {"running", "failed"} :
         Holds(d, c, status) => Holds(db, c, status)

LEMMA ReleaseHarmless ==
  ASSUME NEW d, Harmless(d), NEW c \in Claims, NEW kind \in Transitions, NEW by \in By,
         MayRelease(d, c, kind)
  PROVE  Harmless(Release(d, c, kind, by))
<1>1. PICK e : e = Release(d, c, kind, by)
  OBVIOUS
<1>2. /\ e \in Database
      /\ \A w \in Works : w # c[1] => e.status[w] = d.status[w]
      /\ e.status[c[1]] \in {"pending", "superseded"}
      /\ e.tries = d.tries /\ e.lapsed = d.lapsed /\ e.due = d.due
      /\ e.released = d.released \cup {[claim |-> c, by |-> by, kind |-> kind]}
  BY <1>1, ReleaseWrites DEF Harmless
<1>3. Holds(db, c, IF kind = "recovery" THEN "running" ELSE "failed")
  BY ReleasesOnlyHeld DEF Harmless
<1>4. ASSUME NEW x \in e.released \ db.released
      PROVE  Holds(db, x.claim, IF x.kind = "recovery" THEN "running" ELSE "failed")
  <2>1. CASE x \in d.released
    BY <2>1 DEF Harmless
  <2>2. CASE x = [claim |-> c, by |-> by, kind |-> kind]
    BY <1>3, <2>2
  <2> QED BY <1>2, <2>1, <2>2
<1>5. ASSUME NEW x \in Claims, NEW status \in {"running", "failed"}, Holds(e, x, status)
      PROVE  Holds(db, x, status)
  <2>1. x[1] \in Works /\ x[1] # c[1]
    BY <1>2, <1>5, ClaimParts DEF Holds
  <2>2. Holds(d, x, status)
    BY <1>2, <1>5, <2>1 DEF Holds
  <2> QED BY <2>2 DEF Harmless
<1>6. Harmless(e)
  BY <1>2, <1>4, <1>5 DEF Harmless
<1> QED BY <1>1, <1>6

\* A transition of a tick finds its claim among those that lapsed or fell due.
LEMMA AdvanceHarmless ==
  ASSUME DatabaseInv, NEW ds, \A d \in ds : Harmless(d), NEW c, NEW p \in Ticks
  PROVE  \A d \in Advance(ds, c, TransitionOf(tick[p].kind), p) : Harmless(d)
<1>1. PICK kind : kind = TransitionOf(tick[p].kind)
  OBVIOUS
<1>2. kind \in {"recovery", "consumption"}
  BY <1>1 DEF TransitionOf
<1>3. ASSUME NEW d \in ds, MayRelease(d, c, kind)
      PROVE  Harmless(Release(d, c, kind, p))
  <2>1. c \in ToSet(d.lapsed) \/ c \in ToSet(d.due)
    BY <1>2, <1>3, ReleasesOnlyHeld DEF Transitions
  <2>2. d.lapsed \in Seq(Claims) /\ d.due \in Seq(Claims)
    BY DEF Harmless, Database
  <2>3. c \in Claims
    BY <2>1, <2>2 DEF ToSet
  <2> QED BY <1>2, <1>3, <2>3, ReleaseHarmless DEF Transitions, By
<1> QED BY <1>1, <1>3 DEF Advance

LEMMA BatchHarmless ==
  ASSUME DatabaseInv, NEW p \in Ticks, NEW locked \in SUBSET Streams
  PROVE  \A d \in AfterBatch(p, locked) : Harmless(d)
<1> DEFINE S == {k \in 0..Limit : ~ \A d \in Done[k][p][locked] : Harmless(d)}
<1>0. Limit \in Nat
  BY ControllerAssumption
<1>1. ASSUME S # {} PROVE FALSE
  <2>1. PICK k \in S : \A l \in S : k <= l
    <3>1. S \in SUBSET Nat
      BY <1>0
    <3> HIDE DEF S
    <3> QED BY <1>1, <3>1, LeastOf
  <2>2. k \in 0..Limit /\ ~ \A d \in Done[k][p][locked] : Harmless(d)
    OBVIOUS
  <2>3. Done[k] = PartAfter(Done, k)
    BY <2>2, DoneUnfolds DEF IsBatch
  <2>4. CASE k = 0
    <3>1. Done[k][p][locked] = {db}
      BY <2>3, <2>4 DEF PartAfter
    <3>2. Harmless(db)
      BY DEF Harmless, DatabaseInv
    <3> QED BY <2>2, <3>1, <3>2
  <2>5. CASE k > 0
    <3>1. k - 1 \in 0..Limit /\ ~ (k <= k - 1)
      BY <1>0, <2>2, <2>5
    <3>2. \A d \in Done[k - 1][p][locked] : Harmless(d)
      BY <2>1, <3>1
    <3>3. \/ Done[k][p][locked] = Done[k - 1][p][locked]
          \/ Done[k][p][locked] = Advance(Done[k - 1][p][locked], Lockable(p, locked)[k],
                                          TransitionOf(tick[p].kind), p)
      BY <2>3, <2>5 DEF PartAfter
    <3> QED BY <2>2, <3>2, <3>3, AdvanceHarmless
  <2> QED BY <1>0, <2>2, <2>4, <2>5
<1> QED BY <1>0, <1>1 DEF AfterBatch

-----------------------------------------------------------------------------
(* The steps.                                                               *)

LEMMA DatabaseInit == Init => DatabaseInv
<1> SUFFICES ASSUME Init PROVE DatabaseInv
  OBVIOUS
<1>1. [w \in Works |-> "absent"] \in [Works -> Status] /\ [w \in Works |-> 0] \in [Works -> 0..MaxClaims]
  BY ControllerAssumption DEF Status
<1> QED BY <1>1 DEF Init, DatabaseInv, Database

LEMMA OthersStep ==
  ASSUME DatabaseInv, ByOthers
  PROVE  /\ db' \in Database
         /\ \A e \in db'.released \ db.released :
              Holds(db, e.claim, IF e.kind = "recovery" THEN "running" ELSE "failed")
<1>0. db \in Database
  BY DEF DatabaseInv
<1>1. ASSUME NEW w \in Works, Schedule(w)
      PROVE  db' \in Database /\ db'.released = db.released
  <2>1. PICK st : st = [v \in Works |->
                CASE v = w -> "pending"
                  [] v \in InState(db, StreamOf(w), "pending") -> "superseded"
                  [] OTHER -> db.status[v]]
    OBVIOUS
  <2>2. st \in [Works -> Status]
    <3>1. \A v \in Works : db.status[v] \in Status
      BY <1>0 DEF Database
    <3>2. ASSUME NEW v \in Works PROVE st[v] \in {"pending", "superseded", db.status[v]}
      BY <2>1
    <3> QED BY <2>1, <3>1, <3>2 DEF Status
  <2>3. db' = [db EXCEPT !.status = st]
    BY <1>1, <2>1 DEF Schedule
  <2> QED BY <1>0, <2>2, <2>3 DEF Database
<1>2. ASSUME NEW w \in Works, Claim(w)
      PROVE  db' \in Database /\ db'.released = db.released
  <2>1. db.tries[w] \in 0..MaxClaims /\ db.tries[w] < MaxClaims /\ MaxClaims \in Nat
    BY <1>0, <1>2, ControllerAssumption DEF Database, Claim
  <2>2. [db.tries EXCEPT ![w] = @ + 1] \in [Works -> 0..MaxClaims]
    BY <1>0, <2>1 DEF Database
  <2>3. [db.status EXCEPT ![w] = "running"] \in [Works -> Status]
    BY <1>0 DEF Database, Status
  <2>4. db' = [status |-> [db.status EXCEPT ![w] = "running"], tries |-> [db.tries EXCEPT ![w] = @ + 1],
               lapsed |-> db.lapsed, due |-> db.due, released |-> db.released]
    BY <1>0, <1>2 DEF Database, Claim
  <2> QED BY <1>0, <2>2, <2>3, <2>4 DEF Database
<1>3. ASSUME NEW c \in Claims, NEW status \in {"succeeded", "failed"}, Finish(c, status)
      PROVE  db' \in Database /\ db'.released = db.released
  <2>1. c[1] \in Works
    BY ClaimParts
  <2>2. [db.status EXCEPT ![c[1]] = status] \in [Works -> Status]
    BY <1>0, <2>1 DEF Database, Status
  <2>3. db' = [status |-> [db.status EXCEPT ![c[1]] = status], tries |-> db.tries,
               lapsed |-> db.lapsed, due |-> db.due, released |-> db.released]
    BY <1>0, <1>3 DEF Database, Finish
  <2> QED BY <1>0, <2>2, <2>3 DEF Database
<1>4. ASSUME NEW c \in Claims, Renew(c)
      PROVE  db' \in Database /\ db'.released = db.released
  <2>1. PICK i \in DOMAIN db.lapsed : db' = [db EXCEPT !.lapsed = RemoveAt(@, i)]
    BY <1>4 DEF Renew
  <2>2. db.lapsed \in Seq(Claims) /\ i \in 1..Len(db.lapsed)
    BY <1>0 DEF Database
  <2>3. RemoveAt(db.lapsed, i) \in Seq(Claims)
    <3>1. SubSeq(db.lapsed, 1, i - 1) \in Seq(Claims) /\ SubSeq(db.lapsed, i + 1, Len(db.lapsed)) \in Seq(Claims)
      BY <2>2
    <3> QED BY <2>2, <3>1 DEF RemoveAt
  <2> QED BY <1>0, <2>1, <2>3 DEF Database
<1>5. ASSUME NEW c \in Claims, LeaseElapses(c) \/ DecisionFallsDue(c)
      PROVE  db' \in Database /\ db'.released = db.released
  <2>1. Append(db.lapsed, c) \in Seq(Claims) /\ Append(db.due, c) \in Seq(Claims)
    BY <1>0 DEF Database
  <2> QED BY <1>0, <1>5, <2>1 DEF Database, LeaseElapses, DecisionFallsDue
<1>6. ASSUME NEW c \in Claims, NEW kind \in Transitions, ReleaseByHand(c, kind)
      PROVE  /\ db' \in Database
             /\ \A e \in db'.released \ db.released :
                  Holds(db, e.claim, IF e.kind = "recovery" THEN "running" ELSE "failed")
  <2>1. MayRelease(db, c, kind) /\ db' = Release(db, c, kind, Operator) /\ Operator \in By
    BY <1>6 DEF ReleaseByHand, By
  <2>2. db' \in Database /\ db'.released = db.released \cup {[claim |-> c, by |-> Operator, kind |-> kind]}
    BY <1>0, <2>1, ReleaseWrites
  <2>3. Holds(db, c, IF kind = "recovery" THEN "running" ELSE "failed")
    BY <2>1, ReleasesOnlyHeld
  <2> QED BY <2>2, <2>3
<1> QED BY <1>1, <1>2, <1>3, <1>4, <1>5, <1>6 DEF ByOthers, Transitions

LEMMA BatchStep ==
  ASSUME DatabaseInv, NEW p \in Ticks, NEW locked \in SUBSET Streams, RunBatch(p, locked)
  PROVE  /\ db' \in Database
         /\ \A e \in db'.released \ db.released :
              Holds(db, e.claim, IF e.kind = "recovery" THEN "running" ELSE "failed")
<1>1. db' = db \/ db' \in AfterBatch(p, locked)
  BY DEF RunBatch
<1>2. db' = db \/ Harmless(db')
  BY <1>1, BatchHarmless
<1>3. CASE db' = db
  BY <1>3 DEF DatabaseInv
<1>4. CASE Harmless(db')
  BY <1>4 DEF Harmless
<1> QED BY <1>2, <1>3, <1>4

LEMMA ControllersStep ==
  ASSUME DatabaseInv, [Next]_vars
  PROVE  /\ DatabaseInv'
         /\ \A e \in db'.released \ db.released :
              Holds(db, e.claim, IF e.kind = "recovery" THEN "running" ELSE "failed")
<1>1. CASE ByOthers
  BY <1>1, OthersStep DEF DatabaseInv
<1>2. ASSUME NEW p \in Ticks, NEW locked \in SUBSET Streams, RunBatch(p, locked)
      PROVE  /\ DatabaseInv'
             /\ \A e \in db'.released \ db.released :
                  Holds(db, e.claim, IF e.kind = "recovery" THEN "running" ELSE "failed")
  BY <1>2, BatchStep DEF DatabaseInv
<1>3. ASSUME NEW p \in Ticks, Abort(p) \/ \E kind \in Kinds : TakeSnapshot(p, kind)
      PROVE  db' = db
  BY <1>3 DEF Abort, TakeSnapshot
<1>4. CASE db' = db
  BY <1>4 DEF DatabaseInv
<1> QED BY <1>1, <1>2, <1>3, <1>4 DEF Next, vars

\* However old the snapshot of a tick and however many items its batch has, the
\* tick releases only claims that are lost or failed when it commits, and so does
\* every call by hand (runExpiredRepositoryExtractionWorkMaintenanceTick,
\* RunRepositoryExtractionWorkRetryControllerTick): each transition looks at the
\* item again, and none makes another claim look lost.
THEOREM TicksTakeOnlyLostClaims == Spec => StaleSnapshotHarmless
<1> DEFINE A == \A e \in db'.released \ db.released :
                  Holds(db, e.claim, IF e.kind = "recovery" THEN "running" ELSE "failed")
<1>1. Spec => []DatabaseInv
  BY DatabaseInit, ControllersStep, PTL DEF Spec
<1>2. DatabaseInv /\ [Next]_vars => [A]_vars
  BY ControllersStep
<1>3. Spec => [][A]_vars
  BY <1>1, <1>2, PTL DEF Spec
<1> QED BY <1>3 DEF StaleSnapshotHarmless

=============================================================================

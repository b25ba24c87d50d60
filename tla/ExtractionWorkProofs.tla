------------------------ MODULE ExtractionWorkProofs ------------------------
(* Theorems about the repository extraction work queue, for any number of  *)
(* repositories, extractors, workers, observations and claims, any leases, *)
(* any age of the stamps and any bound of the clock.                       *)
EXTENDS ExtractionWork, FiniteSetTheorems, TLAPS

-----------------------------------------------------------------------------
(* Type correctness.  A renewal copies the attempt's lease into its audit   *)
(* row, a decision copies the failure of the attempt: that these columns    *)
(* are filled is RowChecks, so the two are proved together.                 *)

Typed == TypeOK /\ RowChecks

LEMMA StampIsTime == ASSUME now \in Time, NEW t \in Stamps PROVE t \in Time
  BY DEF Stamps, Time

\* The rows the operations write are rows of their tables.
LEMMA BlankRows ==
    /\ BlankWork \in WorkRow /\ WorkCheck(BlankWork)
    /\ BlankAttempt \in AttemptRow /\ AttemptCheck(BlankAttempt)
  BY NullAssumption DEF BlankWork, BlankAttempt, WorkRow, AttemptRow, Opt, WorkStatus,
                        AttemptStatus, WorkCheck, AttemptCheck

LEMMA PendingRow ==
    /\ [BlankWork EXCEPT !.status = "pending"] \in WorkRow
    /\ WorkCheck([BlankWork EXCEPT !.status = "pending"])
  BY BlankRows DEF BlankWork, WorkRow, Opt, WorkStatus, WorkCheck

LEMMA WorksNotNull == Null \notin Works
  BY NullAssumption DEF Works, Observations

LEMMA SupersededRow ==
    ASSUME NEW v \in Works
    PROVE  /\ [BlankWork EXCEPT !.status = "superseded", !.supersededBy = v] \in WorkRow
           /\ WorkCheck([BlankWork EXCEPT !.status = "superseded", !.supersededBy = v])
  BY BlankRows, WorksNotNull DEF BlankWork, WorkRow, Opt, WorkStatus, WorkCheck

LEMMA ReleasedRowType ==
    ASSUME NEW next \in Opt(Works)
    PROVE  ReleasedRow(next) \in WorkRow /\ WorkCheck(ReleasedRow(next))
<1>1. CASE next = Null
  BY <1>1, BlankRows DEF ReleasedRow, BlankWork, WorkRow, Opt, WorkStatus, WorkCheck
<1>2. CASE next # Null
  BY <1>2, BlankRows DEF ReleasedRow, BlankWork, WorkRow, Opt, WorkStatus, WorkCheck
<1> QED BY <1>1, <1>2

LEMMA TypeInit == Init => Typed
  BY BlankRows, BoundsAssumption DEF Init, Typed, TypeOK, RowChecks, Time

\* Steps that leave both tables alone need only their own types.
LEMMA ChecksStutter == ASSUME RowChecks, UNCHANGED <<work, attempt>> PROVE RowChecks'
  BY DEF RowChecks

LEMMA TypeTick == Typed /\ Tick => Typed'
  BY ChecksStutter DEF Typed, TypeOK, Tick, Time, auditVars

LEMMA TypeObserveChange ==
    ASSUME Typed, NEW r \in Repos, ObserveChange(r) PROVE Typed'
<1>1. latest' \in [Repos -> 0..MaxObservation]
  BY BoundsAssumption DEF Typed, TypeOK, ObserveChange
<1>2. stable' \in [Repos -> BOOLEAN]
  BY DEF Typed, TypeOK, ObserveChange
<1> QED BY <1>1, <1>2, ChecksStutter DEF Typed, TypeOK, ObserveChange, auditVars

LEMMA TypeObserveStable ==
    ASSUME Typed, NEW r \in Repos, ObserveStable(r) PROVE Typed'
  BY ChecksStutter DEF Typed, TypeOK, ObserveStable, auditVars

LEMMA TypeGeneration ==
    ASSUME Typed, NEW r \in Repos, NEW x \in Extractors, NEW o \in Observations,
           CreateGeneration(r, x, o)
    PROVE  Typed'
<1>1. HeadCommit[o] \in Commits
  BY ObservationAssumption DEF Observations
<1> QED BY <1>1, ChecksStutter DEF Typed, TypeOK, CreateGeneration, auditVars

LEMMA TypeSchedule ==
    ASSUME Typed, NEW r \in Repos, NEW x \in Extractors, Schedule(r, x) PROVE Typed'
<1> DEFINE w == <<r, x, latest[r]>>
<1>1. w \in Works
  BY ObservationAssumption DEF Schedule, Works, Observations
<1>2. \A v \in Works : work'[v] \in WorkRow /\ WorkCheck(work'[v])
  BY <1>1, PendingRow, SupersededRow DEF Schedule, Typed, TypeOK, RowChecks
<1>3. work' \in [Works -> WorkRow]
  BY <1>2 DEF Schedule, Typed, TypeOK
<1> QED BY <1>2, <1>3 DEF Typed, TypeOK, RowChecks, Schedule, envVars, auditVars

LEMMA TypeClaim ==
    ASSUME Typed, NEW w \in Works, NEW n \in AttemptNumbers, NEW k \in Workers,
           NEW d \in LeaseDurations, NEW t \in Stamps, Claim(w, n, k, d, t)
    PROVE  Typed'
<1> DEFINE row == [BlankWork EXCEPT !.status = "running", !.claim = n,
                                    !.claimedBy = k, !.claimedAt = t]
           a == [BlankAttempt EXCEPT !.status = "running", !.worker = k, !.claimedAt = t,
                                     !.leaseExpiresAt = t + d]
<1>1. t \in Time /\ t + d \in Time /\ n \in Nat
  BY StampIsTime, LeaseAssumption DEF Typed, TypeOK, Time, AttemptNumbers
<1>2. row \in WorkRow /\ WorkCheck(row)
  BY <1>1, BlankRows, NullAssumption DEF BlankWork, WorkRow, Opt, WorkStatus, WorkCheck, Time
<1>3. a \in AttemptRow /\ AttemptCheck(a)
  BY <1>1, BlankRows, NullAssumption DEF BlankAttempt, AttemptRow, Opt, AttemptStatus,
                                         AttemptCheck, Time
<1>4. <<w, n>> \in Claims
  BY DEF Claims
<1>5. /\ work' \in [Works -> WorkRow] /\ attempt' \in [Claims -> AttemptRow]
      /\ RowChecks'
  BY <1>2, <1>3, <1>4 DEF Claim, Typed, TypeOK, RowChecks
<1> QED BY <1>5 DEF Typed, TypeOK, Claim, envVars, auditVars

LEMMA TypeRenew ==
    ASSUME Typed, NEW c \in Claims, NEW k \in Workers, NEW d \in LeaseDurations,
           NEW t \in Stamps, Renew(c, k, d, t)
    PROVE  Typed'
<1> DEFINE prior == attempt[c].leaseExpiresAt
           a == [attempt[c] EXCEPT !.leaseExpiresAt = t + d]
<1>1. t \in Time /\ t + d \in Time
  BY StampIsTime, LeaseAssumption DEF Typed, TypeOK, Time
<1>2. attempt[c] \in AttemptRow /\ AttemptCheck(attempt[c]) /\ attempt[c].status = "running"
  BY DEF Typed, TypeOK, RowChecks, Renew, HoldsClaim
<1>3. prior \in Time
  BY <1>2 DEF AttemptRow, AttemptCheck, Opt
<1>4. a \in AttemptRow /\ AttemptCheck(a)
  BY <1>1, <1>2, NullAssumption DEF AttemptRow, AttemptCheck, Opt, Time
<1>5. attempt' \in [Claims -> AttemptRow] /\ RowChecks'
  BY <1>4 DEF Renew, Typed, TypeOK, RowChecks
<1>6. renewals' \subseteq Renewal
  BY <1>1, <1>3 DEF Renew, Typed, TypeOK, Renewal
<1> QED BY <1>5, <1>6 DEF Typed, TypeOK, Renew, envVars

LEMMA TypeFinishSucceeded ==
    ASSUME Typed, NEW c \in Claims, NEW k \in Workers, NEW t \in Stamps,
           FinishSucceeded(c, k, t)
    PROVE  Typed'
<1> DEFINE w == c[1]
           commit == HeadCommit[ObsOf(w)]
           row == [work[w] EXCEPT !.status = "succeeded", !.finishedAt = t,
                                  !.generation = commit]
           a == [attempt[c] EXCEPT !.status = "succeeded", !.finishedAt = t,
                                   !.generation = commit]
<1>1. t \in Time /\ commit \in Commits /\ w \in Works
  BY StampIsTime, ObservationAssumption
  DEF Typed, TypeOK, Claims, Works, Observations, ObsOf
<1>2. /\ work[w] \in WorkRow /\ WorkCheck(work[w]) /\ work[w].status = "running"
      /\ attempt[c] \in AttemptRow /\ AttemptCheck(attempt[c])
      /\ attempt[c].status = "running"
  BY <1>1 DEF Typed, TypeOK, RowChecks, FinishSucceeded, MayFinish, HoldsClaim
<1>3. row \in WorkRow /\ WorkCheck(row)
  BY <1>1, <1>2, NullAssumption DEF WorkRow, WorkCheck, WorkStatus, Opt, Time
<1>4. a \in AttemptRow /\ AttemptCheck(a)
  BY <1>1, <1>2, NullAssumption DEF AttemptRow, AttemptCheck, AttemptStatus, Opt, Time
<1>5. work' = [work EXCEPT ![w] = row] /\ attempt' = [attempt EXCEPT ![c] = a]
  BY <1>1 DEF FinishSucceeded, Typed, TypeOK
<1>6. /\ work' \in [Works -> WorkRow] /\ attempt' \in [Claims -> AttemptRow]
      /\ RowChecks'
  BY <1>1, <1>3, <1>4, <1>5 DEF Typed, TypeOK, RowChecks
<1>7. finishes' \subseteq Finish
  BY DEF FinishSucceeded, Typed, TypeOK, Finish
<1> QED BY <1>6, <1>7 DEF Typed, TypeOK, FinishSucceeded, envVars

LEMMA TypeFinishFailed ==
    ASSUME Typed, NEW c \in Claims, NEW k \in Workers, NEW f \in FailureClasses,
           NEW t \in Stamps, FinishFailed(c, k, f, t)
    PROVE  Typed'
<1> DEFINE w == c[1]
           row == [work[w] EXCEPT !.status = "failed", !.finishedAt = t, !.failure = f]
           a == [attempt[c] EXCEPT !.status = "failed", !.finishedAt = t, !.failure = f]
<1>1. t \in Time /\ w \in Works
  BY StampIsTime DEF Typed, TypeOK, Claims
<1>2. /\ work[w] \in WorkRow /\ WorkCheck(work[w]) /\ work[w].status = "running"
      /\ attempt[c] \in AttemptRow /\ AttemptCheck(attempt[c])
      /\ attempt[c].status = "running"
  BY <1>1 DEF Typed, TypeOK, RowChecks, FinishFailed, MayFinish, HoldsClaim
<1>3. row \in WorkRow /\ WorkCheck(row)
  BY <1>1, <1>2, NullAssumption DEF WorkRow, WorkCheck, WorkStatus, Opt, Time
<1>4. a \in AttemptRow /\ AttemptCheck(a)
  BY <1>1, <1>2, NullAssumption DEF AttemptRow, AttemptCheck, AttemptStatus, Opt, Time
<1>5. work' = [work EXCEPT ![w] = row] /\ attempt' = [attempt EXCEPT ![c] = a]
  BY <1>1 DEF FinishFailed, Typed, TypeOK
<1>6. /\ work' \in [Works -> WorkRow] /\ attempt' \in [Claims -> AttemptRow]
      /\ RowChecks'
  BY <1>1, <1>3, <1>4, <1>5 DEF Typed, TypeOK, RowChecks
<1>7. finishes' \subseteq Finish
  BY DEF FinishFailed, Typed, TypeOK, Finish
<1> QED BY <1>6, <1>7 DEF Typed, TypeOK, FinishFailed, envVars

LEMMA TypeRecover ==
    ASSUME Typed, NEW c \in Claims, NEW next \in Opt(Works), NEW t \in Stamps,
           Recover(c, next, t)
    PROVE  Typed'
<1>1. t \in Time /\ c[1] \in Works
  BY StampIsTime DEF Typed, TypeOK, Claims
<1>2. attempt[c] \in AttemptRow /\ AttemptCheck(attempt[c]) /\ attempt[c].status = "running"
  BY DEF Typed, TypeOK, RowChecks, Recover, HoldsClaim
<1>3. Expired(attempt[c], t) \in AttemptRow /\ AttemptCheck(Expired(attempt[c], t))
  BY <1>1, <1>2, NullAssumption DEF Expired, AttemptRow, AttemptCheck, AttemptStatus, Opt, Time
<1>4. /\ work' \in [Works -> WorkRow] /\ attempt' \in [Claims -> AttemptRow]
      /\ RowChecks'
  BY <1>1, <1>3, ReleasedRowType DEF Recover, Typed, TypeOK, RowChecks
<1>5. releases' \subseteq Release
  BY <1>1 DEF Recover, Typed, TypeOK, Release
<1> QED BY <1>4, <1>5 DEF Typed, TypeOK, Recover, envVars

LEMMA TypeReleaseFailed ==
    ASSUME Typed, NEW c \in Claims, NEW next \in Opt(Works), NEW t \in Stamps,
           NEW kind \in {"retry", "consumption"}, ReleaseFailed(c, next, kind, t)
    PROVE  Typed'
<1>1. t \in Time /\ c[1] \in Works
  BY StampIsTime DEF Typed, TypeOK, Claims
<1>2. work' \in [Works -> WorkRow] /\ RowChecks'
  BY <1>1, ReleasedRowType DEF ReleaseFailed, Typed, TypeOK, RowChecks
<1>3. releases' \subseteq Release
  BY <1>1 DEF ReleaseFailed, Typed, TypeOK, Release
<1> QED BY <1>2, <1>3 DEF Typed, TypeOK, ReleaseFailed, envVars

LEMMA TypeClassify ==
    ASSUME Typed, NEW c \in Claims, NEW t \in Stamps, Classify(c, t) PROVE Typed'
<1> DEFINE f == attempt[c].failure
<1>1. t \in Time /\ c[2] \in Nat
  BY StampIsTime DEF Typed, TypeOK, Claims, AttemptNumbers
<1>2. f \in FailureClasses
  BY DEF Classify, FailedClaim, Typed, TypeOK, RowChecks, AttemptRow, AttemptCheck, Opt
<1>3. Decide(f, c[2]) \in Verdict
  BY <1>1 DEF Decide, Verdict, PolicyMaxAttempts
<1>4. t + Backoff(c[2]) \in Time
  BY <1>1, BackoffAssumption DEF Backoff, Time
<1>5. DecisionRow(c, f, t) \in Decision
  BY <1>1, <1>2, <1>3, <1>4 DEF DecisionRow, Decision, Opt
<1> QED BY <1>5, ChecksStutter DEF Typed, TypeOK, Classify, envVars

LEMMA TypeClaimStep ==
    ASSUME Typed, NEW c \in Claims, NEW t \in Stamps, ClaimStep(c, t) PROVE Typed'
  BY TypeRenew, TypeFinishSucceeded, TypeFinishFailed, TypeRecover, TypeReleaseFailed,
     TypeClassify
  DEF ClaimStep, Retry

LEMMA TypeConsume ==
    ASSUME Typed, NEW e \in decisions, NEW next \in Opt(Works), NEW t \in Stamps,
           ConsumeDecision(e, next, t)
    PROVE  Typed'
<1>1. e.claim \in Claims
  BY DEF Typed, TypeOK, Decision
<1> QED BY <1>1, TypeReleaseFailed DEF ConsumeDecision

LEMMA TypeStep == Typed /\ [Next]_vars => Typed'
<1> SUFFICES ASSUME Typed, [Next]_vars PROVE Typed'
  OBVIOUS
<1>1. CASE UNCHANGED vars
  BY <1>1 DEF vars, Typed, TypeOK, RowChecks
<1>2. CASE Next
  BY <1>2, TypeTick, TypeObserveChange, TypeObserveStable, TypeGeneration, TypeSchedule,
     TypeClaim, TypeClaimStep, TypeConsume
  DEF Next
<1> QED BY <1>1, <1>2

LEMMA TypedAlways == Spec => []Typed
  BY TypeInit, TypeStep, PTL DEF Spec

\* Every table keeps rows of its shape, whatever the constants.
THEOREM TypeCorrect == Spec => []TypeOK
<1>1. Typed => TypeOK
  BY DEF Typed
<1> QED BY <1>1, TypedAlways, PTL

\* The state CHECKs of the work items and of the claim attempts hold after
\* every transaction: the code never relies on the database to reject a row.
THEOREM ChecksNeverReject == Spec => []RowChecks
<1>1. Typed => RowChecks
  BY DEF Typed
<1> QED BY <1>1, TypedAlways, PTL

-----------------------------------------------------------------------------
(* One running and one pending item per stream.  Inductive as it stands:    *)
(* scheduling supersedes what waited, claiming requires that nothing runs,  *)
(* and a released item goes back to pending only where nothing waits.       *)

\* A step that rewrites one item into a row that neither waits nor runs.
LEMMA ExclusiveSettle ==
    ASSUME Typed, StreamExclusive, NEW w \in Works, NEW row \in WorkRow,
           work' = [work EXCEPT ![w] = row], row.status \notin {"pending", "running"}
    PROVE  StreamExclusive'
  BY DEF Typed, TypeOK, StreamExclusive

LEMMA ExclusiveSchedule ==
    ASSUME Typed, StreamExclusive, NEW r \in Repos, NEW x \in Extractors, Schedule(r, x)
    PROVE  StreamExclusive'
<1> DEFINE w == <<r, x, latest[r]>>
           older == Pending(work, <<r, x>>)
<1>1. w \in Works /\ StreamOf(w) = <<r, x>>
  BY ObservationAssumption DEF Schedule, Works, Observations, StreamOf
<1>2. \A v \in Works : work'[v].status = IF v = w THEN "pending"
                                         ELSE IF v \in older THEN "superseded"
                                         ELSE work[v].status
  <2>1. [BlankWork EXCEPT !.status = "pending"].status = "pending"
    BY DEF BlankWork
  <2>2. [BlankWork EXCEPT !.status = "superseded", !.supersededBy = w].status = "superseded"
    BY DEF BlankWork
  <2>3. w \notin older
    BY DEF Schedule, Pending
  <2> QED BY <2>1, <2>2, <2>3 DEF Schedule
<1>3. \A v \in Works : StreamOf(v) = <<r, x>> /\ work[v].status = "pending" => v \in older
  BY DEF Pending, InStream
<1> QED BY <1>1, <1>2, <1>3 DEF StreamExclusive

LEMMA ExclusiveClaim ==
    ASSUME Typed, StreamExclusive, NEW w \in Works, NEW n \in AttemptNumbers,
           NEW k \in Workers, NEW d \in LeaseDurations, NEW t \in Stamps,
           Claim(w, n, k, d, t)
    PROVE  StreamExclusive'
<1>1. \A v \in Works : work'[v].status = IF v = w THEN "running" ELSE work[v].status
  BY DEF Claim, Typed, TypeOK, BlankWork
<1>2. \A v \in Works : StreamOf(v) = StreamOf(w) => work[v].status # "running"
  BY DEF Claim, Running, InStream
<1> QED BY <1>1, <1>2 DEF StreamExclusive

\* Recovery and both kinds of retry release an item in the same way.
LEMMA ExclusiveRelease ==
    ASSUME Typed, StreamExclusive, NEW w \in Works, NEW next \in Opt(Works),
           GoesBehind(w, next), work' = [work EXCEPT ![w] = ReleasedRow(next)]
    PROVE  StreamExclusive'
<1>1. \A v \in Works : work'[v].status = IF v = w THEN ReleasedRow(next).status
                                                 ELSE work[v].status
  BY DEF Typed, TypeOK
<1>2. CASE next = Null
  <2>1. ReleasedRow(next).status = "pending"
    BY <1>2 DEF ReleasedRow, BlankWork
  <2>2. \A v \in Works : StreamOf(v) = StreamOf(w) => work[v].status # "pending"
    BY <1>2, WorksNotNull DEF GoesBehind, Pending, InStream
  <2> QED BY <1>1, <2>1, <2>2 DEF StreamExclusive
<1>3. CASE next # Null
  <2>1. ReleasedRow(next).status = "superseded"
    BY <1>3 DEF ReleasedRow, BlankWork
  <2> QED BY <1>1, <2>1 DEF StreamExclusive
<1> QED BY <1>2, <1>3

LEMMA ExclusiveClaimStep ==
    ASSUME Typed, Typed', StreamExclusive, NEW c \in Claims, NEW t \in Stamps, ClaimStep(c, t)
    PROVE  StreamExclusive'
<1>1. c[1] \in Works
  BY DEF Claims
<1>2. ASSUME NEW k \in Workers, NEW d \in LeaseDurations, Renew(c, k, d, t)
      PROVE  StreamExclusive'
  BY <1>2 DEF Renew, StreamExclusive
<1>3. ASSUME NEW k \in Workers, FinishSucceeded(c, k, t) PROVE StreamExclusive'
  <2>1. work'[c[1]] \in WorkRow /\ work'[c[1]].status = "succeeded"
    BY <1>1, <1>3 DEF FinishSucceeded, Typed, TypeOK, WorkRow
  <2>2. work' = [work EXCEPT ![c[1]] = work'[c[1]]]
    BY <1>1, <1>3 DEF FinishSucceeded, Typed, TypeOK
  <2> QED BY <1>1, <2>1, <2>2, ExclusiveSettle
<1>4. ASSUME NEW k \in Workers, NEW f \in FailureClasses, FinishFailed(c, k, f, t)
      PROVE  StreamExclusive'
  <2>1. work'[c[1]] \in WorkRow /\ work'[c[1]].status = "failed"
    BY <1>1, <1>4 DEF FinishFailed, Typed, TypeOK, WorkRow
  <2>2. work' = [work EXCEPT ![c[1]] = work'[c[1]]]
    BY <1>1, <1>4 DEF FinishFailed, Typed, TypeOK
  <2> QED BY <1>1, <2>1, <2>2, ExclusiveSettle
<1>5. ASSUME NEW next \in Opt(Works), Recover(c, next, t) \/ Retry(c, next, t)
      PROVE  StreamExclusive'
  BY <1>1, <1>5, ExclusiveRelease DEF Recover, Retry, ReleaseFailed
<1>6. ASSUME Classify(c, t) PROVE StreamExclusive'
  BY <1>6 DEF Classify, StreamExclusive
<1> QED BY <1>2, <1>3, <1>4, <1>5, <1>6 DEF ClaimStep

LEMMA ExclusiveStep ==
    Typed /\ Typed' /\ StreamExclusive /\ [Next]_vars => StreamExclusive'
<1> SUFFICES ASSUME Typed, Typed', StreamExclusive, [Next]_vars PROVE StreamExclusive'
  OBVIOUS
<1>1. CASE UNCHANGED work
  BY <1>1 DEF StreamExclusive
<1>2. ASSUME NEW r \in Repos, NEW x \in Extractors, Schedule(r, x) PROVE StreamExclusive'
  BY <1>2, ExclusiveSchedule
<1>3. ASSUME NEW t \in Stamps, NEW w \in Works, NEW n \in AttemptNumbers, NEW k \in Workers,
             NEW d \in LeaseDurations, Claim(w, n, k, d, t)
      PROVE  StreamExclusive'
  BY <1>3, ExclusiveClaim
<1>4. ASSUME NEW t \in Stamps, NEW c \in Claims, ClaimStep(c, t) PROVE StreamExclusive'
  BY <1>4, ExclusiveClaimStep
<1>5. ASSUME NEW t \in Stamps, NEW e \in decisions, NEW next \in Opt(Works),
             ConsumeDecision(e, next, t)
      PROVE  StreamExclusive'
  <2>1. e.claim[1] \in Works
    BY DEF Typed, TypeOK, Decision, Claims
  <2> QED BY <1>5, <2>1, ExclusiveRelease DEF ConsumeDecision, ReleaseFailed
<1> QED BY <1>1, <1>2, <1>3, <1>4, <1>5
        DEF Next, vars, Tick, ObserveChange, ObserveStable, CreateGeneration

\* No interleaving of scheduling, claiming, recovery and retry ever gives a
\* stream two running items or two pending ones.
THEOREM OneRunningOnePending == Spec => []StreamExclusive
<1>1. Init => StreamExclusive
  BY DEF Init, StreamExclusive, BlankWork
<1> QED BY <1>1, ExclusiveStep, TypedAlways, PTL DEF Spec

-----------------------------------------------------------------------------
(* The life of a claim: the item's row and the attempt's row never          *)
(* disagree, recorded times respect the lease, attempts follow one another, *)
(* an ended attempt is history and a claim is released once.                *)

LEMMA ClaimPair ==
    ASSUME NEW c \in Claims
    PROVE  c[1] \in Works /\ c[2] \in AttemptNumbers /\ c = <<c[1], c[2]>>
  BY DEF Claims

\* What the transactions on one claim do to the two tables: they rewrite the
\* claim's item and the claim's attempt, and no other row.
LEMMA FinishSucceededRewrites ==
    ASSUME Typed, NEW c \in Claims, NEW k \in Workers, NEW t \in Stamps,
           FinishSucceeded(c, k, t)
    PROVE  /\ work'[c[1]].status = "succeeded" /\ attempt'[c].status = "succeeded"
           /\ work' = [work EXCEPT ![c[1]] = work'[c[1]]]
           /\ attempt' = [attempt EXCEPT ![c] = attempt'[c]]
           /\ work'[c[1]].claim = work[c[1]].claim
           /\ work'[c[1]].claimedBy = work[c[1]].claimedBy
           /\ work'[c[1]].claimedAt = work[c[1]].claimedAt
           /\ work'[c[1]].finishedAt = t
           /\ attempt'[c].worker = attempt[c].worker
           /\ attempt'[c].claimedAt = attempt[c].claimedAt
           /\ attempt'[c].leaseExpiresAt = attempt[c].leaseExpiresAt
           /\ attempt'[c].expiredAt = attempt[c].expiredAt
           /\ attempt'[c].finishedAt = t
<1> DEFINE w == c[1]
           commit == HeadCommit[ObsOf(w)]
           item == [work[w] EXCEPT !.status = "succeeded", !.finishedAt = t, !.generation = commit]
           row == [attempt[c] EXCEPT !.status = "succeeded", !.finishedAt = t, !.generation = commit]
<1>1. /\ w \in Works /\ work \in [Works -> WorkRow] /\ attempt \in [Claims -> AttemptRow]
      /\ work[w] \in WorkRow /\ attempt[c] \in AttemptRow
  BY ClaimPair DEF Typed, TypeOK
<1>2. work' = [work EXCEPT ![w] = item] /\ attempt' = [attempt EXCEPT ![c] = row]
  BY <1>1 DEF FinishSucceeded
<1>3. /\ item.status = "succeeded" /\ item.finishedAt = t /\ item.claim = work[w].claim
      /\ item.claimedBy = work[w].claimedBy /\ item.claimedAt = work[w].claimedAt
  BY <1>1 DEF WorkRow
<1>4. /\ row.status = "succeeded" /\ row.finishedAt = t /\ row.worker = attempt[c].worker
      /\ row.claimedAt = attempt[c].claimedAt /\ row.expiredAt = attempt[c].expiredAt
      /\ row.leaseExpiresAt = attempt[c].leaseExpiresAt
  BY <1>1 DEF AttemptRow
<1> HIDE DEF item, row
<1>5. work'[w] = item /\ attempt'[c] = row
  BY <1>1, <1>2
<1> QED BY <1>2, <1>3, <1>4, <1>5

LEMMA FinishFailedRewrites ==
    ASSUME Typed, NEW c \in Claims, NEW k \in Workers, NEW t \in Stamps,
           NEW f \in FailureClasses, FinishFailed(c, k, f, t)
    PROVE  /\ work'[c[1]].status = "failed" /\ attempt'[c].status = "failed"
           /\ work' = [work EXCEPT ![c[1]] = work'[c[1]]]
           /\ attempt' = [attempt EXCEPT ![c] = attempt'[c]]
           /\ work'[c[1]].claim = work[c[1]].claim
           /\ work'[c[1]].claimedBy = work[c[1]].claimedBy
           /\ work'[c[1]].claimedAt = work[c[1]].claimedAt
           /\ work'[c[1]].finishedAt = t
           /\ attempt'[c].worker = attempt[c].worker
           /\ attempt'[c].claimedAt = attempt[c].claimedAt
           /\ attempt'[c].leaseExpiresAt = attempt[c].leaseExpiresAt
           /\ attempt'[c].expiredAt = attempt[c].expiredAt
           /\ attempt'[c].finishedAt = t
           /\ attempt'[c].failure = work'[c[1]].failure
<1> DEFINE w == c[1]
           commit == HeadCommit[ObsOf(w)]
           item == [work[w] EXCEPT !.status = "failed", !.finishedAt = t, !.failure = f]
           row == [attempt[c] EXCEPT !.status = "failed", !.finishedAt = t, !.failure = f]
<1>1. /\ w \in Works /\ work \in [Works -> WorkRow] /\ attempt \in [Claims -> AttemptRow]
      /\ work[w] \in WorkRow /\ attempt[c] \in AttemptRow
  BY ClaimPair DEF Typed, TypeOK
<1>2. work' = [work EXCEPT ![w] = item] /\ attempt' = [attempt EXCEPT ![c] = row]
  BY <1>1 DEF FinishFailed
<1>3. /\ item.status = "failed" /\ item.finishedAt = t /\ item.claim = work[w].claim
      /\ item.claimedBy = work[w].claimedBy /\ item.claimedAt = work[w].claimedAt /\ item.failure = f
  BY <1>1 DEF WorkRow
<1>4. /\ row.status = "failed" /\ row.finishedAt = t /\ row.worker = attempt[c].worker
      /\ row.claimedAt = attempt[c].claimedAt /\ row.expiredAt = attempt[c].expiredAt
      /\ row.leaseExpiresAt = attempt[c].leaseExpiresAt /\ row.failure = f
  BY <1>1 DEF AttemptRow
<1> HIDE DEF item, row
<1>5. work'[w] = item /\ attempt'[c] = row
  BY <1>1, <1>2
<1> QED BY <1>2, <1>3, <1>4, <1>5

LEMMA FinishRewrites ==
    ASSUME Typed, Typed', NEW c \in Claims, NEW k \in Workers, NEW t \in Stamps,
           \/ FinishSucceeded(c, k, t)
           \/ \E f \in FailureClasses : FinishFailed(c, k, f, t)
    PROVE  /\ work'[c[1]].status \in {"succeeded", "failed"}
           /\ work' = [work EXCEPT ![c[1]] = work'[c[1]]]
           /\ attempt' = [attempt EXCEPT ![c] = attempt'[c]]
           /\ work'[c[1]].claim = work[c[1]].claim
           /\ work'[c[1]].claimedBy = work[c[1]].claimedBy
           /\ work'[c[1]].claimedAt = work[c[1]].claimedAt
           /\ work'[c[1]].finishedAt = t
           /\ attempt'[c].status = work'[c[1]].status
           /\ attempt'[c].worker = attempt[c].worker
           /\ attempt'[c].claimedAt = attempt[c].claimedAt
           /\ attempt'[c].leaseExpiresAt = attempt[c].leaseExpiresAt
           /\ attempt'[c].expiredAt = attempt[c].expiredAt
           /\ attempt'[c].finishedAt = t
           /\ attempt'[c].status = "failed" => attempt'[c].failure = work'[c[1]].failure
<1>1. CASE FinishSucceeded(c, k, t)
  BY <1>1, FinishSucceededRewrites
<1>2. ASSUME NEW f \in FailureClasses, FinishFailed(c, k, f, t)
      PROVE  /\ work'[c[1]].status = "failed" /\ attempt'[c].status = "failed"
             /\ attempt'[c].failure = work'[c[1]].failure
  BY <1>2, FinishFailedRewrites
<1>3. ASSUME NEW f \in FailureClasses, FinishFailed(c, k, f, t)
      PROVE  /\ work' = [work EXCEPT ![c[1]] = work'[c[1]]]
             /\ attempt' = [attempt EXCEPT ![c] = attempt'[c]]
             /\ work'[c[1]].claim = work[c[1]].claim
             /\ work'[c[1]].claimedBy = work[c[1]].claimedBy
             /\ work'[c[1]].claimedAt = work[c[1]].claimedAt
             /\ work'[c[1]].finishedAt = t
             /\ attempt'[c].worker = attempt[c].worker
             /\ attempt'[c].claimedAt = attempt[c].claimedAt
             /\ attempt'[c].leaseExpiresAt = attempt[c].leaseExpiresAt
             /\ attempt'[c].expiredAt = attempt[c].expiredAt
             /\ attempt'[c].finishedAt = t
  BY <1>3, FinishFailedRewrites
<1> QED BY <1>1, <1>2, <1>3

LEMMA RenewRewrites ==
    ASSUME Typed, NEW c \in Claims, NEW k \in Workers, NEW d \in LeaseDurations,
           NEW t \in Stamps, Renew(c, k, d, t)
    PROVE  /\ UNCHANGED work
           /\ attempt' = [attempt EXCEPT ![c] = attempt'[c]]
           /\ attempt'[c].status = "running"
           /\ attempt'[c].worker = attempt[c].worker
           /\ attempt'[c].claimedAt = attempt[c].claimedAt
           /\ attempt'[c].leaseExpiresAt = t + d
           /\ attempt[c].leaseExpiresAt \in Nat
           /\ attempt[c].leaseExpiresAt < t + d
<1>1. attempt[c] \in AttemptRow /\ AttemptCheck(attempt[c]) /\ attempt[c].status = "running"
  BY DEF Typed, TypeOK, RowChecks, Renew, HoldsClaim
<1>2. attempt[c].leaseExpiresAt \in Nat
  BY <1>1 DEF AttemptRow, AttemptCheck, Opt, Time
<1> QED BY <1>1, <1>2 DEF Renew, Extends, AttemptRow, Typed, TypeOK

LEMMA RecoverRewrites ==
    ASSUME Typed, NEW c \in Claims, NEW next \in Opt(Works), NEW t \in Stamps,
           Recover(c, next, t)
    PROVE  /\ work' = [work EXCEPT ![c[1]] = ReleasedRow(next)]
           /\ attempt' = [attempt EXCEPT ![c] = attempt'[c]]
           /\ attempt'[c].status = "expired"
           /\ attempt'[c].claimedAt = attempt[c].claimedAt
           /\ attempt'[c].leaseExpiresAt = attempt[c].leaseExpiresAt
           /\ attempt'[c].worker = attempt[c].worker
           /\ attempt'[c].expiredAt = t
           /\ t >= attempt[c].leaseExpiresAt
<1>1. attempt[c] \in AttemptRow
  BY DEF Typed, TypeOK
<1> QED BY <1>1 DEF Recover, Expired, AttemptRow, Typed, TypeOK

\* A released row waits, or stands behind another, under no claim.
LEMMA ReleasedRowShape ==
    ASSUME NEW next \in Opt(Works)
    PROVE  /\ ReleasedRow(next).status \in {"pending", "superseded"}
           /\ ReleasedRow(next).claim = Null
           /\ ReleasedRow(next).supersededBy = next
           /\ ReleasedRow(next).status = "superseded" <=> next # Null
  BY DEF ReleasedRow, BlankWork

LEMMA ClaimRewrites ==
    ASSUME Typed, NEW w \in Works, NEW n \in AttemptNumbers, NEW k \in Workers,
           NEW d \in LeaseDurations, NEW t \in Stamps, Claim(w, n, k, d, t)
    PROVE  /\ work' = [work EXCEPT ![w] = work'[w]]
           /\ attempt' = [attempt EXCEPT ![<<w, n>>] = attempt'[<<w, n>>]]
           /\ work'[w].status = "running" /\ work'[w].claim = n
           /\ work'[w].claimedBy = k /\ work'[w].claimedAt = t
           /\ attempt'[<<w, n>>].status = "running" /\ attempt'[<<w, n>>].worker = k
           /\ attempt'[<<w, n>>].claimedAt = t /\ attempt'[<<w, n>>].leaseExpiresAt = t + d
           /\ attempt[<<w, n>>].status = "absent"
<1>1. <<w, n>> \in Claims /\ n \in Nat
  BY DEF Claims, AttemptNumbers
<1> QED BY <1>1 DEF Claim, IsNextAttempt, BlankWork, BlankAttempt, Typed, TypeOK

\* Scheduling touches only items that no claim holds.
LEMMA ScheduleRewrites ==
    ASSUME Typed, NEW r \in Repos, NEW x \in Extractors, Schedule(r, x), NEW v \in Works
    PROVE  \/ work'[v] = work[v]
           \/ /\ work[v].status \in {"absent", "pending"}
              /\ work'[v].status \in {"pending", "superseded"} /\ work'[v].claim = Null
<1> DEFINE w == <<r, x, latest[r]>>
<1>1. /\ [BlankWork EXCEPT !.status = "pending"].status = "pending"
      /\ [BlankWork EXCEPT !.status = "pending"].claim = Null
  BY DEF BlankWork
<1>2. /\ [BlankWork EXCEPT !.status = "superseded", !.supersededBy = w].status = "superseded"
      /\ [BlankWork EXCEPT !.status = "superseded", !.supersededBy = w].claim = Null
  BY DEF BlankWork
<1>3. w \notin Pending(work, <<r, x>>)
  BY DEF Schedule, Pending
<1>4. \A u \in Pending(work, <<r, x>>) : work[u].status = "pending"
  BY DEF Pending
<1>5. CASE v = w
  BY <1>1, <1>3, <1>5 DEF Schedule
<1>6. CASE v \in Pending(work, <<r, x>>)
  BY <1>2, <1>3, <1>4, <1>6 DEF Schedule
<1>7. CASE v # w /\ v \notin Pending(work, <<r, x>>)
  BY <1>7 DEF Schedule
<1> QED BY <1>5, <1>6, <1>7

-----------------------------------------------------------------------------
(* The two tables agree.                                                    *)

\* A step that rewrites item w and its attempt n keeps the agreement when the
\* two new rows agree and no other attempt at w runs or has succeeded.
LEMMA AgreeRewrite ==
    ASSUME Typed, RowsAgree, NEW w \in Works, NEW n \in AttemptNumbers,
           work' = [work EXCEPT ![w] = work'[w]],
           attempt' = [attempt EXCEPT ![<<w, n>>] = attempt'[<<w, n>>]],
           work'[w].status = "running" => HoldsClaim(<<w, n>>, work[w].claimedBy)',
           work'[w].status = "failed" => FailedClaim(<<w, n>>)',
           attempt'[<<w, n>>].status \in {"running", "succeeded"} =>
               work'[w].status = attempt'[<<w, n>>].status /\ work'[w].claim = n,
           \A m \in AttemptNumbers : m # n =>
               attempt[<<w, m>>].status \notin {"running", "succeeded"}
    PROVE  RowsAgree'
<1>1. \A v \in Works, m \in AttemptNumbers : <<v, m>> \in Claims
  BY DEF Claims
<1>2. \A v \in Works, m \in AttemptNumbers : v # w =>
         work'[v] = work[v] /\ attempt'[<<v, m>>] = attempt[<<v, m>>]
  BY <1>1 DEF Typed, TypeOK
<1>3. \A m \in AttemptNumbers : m # n => attempt'[<<w, m>>] = attempt[<<w, m>>]
  BY <1>1 DEF Typed, TypeOK
<1>4. ASSUME NEW v \in Works, work'[v].status = "running"
      PROVE  \E m \in AttemptNumbers : HoldsClaim(<<v, m>>, work[v].claimedBy)'
  <2>1. CASE v = w
    BY <1>4, <2>1
  <2>2. CASE v # w
    <3>1. PICK m \in AttemptNumbers : HoldsClaim(<<v, m>>, work[v].claimedBy)
      BY <1>2, <1>4, <2>2 DEF RowsAgree
    <3>2. HoldsClaim(<<v, m>>, work[v].claimedBy)'
      BY <1>2, <2>2, <3>1 DEF HoldsClaim
    <3> QED BY <3>2
  <2> QED BY <2>1, <2>2
<1>5. ASSUME NEW v \in Works, work'[v].status = "failed"
      PROVE  \E m \in AttemptNumbers : FailedClaim(<<v, m>>)'
  <2>1. CASE v = w
    BY <1>5, <2>1
  <2>2. CASE v # w
    <3>1. PICK m \in AttemptNumbers : FailedClaim(<<v, m>>)
      BY <1>2, <1>5, <2>2 DEF RowsAgree
    <3>2. FailedClaim(<<v, m>>)'
      BY <1>2, <2>2, <3>1 DEF FailedClaim
    <3> QED BY <3>2
  <2> QED BY <2>1, <2>2
<1>6. ASSUME NEW c \in Claims, attempt'[c].status \in {"running", "succeeded"}
      PROVE  work'[c[1]].status = attempt'[c].status /\ work'[c[1]].claim = c[2]
  <2>1. c[1] \in Works /\ c[2] \in AttemptNumbers /\ c = <<c[1], c[2]>>
    BY ClaimPair
  <2>2. CASE c = <<w, n>>
    BY <1>6, <2>2
  <2>3. CASE c[1] = w /\ c[2] # n
    BY <1>3, <1>6, <2>1, <2>3
  <2>4. CASE c[1] # w
    BY <1>2, <1>6, <2>1, <2>4 DEF RowsAgree
  <2> QED BY <2>1, <2>2, <2>3, <2>4
<1> QED BY <1>4, <1>5, <1>6 DEF RowsAgree

LEMMA AgreeStutter == ASSUME RowsAgree, UNCHANGED <<work, attempt>> PROVE RowsAgree'
<1>1. \A c, k : HoldsClaim(c, k)' <=> HoldsClaim(c, k)
  BY DEF HoldsClaim
<1>2. \A c : FailedClaim(c)' <=> FailedClaim(c)
  BY DEF FailedClaim
<1> QED BY <1>1, <1>2 DEF RowsAgree

LEMMA AgreeSchedule ==
    ASSUME Typed, RowsAgree, NEW r \in Repos, NEW x \in Extractors, Schedule(r, x)
    PROVE  RowsAgree'
<1>1. UNCHANGED attempt
  BY DEF Schedule
<1>2. \A v \in Works : \/ work'[v] = work[v]
                      \/ /\ work[v].status \in {"absent", "pending"}
                         /\ work'[v].status \in {"pending", "superseded"}
  BY ScheduleRewrites
<1>3. ASSUME NEW v \in Works, work'[v].status \in {"running", "failed"}
      PROVE  work'[v] = work[v]
  BY <1>2, <1>3
<1>4. ASSUME NEW v \in Works, work'[v].status = "running"
      PROVE  \E m \in AttemptNumbers : HoldsClaim(<<v, m>>, work[v].claimedBy)'
  <2>1. PICK m \in AttemptNumbers : HoldsClaim(<<v, m>>, work[v].claimedBy)
    BY <1>3, <1>4 DEF RowsAgree
  <2>2. HoldsClaim(<<v, m>>, work[v].claimedBy)'
    BY <1>1, <1>3, <1>4, <2>1 DEF HoldsClaim
  <2> QED BY <2>2
<1>5. ASSUME NEW v \in Works, work'[v].status = "failed"
      PROVE  \E m \in AttemptNumbers : FailedClaim(<<v, m>>)'
  <2>1. PICK m \in AttemptNumbers : FailedClaim(<<v, m>>)
    BY <1>3, <1>5 DEF RowsAgree
  <2>2. FailedClaim(<<v, m>>)'
    BY <1>1, <1>3, <1>5, <2>1 DEF FailedClaim
  <2> QED BY <2>2
<1>6. ASSUME NEW c \in Claims, attempt'[c].status \in {"running", "succeeded"}
      PROVE  work'[c[1]].status = attempt'[c].status /\ work'[c[1]].claim = c[2]
  BY <1>1, <1>2, <1>6, ClaimPair DEF RowsAgree
<1> QED BY <1>4, <1>5, <1>6 DEF RowsAgree

LEMMA AgreeClaim ==
    ASSUME Typed, RowsAgree, NEW w \in Works, NEW n \in AttemptNumbers, NEW k \in Workers,
           NEW d \in LeaseDurations, NEW t \in Stamps, Claim(w, n, k, d, t)
    PROVE  RowsAgree'
<1>1. \A m \in AttemptNumbers : attempt[<<w, m>>].status \notin {"running", "succeeded"}
  BY DEF RowsAgree, Claim, Claims
<1>2. HoldsClaim(<<w, n>>, work[w].claimedBy)'
  BY ClaimRewrites DEF HoldsClaim
<1>3. /\ work' = [work EXCEPT ![w] = work'[w]]
      /\ attempt' = [attempt EXCEPT ![<<w, n>>] = attempt'[<<w, n>>]]
      /\ work'[w].status = "running" /\ work'[w].claim = n
      /\ attempt'[<<w, n>>].status = "running"
  BY ClaimRewrites
<1> QED BY <1>1, <1>2, <1>3, AgreeRewrite

\* The attempt a work row names is the only one of its item that may run.
LEMMA OnlyHolder ==
    ASSUME RowsAgree, NEW c \in Claims, work[c[1]].claim = c[2], NEW m \in AttemptNumbers,
           m # c[2]
    PROVE  attempt[<<c[1], m>>].status \notin {"running", "succeeded"}
  BY ClaimPair DEF RowsAgree, Claims

LEMMA AgreeReleaseFailed ==
    ASSUME Typed, RowsAgree, NEW c \in Claims, NEW next \in Opt(Works), NEW t \in Stamps,
           NEW kind \in {"retry", "consumption"}, ReleaseFailed(c, next, kind, t)
    PROVE  RowsAgree'
<1> DEFINE w == c[1]
           n == c[2]
<1>1. w \in Works /\ n \in AttemptNumbers /\ c = <<w, n>>
  BY ClaimPair
<1>2. work[w].claim = n /\ attempt[c].status = "failed"
  BY DEF ReleaseFailed, FailedClaim
<1>3. work' = [work EXCEPT ![w] = work'[w]] /\ attempt' = [attempt EXCEPT ![c] = attempt'[c]]
  BY <1>1 DEF ReleaseFailed, Typed, TypeOK
<1>4. work'[w].status \in {"pending", "superseded"} /\ attempt'[c].status = "failed"
  BY <1>1, <1>2, ReleasedRowShape DEF ReleaseFailed, Typed, TypeOK
<1> QED BY <1>1, <1>2, <1>3, <1>4, OnlyHolder, AgreeRewrite

LEMMA AgreeClaimStep ==
    ASSUME Typed, Typed', RowsAgree, NEW c \in Claims, NEW t \in Stamps, ClaimStep(c, t)
    PROVE  RowsAgree'
<1> DEFINE w == c[1]
           n == c[2]
<1>1. w \in Works /\ n \in AttemptNumbers /\ c = <<w, n>>
  BY ClaimPair
<1>2. ASSUME NEW k \in Workers, NEW d \in LeaseDurations, Renew(c, k, d, t)
      PROVE  RowsAgree'
  <2>1. HoldsClaim(c, k) /\ work' = [work EXCEPT ![w] = work'[w]]
    BY <1>1, <1>2, RenewRewrites DEF Renew, Typed, TypeOK
  <2>2. HoldsClaim(<<w, n>>, work[w].claimedBy)'
    BY <1>1, <1>2, <2>1, RenewRewrites DEF HoldsClaim
  <2>3. work'[w].status = "running" /\ work'[w].claim = n /\ work[w].claim = n
    BY <1>2, <2>1, RenewRewrites DEF HoldsClaim
  <2>4. /\ attempt' = [attempt EXCEPT ![<<w, n>>] = attempt'[<<w, n>>]]
        /\ attempt'[<<w, n>>].status = "running"
    BY <1>1, <1>2, RenewRewrites
  <2>5. \A m \in AttemptNumbers : m # n =>
           attempt[<<w, m>>].status \notin {"running", "succeeded"}
    BY <2>3, OnlyHolder
  <2> QED BY <1>1, <2>1, <2>2, <2>3, <2>4, <2>5, AgreeRewrite
<1>3. ASSUME NEW k \in Workers,
             \/ FinishSucceeded(c, k, t)
             \/ \E f \in FailureClasses : FinishFailed(c, k, f, t)
      PROVE  RowsAgree'
  <2>1. HoldsClaim(c, k)
    BY <1>3 DEF FinishSucceeded, FinishFailed, MayFinish
  <2>2. work[w].claim = n
    BY <2>1 DEF HoldsClaim
  <2>3. work'[w].status = "failed" => FailedClaim(<<w, n>>)'
    <3>1. WorkCheck(work'[w]) /\ AttemptCheck(attempt'[c])
      BY <1>1 DEF Typed, RowChecks
    <3> QED BY <1>1, <1>3, <2>1, <3>1, FinishRewrites
            DEF FailedClaim, HoldsClaim, WorkCheck, AttemptCheck
  <2> QED BY <1>1, <1>3, <2>2, <2>3, FinishRewrites, OnlyHolder, AgreeRewrite
<1>4. ASSUME NEW next \in Opt(Works), Recover(c, next, t) PROVE RowsAgree'
  <2>1. work[w].claim = n
    BY <1>4 DEF Recover, HoldsClaim
  <2>2. work'[w].status \in {"pending", "superseded"}
    BY <1>1, <1>4, RecoverRewrites, ReleasedRowShape DEF Typed, TypeOK
  <2>3. work' = [work EXCEPT ![w] = work'[w]]
    BY <1>1, <1>4, RecoverRewrites DEF Typed, TypeOK
  <2> QED BY <1>1, <1>4, <2>1, <2>2, <2>3, RecoverRewrites, OnlyHolder, AgreeRewrite
<1>5. ASSUME NEW next \in Opt(Works), Retry(c, next, t) PROVE RowsAgree'
  BY <1>5, AgreeReleaseFailed DEF Retry
<1>6. ASSUME Classify(c, t) PROVE RowsAgree'
  BY <1>6, AgreeStutter DEF Classify
<1> QED BY <1>2, <1>3, <1>4, <1>5, <1>6 DEF ClaimStep

LEMMA AgreeStep == Typed /\ Typed' /\ RowsAgree /\ [Next]_vars => RowsAgree'
<1> SUFFICES ASSUME Typed, Typed', RowsAgree, [Next]_vars PROVE RowsAgree'
  OBVIOUS
<1>1. CASE UNCHANGED <<work, attempt>>
  BY <1>1, AgreeStutter
<1>2. ASSUME NEW t \in Stamps, NEW e \in decisions, NEW next \in Opt(Works),
             ConsumeDecision(e, next, t)
      PROVE  RowsAgree'
  <2>1. e.claim \in Claims
    BY DEF Typed, TypeOK, Decision
  <2> QED BY <1>2, <2>1, AgreeReleaseFailed DEF ConsumeDecision
<1> QED BY <1>1, <1>2, AgreeSchedule, AgreeClaim, AgreeClaimStep
        DEF Next, vars, Tick, ObserveChange, ObserveStable, CreateGeneration

LEMMA AgreeAlways == Spec => [](Typed /\ RowsAgree)
<1>1. Init => RowsAgree
  BY DEF Init, RowsAgree, BlankWork, BlankAttempt
<1> QED BY <1>1, AgreeStep, TypedAlways, PTL DEF Spec

\* The conflicts the code reports when a claim and its item do not match can
\* only come from a caller that names an old claim, never from the tables.
THEOREM TablesAgree == Spec => []RowsAgree
  BY AgreeAlways, PTL

-----------------------------------------------------------------------------
(* What one step may do to an attempt.                                      *)

Started(c) ==
    /\ attempt[c].status = "absent" /\ attempt'[c].status = "running"
    /\ work[c[1]].status = "pending" /\ IsNextAttempt(c[1], c[2])
    /\ attempt'[c].claimedAt \in Nat /\ attempt'[c].leaseExpiresAt \in Nat
    /\ attempt'[c].claimedAt < attempt'[c].leaseExpiresAt
    /\ now <= attempt'[c].claimedAt + MaxLag

Continued(c) ==
    /\ attempt[c].status = "running" /\ attempt'[c].status # "absent"
    /\ attempt'[c].worker = attempt[c].worker
    /\ attempt'[c].claimedAt = attempt[c].claimedAt
    /\ attempt[c].claimedAt \in Nat /\ attempt[c].leaseExpiresAt \in Nat
    /\ \/ /\ attempt'[c].status = "running"
          /\ attempt'[c].leaseExpiresAt \in Nat
          /\ attempt[c].leaseExpiresAt < attempt'[c].leaseExpiresAt
       \/ /\ attempt'[c].status \in {"succeeded", "failed"}
          /\ attempt'[c].leaseExpiresAt = attempt[c].leaseExpiresAt
          /\ attempt[c].claimedAt <= attempt'[c].finishedAt
          /\ attempt'[c].finishedAt < attempt[c].leaseExpiresAt
       \/ /\ attempt'[c].status = "expired"
          /\ attempt'[c].leaseExpiresAt = attempt[c].leaseExpiresAt
          /\ attempt[c].leaseExpiresAt <= attempt'[c].expiredAt

LEMMA StampIsNat == ASSUME Typed, NEW t \in Stamps PROVE t \in Nat
  BY StampIsTime DEF Typed, TypeOK, Time

\* A claim that is held has times to compare with.
LEMMA HeldTimes ==
    ASSUME Typed, NEW c \in Claims, attempt[c].status = "running"
    PROVE  attempt[c].claimedAt \in Nat /\ attempt[c].leaseExpiresAt \in Nat
  BY DEF Typed, TypeOK, RowChecks, AttemptRow, AttemptCheck, Opt, Time

LEMMA OtherAttempts ==
    ASSUME Typed, NEW b \in Claims, attempt' = [attempt EXCEPT ![b] = attempt'[b]],
           NEW c \in Claims, c # b
    PROVE  attempt'[c] = attempt[c]
  BY DEF Typed, TypeOK

LEMMA AttemptClaim ==
    ASSUME Typed, NEW w \in Works, NEW n \in AttemptNumbers, NEW k \in Workers,
           NEW d \in LeaseDurations, NEW t \in Stamps, Claim(w, n, k, d, t), NEW c \in Claims
    PROVE  attempt'[c] = attempt[c] \/ Started(c)
<1>1. CASE c = <<w, n>>
  <2>1. t \in Nat /\ t + d \in Nat /\ t < t + d
    BY StampIsNat, LeaseAssumption
  <2>2. work[w].status = "pending" /\ IsNextAttempt(w, n)
    BY DEF Claim
  <2>3. work[c[1]].status = "pending" /\ IsNextAttempt(c[1], c[2])
    BY <1>1, <2>2
  <2>4. now <= t + MaxLag
    BY BoundsAssumption DEF Stamps, Typed, TypeOK, Time
  <2> QED BY <1>1, <2>1, <2>3, <2>4, ClaimRewrites DEF Started
<1>2. CASE c # <<w, n>>
  <2>1. <<w, n>> \in Claims
    BY DEF Claims
  <2>2. attempt' = [attempt EXCEPT ![<<w, n>>] = attempt'[<<w, n>>]]
    BY ClaimRewrites
  <2> QED BY <1>2, <2>1, <2>2, OtherAttempts
<1> QED BY <1>1, <1>2

LEMMA AttemptClaimStep ==
    ASSUME Typed, Typed', NEW b \in Claims, NEW t \in Stamps, ClaimStep(b, t), NEW c \in Claims
    PROVE  attempt'[c] = attempt[c] \/ Continued(c)
<1>1. t \in Nat
  BY StampIsNat
<1>2. ASSUME NEW k \in Workers, NEW d \in LeaseDurations, Renew(b, k, d, t)
      PROVE  attempt'[c] = attempt[c] \/ Continued(c)
  <2>1. attempt[b].status = "running" /\ t + d \in Nat
    BY <1>1, <1>2, LeaseAssumption DEF Renew, HoldsClaim
  <2>2. CASE c = b
    <3>1. /\ attempt'[b].status = "running" /\ attempt'[b].worker = attempt[b].worker
          /\ attempt'[b].claimedAt = attempt[b].claimedAt
          /\ attempt'[b].leaseExpiresAt = t + d /\ attempt[b].leaseExpiresAt < t + d
      BY <1>2, RenewRewrites
    <3> QED BY <2>1, <2>2, <3>1, HeldTimes DEF Continued
  <2> QED BY <1>2, <2>2, RenewRewrites, OtherAttempts
<1>3. ASSUME NEW k \in Workers,
             \/ FinishSucceeded(b, k, t)
             \/ \E f \in FailureClasses : FinishFailed(b, k, f, t)
      PROVE  attempt'[c] = attempt[c] \/ Continued(c)
  <2>1. MayFinish(b, k, t)
    BY <1>3 DEF FinishSucceeded, FinishFailed
  <2>2. /\ attempt[b].status = "running"
        /\ attempt[b].claimedAt <= t /\ t < attempt[b].leaseExpiresAt
    BY <1>1, <2>1, HeldTimes DEF MayFinish, HoldsClaim
  <2>3. CASE c = b
    BY <1>3, <2>2, <2>3, FinishRewrites, HeldTimes DEF Continued
  <2> QED BY <1>3, <2>3, FinishRewrites, OtherAttempts
<1>4. ASSUME NEW next \in Opt(Works), Recover(b, next, t)
      PROVE  attempt'[c] = attempt[c] \/ Continued(c)
  <2>1. attempt[b].status = "running"
    BY <1>4 DEF Recover, HoldsClaim
  <2>2. CASE c = b
    BY <1>1, <1>4, <2>1, <2>2, RecoverRewrites, HeldTimes DEF Continued
  <2> QED BY <1>4, <2>2, RecoverRewrites, OtherAttempts
<1>5. ASSUME Classify(b, t) \/ \E next \in Opt(Works) : Retry(b, next, t)
      PROVE  attempt'[c] = attempt[c]
  BY <1>5 DEF Classify, Retry, ReleaseFailed
<1> QED BY <1>2, <1>3, <1>4, <1>5 DEF ClaimStep

LEMMA AttemptStep ==
    ASSUME Typed, Typed', [Next]_vars, NEW c \in Claims
    PROVE  attempt'[c] = attempt[c] \/ Started(c) \/ Continued(c)
<1>1. CASE UNCHANGED attempt
  BY <1>1
<1>2. ASSUME NEW t \in Stamps, NEW w \in Works, NEW n \in AttemptNumbers, NEW k \in Workers,
             NEW d \in LeaseDurations, Claim(w, n, k, d, t)
      PROVE  attempt'[c] = attempt[c] \/ Started(c)
  BY <1>2, AttemptClaim
<1>3. ASSUME NEW t \in Stamps, NEW b \in Claims, ClaimStep(b, t)
      PROVE  attempt'[c] = attempt[c] \/ Continued(c)
  BY <1>3, AttemptClaimStep
<1> QED BY <1>1, <1>2, <1>3
        DEF Next, vars, Tick, ObserveChange, ObserveStable, CreateGeneration, Schedule,
            ConsumeDecision, ReleaseFailed

\* Outcomes lie inside the lease and expiries after it, whichever renewals,
\* finishes and recoveries race, however late their stamps are.
THEOREM OutcomesRespectLeases == Spec => []LeaseRespected
<1>1. Init => LeaseRespected
  BY DEF Init, LeaseRespected, BlankAttempt
<1>2. ASSUME Typed, Typed', LeaseRespected, [Next]_vars PROVE LeaseRespected'
  <2> SUFFICES ASSUME NEW c \in Claims
               PROVE  /\ attempt'[c].status # "absent" =>
                            attempt'[c].claimedAt < attempt'[c].leaseExpiresAt
                      /\ attempt'[c].status \in {"succeeded", "failed"} =>
                            /\ attempt'[c].claimedAt <= attempt'[c].finishedAt
                            /\ attempt'[c].finishedAt < attempt'[c].leaseExpiresAt
                      /\ attempt'[c].status = "expired" =>
                            attempt'[c].leaseExpiresAt <= attempt'[c].expiredAt
    BY DEF LeaseRespected
  <2>1. CASE attempt'[c] = attempt[c]
    BY <1>2, <2>1 DEF LeaseRespected
  <2>2. CASE Started(c)
    BY <2>2 DEF Started
  <2>3. CASE Continued(c)
    BY <1>2, <2>3 DEF Continued, LeaseRespected
  <2> QED BY <1>2, <2>1, <2>2, <2>3, AttemptStep
<1> QED BY <1>1, <1>2, TypedAlways, PTL DEF Spec

\* The attempts at an item are tried one after another, without a gap.
THEOREM AttemptsFollowEachOther == Spec => []AttemptsInOrder
<1>1. Init => AttemptsInOrder
  BY DEF Init, AttemptsInOrder, BlankAttempt, Claims
<1>2. ASSUME Typed, Typed', RowsAgree, AttemptsInOrder, [Next]_vars PROVE AttemptsInOrder'
  <2> SUFFICES ASSUME NEW w \in Works, NEW m \in AttemptNumbers, NEW n \in AttemptNumbers,
                      m < n, attempt'[<<w, n>>].status # "absent"
               PROVE  attempt'[<<w, m>>].status \in {"failed", "expired"}
    BY DEF AttemptsInOrder
  <2> DEFINE c == <<w, n>>
             b == <<w, m>>
  <2>1. /\ b \in Claims /\ c \in Claims /\ m \in Nat /\ n \in Nat
        /\ b[1] = w /\ b[2] = m /\ c[1] = w /\ c[2] = n
    BY DEF Claims, AttemptNumbers
  <2>2. attempt[c].status # "absent" => attempt[b].status \in {"failed", "expired"}
    BY <1>2 DEF AttemptsInOrder
  <2>3. attempt[b].status \in {"failed", "expired"}
    <3>1. CASE Started(c)
      <4>1. work[w].status = "pending" /\ IsNextAttempt(w, n)
        BY <2>1, <3>1 DEF Started
      <4>2. n > 1 /\ n - 1 \in AttemptNumbers /\ attempt[<<w, n - 1>>].status # "absent"
        BY <2>1, <4>1, BoundsAssumption DEF IsNextAttempt, AttemptNumbers
      <4>3. attempt[b].status # "absent"
        <5>1. CASE m = n - 1
          BY <4>2, <5>1
        <5>2. CASE m < n - 1
          BY <1>2, <4>2, <5>2 DEF AttemptsInOrder
        <5> QED BY <2>1, <5>1, <5>2
      <4>4. attempt[b].status \notin {"running", "succeeded"}
        BY <1>2, <2>1, <4>1 DEF RowsAgree
      <4>5. attempt[b].status \in AttemptStatus
        BY <1>2, <2>1 DEF Typed, TypeOK, AttemptRow
      <4> QED BY <4>3, <4>4, <4>5 DEF AttemptStatus
    <3>2. CASE ~ Started(c)
      BY <1>2, <2>1, <2>2, <3>2, AttemptStep DEF Continued
    <3> QED BY <3>1, <3>2
  <2>4. attempt'[b] = attempt[b]
    BY <1>2, <2>1, <2>3, AttemptStep DEF Started, Continued
  <2> QED BY <2>3, <2>4
<1> QED BY <1>1, <1>2, AgreeAlways, TypedAlways, PTL DEF Spec

\* An ended attempt is never rewritten and a lease never shortened.
THEOREM EndedAttemptsStay == Spec => AttemptLifecycle
<1>1. ASSUME Typed, Typed', [Next]_vars
      PROVE  \A c \in Claims :
               CASE attempt[c].status = "absent"  -> attempt'[c].status \in {"absent", "running"}
                 [] attempt[c].status = "running" ->
                      /\ attempt'[c].worker = attempt[c].worker
                      /\ attempt'[c].leaseExpiresAt >= attempt[c].leaseExpiresAt
                 [] OTHER -> attempt'[c] = attempt[c]
  <2> TAKE c \in Claims
  <2>1. attempt[c].status = "running" => attempt[c].leaseExpiresAt \in Nat
    BY <1>1, HeldTimes
  <2>2. CASE attempt'[c] = attempt[c]
    BY <2>1, <2>2
  <2>3. CASE Started(c)
    BY <2>3 DEF Started
  <2>4. CASE Continued(c)
    BY <2>4 DEF Continued
  <2> QED BY <1>1, <2>2, <2>3, <2>4, AttemptStep
<1> QED BY <1>1, TypedAlways, PTL DEF Spec, AttemptLifecycle

-----------------------------------------------------------------------------
(* What one step may do to the claim an item is under.                      *)

LEMMA ClaimColumn ==
    ASSUME Typed, Typed', [Next]_vars, NEW w \in Works
    PROVE  \/ work'[w].claim = work[w].claim
           \/ work'[w].claim = Null
           \/ work'[w].claim \in AttemptNumbers /\ attempt[<<w, work'[w].claim>>].status = "absent"
<1>1. CASE UNCHANGED work
  BY <1>1
<1>2. ASSUME NEW r \in Repos, NEW x \in Extractors, Schedule(r, x)
      PROVE  work'[w].claim = work[w].claim \/ work'[w].claim = Null
  BY <1>2, ScheduleRewrites
<1>3. ASSUME NEW t \in Stamps, NEW v \in Works, NEW n \in AttemptNumbers, NEW k \in Workers,
             NEW d \in LeaseDurations, Claim(v, n, k, d, t)
      PROVE  \/ work'[w].claim = work[w].claim
             \/ work'[w].claim \in AttemptNumbers
                /\ attempt[<<w, work'[w].claim>>].status = "absent"
  <2>1. /\ work' = [work EXCEPT ![v] = work'[v]]
        /\ work'[v].claim = n /\ attempt[<<v, n>>].status = "absent"
    BY <1>3, ClaimRewrites
  <2>2. CASE v = w
    BY <2>1, <2>2
  <2>3. CASE v # w
    BY <2>1, <2>3 DEF Typed, TypeOK
  <2> QED BY <2>2, <2>3
<1>4. ASSUME NEW c \in Claims, NEW next \in Opt(Works), work' = [work EXCEPT ![c[1]] = ReleasedRow(next)]
      PROVE  work'[w].claim = work[w].claim \/ work'[w].claim = Null
  BY <1>4, ReleasedRowShape DEF Typed, TypeOK
<1>5. ASSUME NEW t \in Stamps, NEW c \in Claims, ClaimStep(c, t)
      PROVE  work'[w].claim = work[w].claim \/ work'[w].claim = Null
  <2>1. ASSUME NEW k \in Workers,
               \/ FinishSucceeded(c, k, t)
               \/ \E f \in FailureClasses : FinishFailed(c, k, f, t)
        PROVE  work'[w].claim = work[w].claim
    <3>1. /\ work' = [work EXCEPT ![c[1]] = work'[c[1]]]
          /\ work'[c[1]].claim = work[c[1]].claim
      BY <2>1, FinishRewrites
    <3> QED BY <3>1 DEF Typed, TypeOK
  <2> QED BY <1>1, <1>4, <1>5, <2>1 DEF ClaimStep, Renew, Recover, Retry, ReleaseFailed, Classify
<1>6. ASSUME NEW t \in Stamps, NEW e \in decisions, NEW next \in Opt(Works),
             ConsumeDecision(e, next, t)
      PROVE  work'[w].claim = work[w].claim \/ work'[w].claim = Null
  <2>1. e.claim \in Claims
    BY DEF Typed, TypeOK, Decision
  <2> QED BY <1>4, <1>6, <2>1 DEF ConsumeDecision, ReleaseFailed
<1> QED BY <1>1, <1>2, <1>3, <1>5, <1>6
        DEF Next, vars, Tick, ObserveChange, ObserveStable, CreateGeneration

\* A claim an item has let go of is never its claim again, so whatever a
\* worker with an old claim id asks for is refused.
THEOREM OldClaimsStayOld == Spec => ClaimNeverReturns
<1>1. ASSUME Typed, Typed', [Next]_vars
      PROVE  \A c \in Claims : work'[c[1]].claim = c[2] /\ work[c[1]].claim # c[2]
                                  => attempt[c].status = "absent"
  <2> SUFFICES ASSUME NEW c \in Claims, work'[c[1]].claim = c[2], work[c[1]].claim # c[2]
               PROVE  attempt[c].status = "absent"
    OBVIOUS
  <2>1. c[1] \in Works /\ c[2] \in Nat /\ c = <<c[1], c[2]>>
    BY ClaimPair DEF AttemptNumbers
  <2> QED BY <1>1, <2>1, ClaimColumn, NullAssumption
<1> QED BY <1>1, TypedAlways, PTL DEF Spec, ClaimNeverReturns

-----------------------------------------------------------------------------
(* A claim is released once.  The strengthening: a released claim is no     *)
(* longer the claim of its item; that it never becomes it again is the      *)
(* lemma above.                                                             *)

Spent == \A e \in releases : attempt[e.claim].status # "absent"
                              /\ work[e.claim[1]].claim # e.claim[2]

LEMMA ReleaseStep ==
    ASSUME Typed, Typed', [Next]_vars
    PROVE  \/ UNCHANGED releases
           \/ \E c \in Claims, e \in Release :
                /\ e.claim = c /\ releases' = releases \cup {e}
                /\ attempt[c].status # "absent" /\ work[c[1]].claim = c[2]
                /\ work'[c[1]].claim = Null
<1>1. ASSUME NEW t \in Stamps, NEW c \in Claims, NEW next \in Opt(Works),
             NEW kind \in {"recovery", "retry", "consumption"},
             releases' = releases \cup {[claim |-> c, kind |-> kind, at |-> t,
                                        supersededBy |-> next]},
             attempt[c].status # "absent", work[c[1]].claim = c[2],
             work' = [work EXCEPT ![c[1]] = ReleasedRow(next)]
      PROVE  \E e \in Release : /\ e.claim = c /\ releases' = releases \cup {e}
                                /\ work'[c[1]].claim = Null
  <2>1. [claim |-> c, kind |-> kind, at |-> t, supersededBy |-> next] \in Release
    BY StampIsTime DEF Release, Typed, TypeOK
  <2>2. work'[c[1]].claim = Null
    BY <1>1, ClaimPair, ReleasedRowShape DEF Typed, TypeOK
  <2> QED BY <1>1, <2>1, <2>2
<1>2. ASSUME NEW t \in Stamps, NEW c \in Claims, NEW next \in Opt(Works), Recover(c, next, t)
      PROVE  \E e \in Release : /\ e.claim = c /\ releases' = releases \cup {e}
                                /\ attempt[c].status # "absent" /\ work[c[1]].claim = c[2]
                                /\ work'[c[1]].claim = Null
  BY <1>1, <1>2 DEF Recover, HoldsClaim
<1>3. ASSUME NEW t \in Stamps, NEW c \in Claims, NEW next \in Opt(Works),
             NEW kind \in {"retry", "consumption"}, ReleaseFailed(c, next, kind, t)
      PROVE  \E e \in Release : /\ e.claim = c /\ releases' = releases \cup {e}
                                /\ attempt[c].status # "absent" /\ work[c[1]].claim = c[2]
                                /\ work'[c[1]].claim = Null
  BY <1>1, <1>3 DEF ReleaseFailed, FailedClaim
<1>4. \A e \in decisions : e.claim \in Claims
  BY DEF Typed, TypeOK, Decision
<1>5. ASSUME NEW t \in Stamps, NEW c \in Claims, ClaimStep(c, t)
      PROVE  \/ UNCHANGED releases
             \/ \E e \in Release : /\ e.claim = c /\ releases' = releases \cup {e}
                                   /\ attempt[c].status # "absent" /\ work[c[1]].claim = c[2]
                                   /\ work'[c[1]].claim = Null
  BY <1>2, <1>3, <1>5
  DEF ClaimStep, Retry, Renew, FinishSucceeded, FinishFailed, Classify
<1>6. ASSUME NEW t \in Stamps, NEW d \in decisions, NEW next \in Opt(Works),
             ConsumeDecision(d, next, t)
      PROVE  \E c \in Claims, e \in Release :
                /\ e.claim = c /\ releases' = releases \cup {e}
                /\ attempt[c].status # "absent" /\ work[c[1]].claim = c[2]
                /\ work'[c[1]].claim = Null
  BY <1>3, <1>4, <1>6 DEF ConsumeDecision
<1> QED BY <1>5, <1>6
        DEF Next, vars, auditVars, Tick, ObserveChange, ObserveStable, CreateGeneration,
            Schedule, Claim

\* Recovery, manual retry and the consumption of a retry decision exclude
\* each other, and each happens at most once, for one and the same claim.
THEOREM ClaimsReleasedOnce == Spec => []ReleasedOnce
<1>1. Init => ReleasedOnce /\ Spent
  BY DEF Init, ReleasedOnce, Spent
<1>2. ASSUME Typed, Typed', Spent, [Next]_vars PROVE Spent'
  <2>1. ASSUME NEW c \in Claims, attempt[c].status # "absent",
               work[c[1]].claim # c[2] \/ work'[c[1]].claim = Null
        PROVE  attempt'[c].status # "absent" /\ work'[c[1]].claim # c[2]
    <3>1. c[1] \in Works /\ c[2] \in Nat /\ c = <<c[1], c[2]>>
      BY ClaimPair DEF AttemptNumbers
    <3>2. attempt'[c].status # "absent"
      BY <1>2, <2>1, AttemptStep DEF Started, Continued
    <3>3. work'[c[1]].claim # c[2]
      BY <1>2, <2>1, <3>1, ClaimColumn, NullAssumption
    <3> QED BY <3>2, <3>3
  <2>2. \A e \in releases : e.claim \in Claims
    BY <1>2 DEF Typed, TypeOK, Release
  <2>3. ASSUME NEW e \in releases PROVE attempt'[e.claim].status # "absent"
                                        /\ work'[e.claim[1]].claim # e.claim[2]
    BY <1>2, <2>1, <2>2 DEF Spent
  <2> QED BY <1>2, <2>1, <2>3, ReleaseStep DEF Spent
<1>3. ASSUME Typed, Typed', Spent, ReleasedOnce, [Next]_vars PROVE ReleasedOnce'
  BY <1>3, ReleaseStep DEF Spent, ReleasedOnce
<1> QED BY <1>1, <1>2, <1>3, TypedAlways, PTL DEF Spec

-----------------------------------------------------------------------------
(* The audit tables (renewals, finishes, decisions and releases): what they *)
(* record stays true of the claim they name, and the failure policy keeps   *)
(* its budget and its backoff.                                              *)

\* AuditReplays, row by row.
RenewalHolds(e) ==
    /\ e.renewedAt < e.prior /\ e.prior < e.leaseExpiresAt
    /\ e.leaseExpiresAt = e.renewedAt + e.duration
    /\ attempt[e.claim].worker = e.worker
    /\ attempt[e.claim].leaseExpiresAt >= e.leaseExpiresAt

FinishHolds(e) ==
    /\ attempt[e.claim].status = e.outcome /\ attempt[e.claim].worker = e.worker
    /\ attempt[e.claim].finishedAt # Null /\ attempt[e.claim].expiredAt = Null

DecisionHolds(e) ==
    /\ attempt[e.claim].status = "failed"
    /\ e = DecisionRow(e.claim, attempt[e.claim].failure, e.decidedAt)
    /\ e.decidedAt >= attempt[e.claim].finishedAt

ReleaseHolds(e) ==
    CASE e.kind = "recovery"    -> attempt[e.claim].expiredAt = e.at
      [] e.kind = "retry"       -> attempt[e.claim].status = "failed"
      [] e.kind = "consumption" ->
           \E d \in decisions : /\ d.claim = e.claim /\ d.decision = "retry"
                                /\ d.retryNotBefore <= e.at

LEMMA AuditByRow ==
    AuditReplays => /\ \A e \in renewals : RenewalHolds(e)
                    /\ \A e \in finishes : FinishHolds(e)
                    /\ \A e \in decisions : DecisionHolds(e)
                    /\ \A e \in releases : ReleaseHolds(e)
  BY DEF AuditReplays, RenewalHolds, FinishHolds, DecisionHolds, ReleaseHolds

LEMMA AuditNext ==
    ASSUME \A e \in renewals' : RenewalHolds(e)', \A e \in finishes' : FinishHolds(e)',
           \A e \in decisions' : DecisionHolds(e)', \A e \in releases' : ReleaseHolds(e)'
    PROVE  AuditReplays'
  BY DEF AuditReplays, RenewalHolds, FinishHolds, DecisionHolds, ReleaseHolds

\* What an attempt keeps once it has started, and once it has ended.
LEMMA AttemptPersists ==
    ASSUME Typed, Typed', [Next]_vars, NEW c \in Claims, attempt[c].status # "absent"
    PROVE  /\ attempt'[c].status # "absent"
           /\ attempt'[c].worker = attempt[c].worker
           /\ attempt[c].leaseExpiresAt \in Nat /\ attempt'[c].leaseExpiresAt \in Nat
           /\ attempt'[c].leaseExpiresAt >= attempt[c].leaseExpiresAt
           /\ attempt[c].status # "running" => attempt'[c] = attempt[c]
<1>1. attempt[c].leaseExpiresAt \in Nat
  BY DEF Typed, TypeOK, RowChecks, AttemptRow, AttemptCheck, Opt, Time
<1>2. CASE attempt'[c] = attempt[c]
  BY <1>1, <1>2
<1>3. CASE Continued(c)
  BY <1>1, <1>3 DEF Continued
<1>4. ~ Started(c)
  BY DEF Started
<1> QED BY <1>2, <1>3, <1>4, AttemptStep

\* Rows that are there already keep holding.
LEMMA AuditKeeps ==
    ASSUME Typed, Typed', [Next]_vars, AuditReplays
    PROVE  /\ \A e \in renewals : RenewalHolds(e)'
           /\ \A e \in finishes : FinishHolds(e)'
           /\ \A e \in decisions : DecisionHolds(e)'
<1>1. ASSUME NEW e \in renewals PROVE RenewalHolds(e)'
  <2>1. e.claim \in Claims /\ e.worker \in Workers /\ e.leaseExpiresAt \in Nat
    BY DEF Typed, TypeOK, Renewal, Time
  <2>2. RenewalHolds(e)
    BY AuditByRow
  <2>3. attempt[e.claim].status # "absent"
    BY <2>1, <2>2, NullAssumption DEF RenewalHolds, Typed, RowChecks, AttemptCheck
  <2> QED BY <2>1, <2>2, <2>3, AttemptPersists DEF RenewalHolds
<1>2. ASSUME NEW e \in finishes PROVE FinishHolds(e)'
  <2>1. e.claim \in Claims /\ e.outcome \in {"succeeded", "failed"}
    BY DEF Typed, TypeOK, Finish
  <2>2. FinishHolds(e)
    BY AuditByRow
  <2>3. attempt'[e.claim] = attempt[e.claim]
    BY <2>1, <2>2, AttemptPersists DEF FinishHolds
  <2> QED BY <2>2, <2>3 DEF FinishHolds
<1>3. ASSUME NEW e \in decisions PROVE DecisionHolds(e)'
  <2>1. e.claim \in Claims
    BY DEF Typed, TypeOK, Decision
  <2>2. DecisionHolds(e)
    BY AuditByRow
  <2>3. attempt'[e.claim] = attempt[e.claim]
    BY <2>1, <2>2, AttemptPersists DEF DecisionHolds
  <2> QED BY <2>2, <2>3 DEF DecisionHolds
<1> QED BY <1>1, <1>2, <1>3

\* Decisions are never taken back.
LEMMA DecisionsGrow ==
    ASSUME [Next]_vars PROVE decisions \subseteq decisions'
<1>1. ASSUME NEW c \in Claims, NEW t \in Stamps, ClaimStep(c, t)
      PROVE  decisions \subseteq decisions'
  BY <1>1 DEF ClaimStep, Renew, FinishSucceeded, FinishFailed, Recover, Retry, ReleaseFailed,
              Classify
<1>2. ASSUME NEW t \in Stamps, NEW d \in decisions, NEW next \in Opt(Works),
             ConsumeDecision(d, next, t)
      PROVE  decisions \subseteq decisions'
  BY <1>2 DEF ConsumeDecision, ReleaseFailed
<1> QED BY <1>1, <1>2
        DEF Next, vars, auditVars, Tick, ObserveChange, ObserveStable, CreateGeneration,
            Schedule, Claim

LEMMA ReleasesKeep ==
    ASSUME Typed, Typed', [Next]_vars, AuditReplays, NEW e \in releases
    PROVE  ReleaseHolds(e)'
<1>1. /\ e.claim \in Claims /\ e.at \in Nat
      /\ e.kind \in {"recovery", "retry", "consumption"}
  BY DEF Typed, TypeOK, Release, Time
<1>2. ReleaseHolds(e)
  BY AuditByRow
<1>3. CASE e.kind = "recovery"
  <2>1. attempt[e.claim].expiredAt = e.at
    BY <1>2, <1>3 DEF ReleaseHolds
  <2>2. attempt[e.claim].status = "expired"
    BY <1>1, <2>1, NullAssumption DEF Typed, RowChecks, AttemptCheck
  <2> QED BY <1>1, <1>3, <2>1, <2>2, AttemptPersists DEF ReleaseHolds
<1>4. CASE e.kind = "retry"
  <2>1. attempt[e.claim].status = "failed"
    BY <1>2, <1>4 DEF ReleaseHolds
  <2> QED BY <1>1, <1>4, <2>1, AttemptPersists DEF ReleaseHolds
<1>5. CASE e.kind = "consumption"
  <2>1. \E d \in decisions : /\ d.claim = e.claim /\ d.decision = "retry"
                             /\ d.retryNotBefore <= e.at
    BY <1>2, <1>5 DEF ReleaseHolds
  <2> QED BY <1>5, <2>1, DecisionsGrow DEF ReleaseHolds
<1> QED BY <1>1, <1>3, <1>4, <1>5

-----------------------------------------------------------------------------
(* The row an operation adds holds when it is added.                        *)

LEMMA RenewalAdded ==
    ASSUME Typed, Typed', NEW c \in Claims, NEW k \in Workers, NEW d \in LeaseDurations,
           NEW t \in Stamps, Renew(c, k, d, t), NEW e \in renewals', e \notin renewals
    PROVE  RenewalHolds(e)'
<1> DEFINE prior == attempt[c].leaseExpiresAt
<1>1. e = [claim |-> c, worker |-> k, prior |-> prior, renewedAt |-> t, duration |-> d,
           leaseExpiresAt |-> t + d]
  BY DEF Renew
<1>2. /\ e.claim = c /\ e.worker = k /\ e.prior = prior /\ e.renewedAt = t
      /\ e.duration = d /\ e.leaseExpiresAt = t + d
  BY <1>1
<1>3. t < prior /\ t + d > prior /\ attempt[c].worker = k
  BY DEF Renew, Extends, HoldsClaim
<1>4. /\ t \in Nat /\ d \in Nat /\ prior \in Nat
      /\ attempt'[c].worker = attempt[c].worker /\ attempt'[c].leaseExpiresAt = t + d
  BY StampIsNat, LeaseAssumption, RenewRewrites
<1> QED BY <1>2, <1>3, <1>4 DEF RenewalHolds

LEMMA FinishAdded ==
    ASSUME Typed, Typed', NEW c \in Claims, NEW k \in Workers, NEW t \in Stamps,
           \/ FinishSucceeded(c, k, t)
           \/ \E f \in FailureClasses : FinishFailed(c, k, f, t),
           NEW e \in finishes', e \notin finishes
    PROVE  FinishHolds(e)'
<1>1. attempt[c].worker = k /\ attempt[c].status = "running"
  BY DEF FinishSucceeded, FinishFailed, MayFinish, HoldsClaim
<1>2. CASE FinishSucceeded(c, k, t)
  <2>1. e = [claim |-> c, worker |-> k, outcome |-> "succeeded"]
    BY <1>2 DEF FinishSucceeded
  <2>2. attempt'[c].status = "succeeded"
    BY <1>2, FinishSucceededRewrites
  <2>3. attempt'[c].worker = k
    BY <1>1, <1>2, FinishRewrites
  <2>4. attempt'[c].finishedAt # Null /\ attempt'[c].expiredAt = Null
    BY <2>2 DEF Typed, RowChecks, AttemptCheck
  <2> QED BY <2>1, <2>2, <2>3, <2>4 DEF FinishHolds
<1>3. CASE \E f \in FailureClasses : FinishFailed(c, k, f, t)
  <2>1. e = [claim |-> c, worker |-> k, outcome |-> "failed"]
    BY <1>3 DEF FinishFailed
  <2>2. attempt'[c].status = "failed"
    BY <1>3, FinishFailedRewrites
  <2>3. attempt'[c].worker = k
    BY <1>1, <1>3, FinishRewrites
  <2>4. attempt'[c].finishedAt # Null /\ attempt'[c].expiredAt = Null
    BY <2>2 DEF Typed, RowChecks, AttemptCheck
  <2> QED BY <2>1, <2>2, <2>3, <2>4 DEF FinishHolds
<1> QED BY <1>2, <1>3

LEMMA DecisionAdded ==
    ASSUME Typed, Typed', NEW c \in Claims, NEW t \in Stamps, Classify(c, t),
           NEW e \in decisions', e \notin decisions
    PROVE  DecisionHolds(e)'
<1>1. e = DecisionRow(c, attempt[c].failure, t)
  BY DEF Classify
<1>2. e.claim = c /\ e.decidedAt = t
  BY <1>1 DEF DecisionRow
<1>3. /\ attempt' = attempt /\ attempt[c].status = "failed"
      /\ t >= attempt[c].finishedAt
  BY DEF Classify, FailedClaim
<1> QED BY <1>1, <1>2, <1>3 DEF DecisionHolds

LEMMA RecoveryAdded ==
    ASSUME Typed, Typed', NEW c \in Claims, NEW next \in Opt(Works), NEW t \in Stamps,
           Recover(c, next, t), NEW e \in releases', e \notin releases
    PROVE  ReleaseHolds(e)'
<1>1. e = [claim |-> c, kind |-> "recovery", at |-> t, supersededBy |-> next]
  BY DEF Recover
<1>2. attempt'[c].expiredAt = t
  BY RecoverRewrites
<1> QED BY <1>1, <1>2 DEF ReleaseHolds

LEMMA RetryAdded ==
    ASSUME Typed, NEW c \in Claims, NEW next \in Opt(Works), NEW t \in Stamps,
           Retry(c, next, t), NEW e \in releases', e \notin releases
    PROVE  ReleaseHolds(e)'
<1>1. e = [claim |-> c, kind |-> "retry", at |-> t, supersededBy |-> next]
  BY DEF Retry, ReleaseFailed
<1>2. attempt'[c].status = "failed"
  BY DEF Retry, ReleaseFailed, FailedClaim
<1> QED BY <1>1, <1>2 DEF ReleaseHolds

LEMMA ConsumptionAdded ==
    ASSUME Typed, NEW d \in decisions, NEW next \in Opt(Works), NEW t \in Stamps,
           ConsumeDecision(d, next, t), NEW e \in releases', e \notin releases
    PROVE  ReleaseHolds(e)'
<1>1. e = [claim |-> d.claim, kind |-> "consumption", at |-> t, supersededBy |-> next]
  BY DEF ConsumeDecision, ReleaseFailed
<1>2. d \in decisions' /\ d.decision = "retry" /\ d.retryNotBefore <= t
  <2>1. d.decision = "retry" /\ t >= d.retryNotBefore /\ decisions' = decisions
    BY DEF ConsumeDecision, Due, ReleaseFailed
  <2>2. t \in Nat /\ d.retryNotBefore \in Opt(Nat)
    BY StampIsNat DEF Typed, TypeOK, Decision, Time
  <2> QED BY <2>1
<1> QED BY <1>1, <1>2 DEF ReleaseHolds

LEMMA AuditClaimStep ==
    ASSUME Typed, Typed', NEW c \in Claims, NEW t \in Stamps, ClaimStep(c, t)
    PROVE  /\ \A e \in renewals' : e \in renewals \/ RenewalHolds(e)'
           /\ \A e \in finishes' : e \in finishes \/ FinishHolds(e)'
           /\ \A e \in decisions' : e \in decisions \/ DecisionHolds(e)'
           /\ \A e \in releases' : e \in releases \/ ReleaseHolds(e)'
<1>1. ASSUME NEW k \in Workers, NEW d \in LeaseDurations, Renew(c, k, d, t)
      PROVE  /\ \A e \in renewals' : e \in renewals \/ RenewalHolds(e)'
             /\ UNCHANGED <<finishes, decisions, releases>>
  BY <1>1, RenewalAdded DEF Renew
<1>2. ASSUME NEW k \in Workers,
             \/ FinishSucceeded(c, k, t)
             \/ \E f \in FailureClasses : FinishFailed(c, k, f, t)
      PROVE  /\ \A e \in finishes' : e \in finishes \/ FinishHolds(e)'
             /\ UNCHANGED <<renewals, decisions, releases>>
  BY <1>2, FinishAdded DEF FinishSucceeded, FinishFailed
<1>3. ASSUME NEW next \in Opt(Works), Recover(c, next, t)
      PROVE  /\ \A e \in releases' : e \in releases \/ ReleaseHolds(e)'
             /\ UNCHANGED <<renewals, finishes, decisions>>
  BY <1>3, RecoveryAdded DEF Recover
<1>4. ASSUME NEW next \in Opt(Works), Retry(c, next, t)
      PROVE  /\ \A e \in releases' : e \in releases \/ ReleaseHolds(e)'
             /\ UNCHANGED <<renewals, finishes, decisions>>
  BY <1>4, RetryAdded DEF Retry, ReleaseFailed
<1>5. ASSUME Classify(c, t)
      PROVE  /\ \A e \in decisions' : e \in decisions \/ DecisionHolds(e)'
             /\ UNCHANGED <<renewals, finishes, releases>>
  BY <1>5, DecisionAdded DEF Classify
<1> QED BY <1>1, <1>2, <1>3, <1>4, <1>5 DEF ClaimStep

LEMMA AuditStep == Typed /\ Typed' /\ AuditReplays /\ [Next]_vars => AuditReplays'
<1> SUFFICES ASSUME Typed, Typed', AuditReplays, [Next]_vars PROVE AuditReplays'
  OBVIOUS
<1>1. CASE UNCHANGED auditVars
  BY <1>1, AuditKeeps, ReleasesKeep, AuditNext DEF auditVars
<1>2. ASSUME NEW c \in Claims, NEW t \in Stamps, ClaimStep(c, t) PROVE AuditReplays'
  BY <1>2, AuditClaimStep, AuditKeeps, ReleasesKeep, AuditNext
<1>3. ASSUME NEW t \in Stamps, NEW d \in decisions, NEW next \in Opt(Works),
             ConsumeDecision(d, next, t)
      PROVE  AuditReplays'
  <2>1. UNCHANGED <<renewals, finishes, decisions>>
    BY <1>3 DEF ConsumeDecision, ReleaseFailed
  <2> QED BY <1>3, <2>1, ConsumptionAdded, AuditKeeps, ReleasesKeep, AuditNext
<1> QED BY <1>1, <1>2, <1>3
        DEF Next, vars, auditVars, Tick, ObserveChange, ObserveStable, CreateGeneration,
            Schedule, Claim

\* Whatever a request recorded about a claim is still what the claim's row
\* says, however far the claim has moved on: replaying a finish, a renewal, a
\* recovery, a retry or a decision never meets the code's conflict errors.
THEOREM RequestsReplay == Spec => []AuditReplays
<1>1. Init => AuditReplays
  BY DEF Init, AuditReplays
<1> QED BY <1>1, AuditStep, TypedAlways, PTL DEF Spec

-----------------------------------------------------------------------------
(* The retry budget: the policy decides "retry" for the first two attempts  *)
(* of an item only, and a claim's decision is consumed at most once.        *)

\* The decision a consumption rests on, read from its claim.
LEMMA Granted ==
    ASSUME Typed, AuditReplays, NEW e \in releases, e.kind = "consumption"
    PROVE  /\ e.claim \in Claims /\ e.claim[2] \in 1..2 /\ e.at \in Nat
           /\ attempt[e.claim].status = "failed" /\ attempt[e.claim].finishedAt \in Nat
           /\ attempt[e.claim].finishedAt + Backoff(e.claim[2]) <= e.at
<1>1. e.claim \in Claims /\ e.at \in Nat
  BY DEF Typed, TypeOK, Release, Time
<1>2. PICK d \in decisions : /\ d.claim = e.claim /\ d.decision = "retry"
                             /\ d.retryNotBefore <= e.at
  BY AuditByRow DEF ReleaseHolds
<1> DEFINE a == attempt[e.claim]
           n == e.claim[2]
<1>3. /\ a.status = "failed" /\ d.decidedAt >= a.finishedAt
      /\ d = DecisionRow(e.claim, a.failure, d.decidedAt)
  BY <1>2, AuditByRow DEF DecisionHolds
<1>4. d.decision = Decide(a.failure, n) /\ d.decidedAt \in Nat
  BY <1>3 DEF DecisionRow, Typed, TypeOK, Decision, Time
<1>5. n \in Nat /\ n >= 1
  BY <1>1, ClaimPair DEF AttemptNumbers
<1>6. n < 3
  BY <1>2, <1>4, <1>5 DEF Decide, PolicyMaxAttempts
<1>7. d.retryNotBefore = d.decidedAt + Backoff(n)
  BY <1>2, <1>3, <1>4 DEF DecisionRow
<1>8. a.finishedAt \in Nat
  BY <1>1, <1>3 DEF Typed, TypeOK, RowChecks, AttemptRow, AttemptCheck, Opt, Time
<1>9. Backoff(n) \in Nat
  BY BackoffAssumption DEF Backoff
<1>10. a.finishedAt + Backoff(n) <= e.at
  BY <1>1, <1>2, <1>3, <1>4, <1>7, <1>8, <1>9
<1>11. n \in 1..2
  BY <1>5, <1>6
<1> QED BY <1>1, <1>3, <1>8, <1>10, <1>11

LEMMA BudgetKept == ASSUME Typed, AuditReplays, ReleasedOnce PROVE RetryBudget
<1> SUFFICES ASSUME NEW w \in Works
             PROVE  Cardinality({e \in releases : e.kind = "consumption" /\ e.claim[1] = w}) < 3
  BY DEF RetryBudget, PolicyMaxAttempts
<1> DEFINE S == {e \in releases : e.kind = "consumption" /\ e.claim[1] = w}
           f == [e \in S |-> e.claim[2]]
<1>1. f \in [S -> 1..2]
  BY Granted
<1>2. ASSUME NEW d \in S, NEW e \in S, f[d] = f[e] PROVE d = e
  <2>1. d.claim \in Claims /\ e.claim \in Claims
    BY Granted
  <2>2. d.claim = e.claim
    BY <1>2, <2>1, ClaimPair
  <2> QED BY <2>2 DEF ReleasedOnce
<1>3. f \in Injection(S, 1..2)
  BY <1>1, <1>2 DEF Injection, IsInjective
<1>4. IsFiniteSet(1..2) /\ Cardinality(1..2) = 2
  <2>1. 1 \in Int /\ 2 \in Int
    OBVIOUS
  <2>2. /\ IsFiniteSet(1..2)
        /\ Cardinality(1..2) = IF 1 > 2 THEN 0 ELSE 2 - 1 + 1
    BY <2>1, FS_Interval, Zenon
  <2> QED BY <2>2
<1>5. Cardinality(S) <= 2 /\ IsFiniteSet(S)
  BY <1>3, <1>4, FS_Injection
<1> QED BY <1>5, FS_CardinalityType

-----------------------------------------------------------------------------
(* The backoff.  A retry is released once the backoff of its decision has   *)
(* passed, at a time that has passed itself; the item's next claim starts   *)
(* after the release, at a stamp at most MaxLag old.                        *)

ReleasedInPast == \A e \in releases : e.at <= now

\* The claim an item names is its last one.
NamesLastClaim ==
    \A w \in Works, n \in AttemptNumbers :
        work[w].claim \in AttemptNumbers /\ n > work[w].claim
            => attempt[<<w, n>>].status = "absent"

LEMMA LastClaimStep ==
    ASSUME Typed, Typed', AttemptsInOrder, NamesLastClaim, [Next]_vars
    PROVE  NamesLastClaim'
<1> SUFFICES ASSUME NEW w \in Works, NEW n \in AttemptNumbers,
                    work'[w].claim \in AttemptNumbers, n > work'[w].claim,
                    attempt'[<<w, n>>].status # "absent"
             PROVE  FALSE
  BY DEF NamesLastClaim
<1> DEFINE m == work'[w].claim
           c == <<w, n>>
<1>1. /\ c \in Claims /\ c[1] = w /\ c[2] = n
      /\ m \in Nat /\ n \in Nat /\ n > 1 /\ n - 1 \in AttemptNumbers /\ m # Null
  BY BoundsAssumption, NullAssumption DEF Claims, AttemptNumbers
<1>2. CASE attempt[c].status # "absent"
  <2>1. attempt[<<w, m>>].status # "absent"
    BY <1>1, <1>2 DEF AttemptsInOrder
  <2>2. work[w].claim # m
    BY <1>1, <1>2 DEF NamesLastClaim
  <2> QED BY <1>1, <2>1, <2>2, ClaimColumn
<1>3. CASE attempt[c].status = "absent"
  <2>1. Started(c)
    BY <1>1, <1>3, AttemptStep DEF Continued
  <2>2. work[w].claim = Null /\ attempt[<<w, n - 1>>].status # "absent"
    BY <1>1, <2>1 DEF Started, IsNextAttempt, Typed, RowChecks, WorkCheck
  <2>3. attempt[<<w, m>>].status = "absent"
    BY <1>1, <2>2, ClaimColumn
  <2>4. CASE m = n - 1
    BY <2>2, <2>3, <2>4
  <2>5. CASE m < n - 1
    BY <1>1, <2>2, <2>3, <2>5 DEF AttemptsInOrder
  <2> QED BY <1>1, <2>4, <2>5
<1> QED BY <1>2, <1>3

LEMMA NowStep == ASSUME Typed, [Next]_vars PROVE now \in Nat /\ now' \in Nat /\ now <= now'
<1>1. now \in Nat
  BY DEF Typed, TypeOK, Time
<1>2. now' = now \/ now' = now + 1
  <2>1. ASSUME NEW c \in Claims, NEW t \in Stamps, ClaimStep(c, t) PROVE now' = now
    BY <2>1 DEF ClaimStep, Renew, FinishSucceeded, FinishFailed, Recover, Retry, ReleaseFailed,
                Classify, envVars
  <2> QED BY <2>1 DEF Next, vars, Tick, ObserveChange, ObserveStable, CreateGeneration,
                      Schedule, Claim, ConsumeDecision, ReleaseFailed, envVars
<1> QED BY <1>1, <1>2

\* A release carries a stamp of its step.
LEMMA ReleaseStamp ==
    ASSUME Typed, [Next]_vars, NEW e \in releases', e \notin releases PROVE e.at \in Stamps
<1>1. ASSUME NEW c \in Claims, NEW next \in Opt(Works), NEW t \in Stamps, Recover(c, next, t)
      PROVE  e.at \in Stamps
  BY <1>1 DEF Recover
<1>2. ASSUME NEW c, NEW next, NEW kind, NEW t \in Stamps, ReleaseFailed(c, next, kind, t)
      PROVE  e.at \in Stamps
  BY <1>2 DEF ReleaseFailed
<1>3. ASSUME NEW c \in Claims, NEW t \in Stamps, ClaimStep(c, t) PROVE e.at \in Stamps
  BY <1>1, <1>2, <1>3 DEF ClaimStep, Retry, Renew, FinishSucceeded, FinishFailed, Classify
<1>4. ASSUME NEW t \in Stamps, NEW d \in decisions, NEW next \in Opt(Works),
             ConsumeDecision(d, next, t)
      PROVE  e.at \in Stamps
  BY <1>2, <1>4 DEF ConsumeDecision
<1> QED BY <1>3, <1>4
        DEF Next, vars, auditVars, Tick, ObserveChange, ObserveStable, CreateGeneration,
            Schedule, Claim

LEMMA InPastStep ==
    ASSUME Typed, [Next]_vars, ReleasedInPast PROVE ReleasedInPast'
<1> SUFFICES ASSUME NEW e \in releases' PROVE e.at <= now'
  BY DEF ReleasedInPast
<1>1. CASE e \in releases
  <2>1. e.at \in Nat /\ e.at <= now
    BY <1>1 DEF ReleasedInPast, Typed, TypeOK, Release, Time
  <2> QED BY <2>1, NowStep
<1>2. CASE e \notin releases
  <2>1. e.at \in Nat /\ e.at <= now
    BY <1>2, ReleaseStamp, NowStep DEF Stamps
  <2> QED BY <2>1, NowStep
<1> QED BY <1>1, <1>2

LEMMA BackoffStep ==
    ASSUME Typed, Typed', AuditReplays, AuditReplays', NamesLastClaim, ReleasedInPast,
           BackoffObserved, [Next]_vars
    PROVE  BackoffObserved'
<1> SUFFICES ASSUME NEW e \in releases', e.kind = "consumption", NEW n \in AttemptNumbers,
                    n = e.claim[2] + 1, attempt'[<<e.claim[1], n>>].status # "absent"
             PROVE  attempt'[<<e.claim[1], n>>].claimedAt + MaxLag
                        >= attempt'[e.claim].finishedAt + Backoff(e.claim[2])
  BY DEF BackoffObserved
<1> DEFINE b == e.claim
           c == <<b[1], n>>
           due == attempt[b].finishedAt + Backoff(b[2])
<1>1. e.claim \in Claims /\ b[1] \in Works /\ b[2] \in AttemptNumbers
  BY ClaimPair DEF Typed, TypeOK, Release
<1>2. c \in Claims /\ c[1] = b[1] /\ c[2] = n /\ n \in Nat /\ b[2] \in Nat /\ n > b[2]
  BY <1>1 DEF Claims, AttemptNumbers
<1>3. CASE e \in releases
  <2>1. attempt[b].status = "failed" /\ due \in Nat /\ due <= e.at /\ e.at \in Nat
    BY <1>1, <1>2, <1>3, Granted, BackoffAssumption DEF Backoff
  <2>2. attempt'[b] = attempt[b]
    BY <1>1, <2>1, AttemptPersists
  <2>3. CASE attempt[c].status # "absent"
    <3>1. attempt[c].claimedAt + MaxLag >= due
      BY <1>3, <2>3 DEF BackoffObserved
    <3>2. attempt'[c].claimedAt = attempt[c].claimedAt
      BY <1>2, <2>3, AttemptStep DEF Started, Continued
    <3> QED BY <2>2, <3>1, <3>2
  <2>4. CASE attempt[c].status = "absent"
    <3>1. Started(c)
      BY <1>2, <2>4, AttemptStep DEF Continued
    <3>2. attempt'[c].claimedAt \in Nat /\ now <= attempt'[c].claimedAt + MaxLag
      BY <3>1 DEF Started
    <3>3. now \in Nat /\ e.at <= now
      BY <1>3, NowStep DEF ReleasedInPast
    <3> QED BY <2>1, <2>2, <3>2, <3>3, BoundsAssumption
  <2> QED BY <2>3, <2>4
<1>4. CASE e \notin releases
  <2>1. work[b[1]].claim = b[2]
    BY <1>4, ReleaseStep
  <2>2. attempt[c].status = "absent"
    BY <1>1, <1>2, <2>1 DEF NamesLastClaim
  <2>3. work[b[1]].status = "pending"
    BY <1>2, <2>2, AttemptStep DEF Started, Continued
  <2> QED BY <1>1, <1>2, <2>1, <2>3, NullAssumption DEF Typed, RowChecks, WorkCheck
<1> QED BY <1>3, <1>4

\* The failure policy keeps its word through every mixture of manual retries,
\* recoveries and consumed decisions: at most two retries of an item, and the
\* next claim no earlier than the backoff after the failure.
THEOREM PolicyKept == Spec => []PolicyObserved
<1>1. Init => ReleasedInPast /\ NamesLastClaim /\ BackoffObserved
  BY NullAssumption
  DEF Init, ReleasedInPast, NamesLastClaim, BackoffObserved, BlankWork, AttemptNumbers
<1>2. Typed /\ AuditReplays /\ ReleasedOnce /\ BackoffObserved => PolicyObserved
  BY BudgetKept DEF PolicyObserved
<1> QED BY <1>1, <1>2, LastClaimStep, InPastStep, BackoffStep, TypedAlways, RequestsReplay,
           AttemptsFollowEachOther, ClaimsReleasedOnce, PTL DEF Spec

=============================================================================

--------------------------- MODULE ExtractionWork ---------------------------
(***************************************************************************)
(* The repository extraction work queue of internal/evidenceingestion      *)
(* (files repository_extraction_work*.go): observations of a Git           *)
(* repository become work items, one per extractor stream; a worker claims *)
(* the pending item of a stream under a lease, renews the lease, finishes  *)
(* the item; expired claims are recovered and failed ones retried, by hand *)
(* or through a persisted decision of the retry policy.                    *)
(*                                                                         *)
(* Every operation of the code is one PostgreSQL transaction that locks    *)
(* the stream's row first, hence one action here.  The operation takes its *)
(* timestamp BEFORE it waits for the lock: an action carries a time stamp  *)
(* that lies up to MaxLag behind the clock at which it commits.            *)
(***************************************************************************)
EXTENDS Naturals, FiniteSets

CONSTANTS Repos,            \* repo_id values
          Extractors,       \* allowlisted extractor names
          Workers,          \* worker_id values
          Commits,          \* head commits an observation may show
          MaxObservation,   \* bound: observation numbers per repository
          MaxClaims,        \* bound: claim attempts per work item
          MaxTime,          \* bound: the last clock value
          MaxLag,           \* bound: age of a stamp when its transaction commits
          LeaseDurations,   \* lease_duration_milliseconds callers ask for
          FailureClasses,   \* classes of failure workers report
          BaseBackoff,      \* repositoryExtractionWorkFailurePolicyBaseBackoff
          HeadCommit,       \* HeadCommit[o]: HEAD of the o-th observation
          Clean,            \* the observation numbers whose tree is not dirty
          Null              \* SQL NULL

ASSUME BoundsAssumption ==
    /\ MaxObservation \in Nat /\ MaxClaims \in Nat
    /\ MaxTime \in Nat /\ MaxLag \in Nat

\* Leases are validated to lie between one millisecond and one hour.
ASSUME LeaseAssumption == LeaseDurations \subseteq Nat \ {0}

ASSUME BackoffAssumption == BaseBackoff \in Nat \ {0}

ASSUME FailureAssumption ==
    FailureClasses \subseteq {"runner", "separate_repair", "deterministic", "unclassified"}

ASSUME ObservationAssumption ==
    /\ HeadCommit \in [1..MaxObservation -> Commits]
    /\ Clean \subseteq 1..MaxObservation

\* NULL is none of the values a nullable column can hold otherwise.
ASSUME NullAssumption ==
    /\ Null \notin Nat /\ Null \notin Workers /\ Null \notin Commits
    /\ Null \notin FailureClasses
    /\ Null \notin Repos \X Extractors \X (1..MaxObservation)

Observations == 1..MaxObservation
Streams      == Repos \X Extractors
\* The stable id of a work item is a hash of its observation and extractor.
Works        == Repos \X Extractors \X Observations
AttemptNumbers == 1..MaxClaims
\* A claim id names one attempt at one work item.
Claims       == Works \X AttemptNumbers

StreamOf(w) == <<w[1], w[2]>>
ObsOf(w)    == w[3]

VARIABLES
  now,          \* wall clock
  latest,       \* latest[r]: number of the newest observation of r, 0 if none
  stable,       \* stable[r]: some request found that observation stable
  generations,  \* <<repo, extractor, commit>> of the source generations
  work,         \* table repository_extraction_work_items
  attempt,      \* table repository_extraction_work_claim_attempts
  renewals,     \* table ..._lease_renewal_requests
  finishes,     \* table ..._finish_requests
  releases,     \* tables ..._recovery_requests, ..._retry_requests and
                \* ..._retry_decision_consumptions
  decisions     \* table ..._failure_policy_decisions

envVars   == <<now, latest, stable, generations>>
auditVars == <<renewals, finishes, releases, decisions>>
vars      == <<now, latest, stable, generations, work, attempt,
               renewals, finishes, releases, decisions>>

Time == Nat
Opt(S) == S \cup {Null}

WorkStatus    == {"absent", "pending", "running", "succeeded", "failed", "superseded"}
AttemptStatus == {"absent", "running", "succeeded", "failed", "expired"}

WorkRow == [status : WorkStatus, supersededBy : Opt(Works), claim : Opt(AttemptNumbers),
            claimedBy : Opt(Workers), claimedAt : Opt(Time), finishedAt : Opt(Time),
            failure : Opt(FailureClasses), generation : Opt(Commits)]

AttemptRow == [status : AttemptStatus, worker : Opt(Workers), claimedAt : Opt(Time),
               leaseExpiresAt : Opt(Time), finishedAt : Opt(Time), expiredAt : Opt(Time),
               failure : Opt(FailureClasses), generation : Opt(Commits)]

Renewal  == [claim : Claims, worker : Workers, prior : Time, renewedAt : Time,
             duration : LeaseDurations, leaseExpiresAt : Time]
Finish   == [claim : Claims, worker : Workers, outcome : {"succeeded", "failed"}]
Release  == [claim : Claims, kind : {"recovery", "retry", "consumption"},
             at : Time, supersededBy : Opt(Works)]
Verdict  == {"retry", "stop", "manual_review", "exhausted"}
Decision == [claim : Claims, failure : FailureClasses, decision : Verdict,
             decidedAt : Time, retryNotBefore : Opt(Time)]

BlankWork == [status |-> "absent", supersededBy |-> Null, claim |-> Null,
              claimedBy |-> Null, claimedAt |-> Null, finishedAt |-> Null,
              failure |-> Null, generation |-> Null]
BlankAttempt == [status |-> "absent", worker |-> Null, claimedAt |-> Null,
                 leaseExpiresAt |-> Null, finishedAt |-> Null, expiredAt |-> Null,
                 failure |-> Null, generation |-> Null]

Init ==
    /\ now = 0
    /\ latest = [r \in Repos |-> 0]
    /\ stable = [r \in Repos |-> FALSE]
    /\ generations = {}
    /\ work = [w \in Works |-> BlankWork]
    /\ attempt = [c \in Claims |-> BlankAttempt]
    /\ renewals = {} /\ finishes = {} /\ releases = {} /\ decisions = {}

-----------------------------------------------------------------------------
(* Reading the tables.                                                      *)

\* A stamp a transaction committing now may carry.
Stamps == {t \in 0..now : now - t <= MaxLag}

InStream(s)   == {w \in Works : StreamOf(w) = s}
Pending(ws, s) == {w \in InStream(s) : ws[w].status = "pending"}
Running(ws, s) == {w \in InStream(s) : ws[w].status = "running"}

\* Wrong variant: the maximum is taken over attempts that have not expired.
NextAfterRunning(w, n) ==
    LET counted == {m \in AttemptNumbers : attempt[<<w, m>>].status \notin {"absent", "expired"}} IN
    /\ \A m \in counted : m < n
    /\ n > 1 => n - 1 \in counted

\* COALESCE(MAX(attempt_number), 0) + 1 over the attempts at w.
IsNextAttempt(w, n) ==
    /\ \A m \in AttemptNumbers : attempt[<<w, m>>].status # "absent" => m < n
    /\ n > 1 => attempt[<<w, n - 1>>].status # "absent"

\* The work row and the claim's row agree that k holds claim c and runs it.
HoldsClaim(c, k) ==
    LET row == work[c[1]] a == attempt[c] IN
    /\ row.status = "running" /\ row.claim = c[2] /\ row.claimedBy = k
    /\ a.status = "running" /\ a.worker = k /\ a.claimedAt = row.claimedAt

\* Wrong variant: looks at the attempt only.
FailedAttempt(c) == attempt[c].status = "failed"

\* The work row and the claim's row agree that claim c failed.
FailedClaim(c) ==
    LET row == work[c[1]] a == attempt[c] IN
    /\ row.status = "failed" /\ row.claim = c[2]
    /\ Null \notin {row.claimedBy, row.claimedAt, row.finishedAt, row.failure}
    /\ a.status = "failed" /\ a.worker = row.claimedBy /\ a.expiredAt = Null
    /\ a.claimedAt = row.claimedAt /\ a.finishedAt = row.finishedAt
    /\ a.failure = row.failure

-----------------------------------------------------------------------------
(* The environment: the clock, the repository, and the extractor runs.      *)

Tick ==
    /\ now < MaxTime
    /\ now' = now + 1
    /\ UNCHANGED <<latest, stable, generations, work, attempt>> /\ UNCHANGED auditVars

\* A changed tree opens the next observation window of the repository.
ObserveChange(r) ==
    /\ latest[r] < MaxObservation
    /\ latest' = [latest EXCEPT ![r] = @ + 1]
    /\ stable' = [stable EXCEPT ![r] = FALSE]
    /\ UNCHANGED <<now, generations, work, attempt>> /\ UNCHANGED auditVars

\* A repeated observation of the same tree, late enough, is recorded stable.
ObserveStable(r) ==
    /\ latest[r] > 0
    /\ stable' = [stable EXCEPT ![r] = TRUE]
    /\ UNCHANGED <<now, latest, generations, work, attempt>> /\ UNCHANGED auditVars

\* A completed extraction of an observed commit becomes a source generation.
CreateGeneration(r, x, o) ==
    /\ o <= latest[r]
    /\ generations' = generations \cup {<<r, x, HeadCommit[o]>>}
    /\ UNCHANGED <<now, latest, stable, work, attempt>> /\ UNCHANGED auditVars

-----------------------------------------------------------------------------
(* The queue's transactions.                                                *)

\* The other outcome of the call, coalescing with the existing item of the
\* observation, leaves every item as it is.
Schedule(r, x) ==
    LET w == <<r, x, latest[r]>> older == Pending(work, <<r, x>>) IN
    /\ latest[r] \in Clean /\ stable[r]
    /\ work[w].status = "absent"
    /\ work' = [v \in Works |->
                  CASE v = w       -> [BlankWork EXCEPT !.status = "pending"]
                    [] v \in older -> [BlankWork EXCEPT !.status = "superseded",
                                                        !.supersededBy = w]
                    [] OTHER       -> work[v]]
    /\ UNCHANGED envVars /\ UNCHANGED auditVars /\ UNCHANGED attempt

\* The other outcome, no claim because the stream is busy or idle, leaves
\* every item and attempt as it is.
Claim(w, n, k, d, t) ==
    /\ Running(work, StreamOf(w)) = {}
    /\ work[w].status = "pending"
    /\ IsNextAttempt(w, n)
    /\ work' = [work EXCEPT ![w] = [BlankWork EXCEPT !.status = "running", !.claim = n,
                                                     !.claimedBy = k, !.claimedAt = t]]
    /\ attempt' = [attempt EXCEPT ![<<w, n>>] =
                     [BlankAttempt EXCEPT !.status = "running", !.worker = k,
                                          !.claimedAt = t, !.leaseExpiresAt = t + d]]
    /\ UNCHANGED envVars /\ UNCHANGED auditVars

\* A live lease is extended, never shortened and never brought back to life.
Extends(prior, d, t) == t < prior /\ t + d > prior

Renew(c, k, d, t) ==
    LET prior == attempt[c].leaseExpiresAt IN
    /\ HoldsClaim(c, k)
    /\ Extends(prior, d, t)
    /\ attempt' = [attempt EXCEPT ![c].leaseExpiresAt = t + d]
    /\ renewals' = renewals \cup {[claim |-> c, worker |-> k, prior |-> prior, renewedAt |-> t,
                                   duration |-> d, leaseExpiresAt |-> t + d]}
    /\ UNCHANGED envVars /\ UNCHANGED <<work, finishes, releases, decisions>>

\* Wrong variant: the lease does not matter.
MayFinishLate(c, k, t) == HoldsClaim(c, k) /\ t >= work[c[1]].claimedAt

\* What both outcomes of a finish check first.
MayFinish(c, k, t) ==
    /\ HoldsClaim(c, k)
    /\ t >= work[c[1]].claimedAt
    /\ t < attempt[c].leaseExpiresAt

FinishSucceeded(c, k, t) ==
    LET w == c[1] commit == HeadCommit[ObsOf(w)] IN
    /\ MayFinish(c, k, t)
    /\ <<w[1], w[2], commit>> \in generations
    /\ work' = [work EXCEPT ![w].status = "succeeded", ![w].finishedAt = t,
                            ![w].generation = commit]
    /\ attempt' = [attempt EXCEPT ![c].status = "succeeded", ![c].finishedAt = t,
                                  ![c].generation = commit]
    /\ finishes' = finishes \cup {[claim |-> c, worker |-> k, outcome |-> "succeeded"]}
    /\ UNCHANGED envVars /\ UNCHANGED <<renewals, releases, decisions>>

FinishFailed(c, k, f, t) ==
    LET w == c[1] IN
    /\ MayFinish(c, k, t)
    /\ work' = [work EXCEPT ![w].status = "failed", ![w].finishedAt = t, ![w].failure = f]
    /\ attempt' = [attempt EXCEPT ![c].status = "failed", ![c].finishedAt = t,
                                  ![c].failure = f]
    /\ finishes' = finishes \cup {[claim |-> c, worker |-> k, outcome |-> "failed"]}
    /\ UNCHANGED envVars /\ UNCHANGED <<renewals, releases, decisions>>

\* Wrong variants: never looks for a pending item; does not compare with it.
GoesBehindNothing(w, next) == next = Null
GoesBehindAny(w, next) ==
    IF Pending(work, StreamOf(w)) = {} THEN next = Null
                                       ELSE next \in Pending(work, StreamOf(w))

\* Where a released item goes: back to pending (next = Null), or behind the
\* stream's pending item, which must come from a newer observation.
GoesBehind(w, next) ==
    IF Pending(work, StreamOf(w)) = {}
      THEN next = Null
      ELSE next \in Pending(work, StreamOf(w)) /\ ObsOf(next) > ObsOf(w)

\* Wrong variant: always back to pending.
ReleasedToPending(next) == [BlankWork EXCEPT !.status = "pending"]

ReleasedRow(next) ==
    [BlankWork EXCEPT !.status = IF next = Null THEN "pending" ELSE "superseded",
                      !.supersededBy = next]

\* Wrong variants: the status stays; the column of another outcome is filled;
\* the end of the lease is recorded in place of the time of the recovery.
ExpiredStillRunning(a, t) == [a EXCEPT !.expiredAt = t]
ExpiredAsFinished(a, t)   == [a EXCEPT !.status = "expired", !.finishedAt = t]
ExpiredAtLeaseEnd(a, t)   == [a EXCEPT !.status = "expired", !.expiredAt = a.leaseExpiresAt]

Expired(a, t) == [a EXCEPT !.status = "expired", !.expiredAt = t]

Recover(c, next, t) ==
    /\ HoldsClaim(c, work[c[1]].claimedBy)
    /\ t >= attempt[c].leaseExpiresAt
    /\ GoesBehind(c[1], next)
    /\ attempt' = [attempt EXCEPT ![c] = Expired(@, t)]
    /\ work' = [work EXCEPT ![c[1]] = ReleasedRow(next)]
    /\ releases' = releases \cup {[claim |-> c, kind |-> "recovery", at |-> t,
                                   supersededBy |-> next]}
    /\ UNCHANGED envVars /\ UNCHANGED <<renewals, finishes, decisions>>

\* The transition a manual retry and a consumed retry decision share.
ReleaseFailed(c, next, kind, t) ==
    /\ FailedClaim(c)
    /\ t >= attempt[c].finishedAt
    /\ GoesBehind(c[1], next)
    /\ work' = [work EXCEPT ![c[1]] = ReleasedRow(next)]
    /\ releases' = releases \cup {[claim |-> c, kind |-> kind, at |-> t,
                                   supersededBy |-> next]}
    /\ UNCHANGED envVars /\ UNCHANGED <<attempt, renewals, finishes, decisions>>

Retry(c, next, t) == ReleaseFailed(c, next, "retry", t)

PolicyMaxAttempts == 3

\* 1 << (attempt - 1) times the base, for the attempts the policy retries.
Backoff(n) == IF n = 1 THEN BaseBackoff ELSE 2 * BaseBackoff

Decide(f, n) ==
    CASE f = "runner" /\ n >= PolicyMaxAttempts -> "exhausted"
      [] f = "runner" /\ n < PolicyMaxAttempts  -> "retry"
      [] f = "deterministic"                    -> "stop"
      [] OTHER                                  -> "manual_review"

DecisionRow(c, f, t) ==
    [claim |-> c, failure |-> f, decision |-> Decide(f, c[2]), decidedAt |-> t,
     retryNotBefore |-> IF Decide(f, c[2]) = "retry" THEN t + Backoff(c[2]) ELSE Null]

Classify(c, t) ==
    /\ FailedClaim(c)
    /\ t >= attempt[c].finishedAt
    /\ \A e \in decisions : e.claim # c
    /\ decisions' = decisions \cup {DecisionRow(c, attempt[c].failure, t)}
    /\ UNCHANGED envVars /\ UNCHANGED <<work, attempt, renewals, finishes, releases>>

Consumed(c) == \E e \in releases : e.claim = c /\ e.kind = "consumption"

\* Wrong variant: does not wait for the backoff.
DueAtOnce(e, t) == e.decision = "retry"

Due(e, t) == e.decision = "retry" /\ t >= e.retryNotBefore

ConsumeDecision(e, next, t) ==
    /\ Due(e, t)
    /\ ~ Consumed(e.claim)
    /\ ReleaseFailed(e.claim, next, "consumption", t)

-----------------------------------------------------------------------------

\* The transactions on one claim, by any worker, at any stamp the lag allows.
ClaimStep(c, t) ==
    \/ \E k \in Workers : \/ \E d \in LeaseDurations : Renew(c, k, d, t)
                          \/ FinishSucceeded(c, k, t)
                          \/ \E f \in FailureClasses : FinishFailed(c, k, f, t)
    \/ \E next \in Opt(Works) : Recover(c, next, t) \/ Retry(c, next, t)
    \/ Classify(c, t)

Next ==
    \/ Tick
    \/ \E r \in Repos : ObserveChange(r) \/ ObserveStable(r)
    \/ \E r \in Repos, x \in Extractors :
         \/ \E o \in Observations : CreateGeneration(r, x, o)
         \/ Schedule(r, x)
    \/ \E t \in Stamps :
         \/ \E w \in Works, n \in AttemptNumbers, k \in Workers, d \in LeaseDurations :
              Claim(w, n, k, d, t)
         \/ \E c \in Claims : ClaimStep(c, t)
         \/ \E e \in decisions, next \in Opt(Works) : ConsumeDecision(e, next, t)

Spec == Init /\ [][Next]_vars

-----------------------------------------------------------------------------
(* Properties.                                                              *)

\* What one stream of the tables ws and ats means to the abstract queue.
ObservationsIn(ws, s, status) == {ObsOf(w) : w \in {v \in InStream(s) : ws[v].status = status}}
HeldIn(ws, s)  == {<<ObsOf(w), ws[w].claim>> : w \in Running(ws, s)}
TakenIn(ats, s) == {<<ObsOf(c[1]), c[2]>> : c \in {d \in Claims : /\ StreamOf(d[1]) = s
                                                              /\ ats[d].status # "absent"}}

Queue(s) == INSTANCE WorkQueue
    WITH Versions <- Observations, Tokens <- AttemptNumbers,
         waiting <- ObservationsIn(work, s, "pending"), held <- HeldIn(work, s),
         taken <- TakenIn(attempt, s), done <- ObservationsIn(work, s, "succeeded"),
         failed <- ObservationsIn(work, s, "failed"),
         dropped <- ObservationsIn(work, s, "superseded")

\* Each stream of the tables is a queue of WorkQueue: the newest observation
\* waits or has been taken, one claim at a time holds an observation, only the
\* claim that holds it ends it, and a superseded one is behind a newer one.
ImplementsQueue ==
    /\ \A s \in Streams : Queue(s)!Init
    /\ [][\A s \in Streams : Queue(s)!Next \/ UNCHANGED Queue(s)!vars]_vars

\* Every table holds rows of the declared shape; the clock stays a number.
TypeOK ==
    /\ now \in Time
    /\ latest \in [Repos -> 0..MaxObservation]
    /\ stable \in [Repos -> BOOLEAN]
    /\ generations \subseteq Repos \X Extractors \X Commits
    /\ work \in [Works -> WorkRow]
    /\ attempt \in [Claims -> AttemptRow]
    /\ renewals \subseteq Renewal
    /\ finishes \subseteq Finish
    /\ releases \subseteq Release
    /\ decisions \subseteq Decision

\* The state CHECK of the work items: which columns a status fills.
WorkCheck(row) ==
    /\ row.supersededBy # Null <=> row.status = "superseded"
    /\ LET claimed == row.status \in {"running", "succeeded", "failed"} IN
         /\ row.claim # Null <=> claimed
         /\ row.claimedBy # Null <=> claimed
         /\ row.claimedAt # Null <=> claimed
    /\ row.finishedAt # Null <=> row.status \in {"succeeded", "failed"}
    /\ row.failure # Null <=> row.status = "failed"
    /\ row.generation # Null <=> row.status = "succeeded"

\* The state CHECK of the claim attempts.
AttemptCheck(a) ==
    /\ a.worker # Null <=> a.status # "absent"
    /\ a.claimedAt # Null <=> a.status # "absent"
    /\ a.leaseExpiresAt # Null <=> a.status # "absent"
    /\ a.finishedAt # Null <=> a.status \in {"succeeded", "failed"}
    /\ a.expiredAt # Null <=> a.status = "expired"
    /\ a.failure # Null <=> a.status = "failed"
    /\ a.generation # Null <=> a.status = "succeeded"

\* No transaction leaves a column behind that the status no longer has, nor
\* forgets one: the state CHECKs of the schema never reject what the code
\* writes, in whatever order items are claimed, lost, failed and retried.
RowChecks ==
    /\ \A w \in Works : WorkCheck(work[w])
    /\ \A c \in Claims : AttemptCheck(attempt[c])

\* A stream never has two running items nor two pending ones, whatever
\* schedules, claims, recoveries and retries interleave: the transactions do
\* not lean on the two partial unique indexes to fail them.
StreamExclusive ==
    \A v, w \in Works :
        /\ StreamOf(v) = StreamOf(w)
        /\ work[v].status = work[w].status
        /\ work[v].status \in {"pending", "running"}
        => v = w

\* Work items and claim attempts, two tables updated by separate statements,
\* never disagree: the code's "does not match" conflicts are unreachable.
RowsAgree ==
    /\ \A w \in Works : work[w].status = "running" =>
          \E n \in AttemptNumbers : HoldsClaim(<<w, n>>, work[w].claimedBy)
    /\ \A w \in Works : work[w].status = "failed" =>
          \E n \in AttemptNumbers : FailedClaim(<<w, n>>)
    /\ \A c \in Claims : attempt[c].status \in {"running", "succeeded"} =>
          /\ work[c[1]].status = attempt[c].status
          /\ work[c[1]].claim = c[2]

\* Attempts of an item are numbered without gaps, and a new one starts only
\* when every earlier one has ended without success.
AttemptsInOrder ==
    \A w \in Works, m, n \in AttemptNumbers :
        m < n /\ attempt[<<w, n>>].status # "absent"
            => attempt[<<w, m>>].status \in {"failed", "expired"}

\* Recorded times never contradict the lease: an outcome lies inside it, an
\* expiry at or past its end, after every renewal that was granted.
LeaseRespected ==
    \A c \in Claims : LET a == attempt[c] IN
        /\ a.status # "absent" => a.claimedAt < a.leaseExpiresAt
        /\ a.status \in {"succeeded", "failed"} =>
              a.claimedAt <= a.finishedAt /\ a.finishedAt < a.leaseExpiresAt
        /\ a.status = "expired" => a.leaseExpiresAt <= a.expiredAt

\* Superseding only ever points to a strictly newer observation of the same
\* stream, so no chain of superseded items is lost or circular.
SupersededByNewer ==
    \A w \in Works : work[w].status = "superseded" =>
        LET by == work[w].supersededBy IN
        /\ by \in Works /\ StreamOf(by) = StreamOf(w) /\ ObsOf(by) > ObsOf(w)
        /\ work[by].status # "absent"

\* Every persisted request still passes the validation its replay runs
\* against the claim attempt, however much the claim has moved on since.
AuditReplays ==
    /\ \A e \in renewals :
          /\ e.renewedAt < e.prior /\ e.prior < e.leaseExpiresAt
          /\ e.leaseExpiresAt = e.renewedAt + e.duration
          /\ attempt[e.claim].worker = e.worker
          /\ attempt[e.claim].leaseExpiresAt >= e.leaseExpiresAt
    /\ \A e \in finishes :
          /\ attempt[e.claim].status = e.outcome /\ attempt[e.claim].worker = e.worker
          /\ attempt[e.claim].finishedAt # Null /\ attempt[e.claim].expiredAt = Null
    /\ \A e \in decisions :
          /\ attempt[e.claim].status = "failed"
          /\ e = DecisionRow(e.claim, attempt[e.claim].failure, e.decidedAt)
          /\ e.decidedAt >= attempt[e.claim].finishedAt
    /\ \A e \in releases :
          CASE e.kind = "recovery"    -> attempt[e.claim].expiredAt = e.at
            [] e.kind = "retry"       -> attempt[e.claim].status = "failed"
            [] e.kind = "consumption" ->
                 \E d \in decisions : /\ d.claim = e.claim /\ d.decision = "retry"
                                      /\ d.retryNotBefore <= e.at

\* A claim is released at most once: recovery, manual retry and the consumed
\* decision exclude each other and themselves.
ReleasedOnce == \A e, f \in releases : e.claim = f.claim => e = f

\* The policy grants an item at most two retries, however its attempts end
\* and however many manual retries and recoveries come between.
RetryBudget ==
    \A w \in Works :
        Cardinality({e \in releases : e.kind = "consumption" /\ e.claim[1] = w})
            < PolicyMaxAttempts

\* A retry the policy granted starts no earlier than the backoff after the
\* failure, give or take the age of the new claim's stamp.
BackoffObserved ==
    \A e \in releases : e.kind = "consumption" =>
        LET a == attempt[e.claim] IN
        \A n \in AttemptNumbers :
            n = e.claim[2] + 1 /\ attempt[<<e.claim[1], n>>].status # "absent"
            => attempt[<<e.claim[1], n>>].claimedAt + MaxLag
                  >= a.finishedAt + Backoff(e.claim[2])

\* What the failure policy promises of an item: its budget and its backoff hold
\* through every mixture of classification, manual retry and recovery.
PolicyObserved == RetryBudget /\ BackoffObserved

\* An ended attempt is history: no later transaction rewrites it, and while
\* an attempt runs its lease is only ever extended.
AttemptLifecycle ==
    [][\A c \in Claims :
         CASE attempt[c].status = "absent"  -> attempt'[c].status \in {"absent", "running"}
           [] attempt[c].status = "running" ->
                /\ attempt'[c].worker = attempt[c].worker
                /\ attempt'[c].leaseExpiresAt >= attempt[c].leaseExpiresAt
           [] OTHER -> attempt'[c] = attempt[c]]_vars

\* A claim an item has let go of is never its claim again: a worker holding
\* an old claim id can do nothing.
ClaimNeverReturns ==
    [][\A c \in Claims : work'[c[1]].claim = c[2] /\ work[c[1]].claim # c[2]
                            => attempt[c].status = "absent"]_vars

\* What "releases one exact claim after its lease expires" asks of a state: a
\* running claim whose lease has elapsed can be recovered.  The code does not
\* keep this.
ExpiredClaimReleasable ==
    \A c \in Claims : attempt[c].status = "running" /\ attempt[c].leaseExpiresAt <= now
        => \E next \in Opt(Works) : GoesBehind(c[1], next)

=============================================================================

# Verification of ahe-mcp

ahe-mcp is a store of traceable evidence behind Model Context Protocol (MCP) servers.
Git repositories, documents and external tools feed it; extractors turn what they see into
proposals; reviewers and a governance head decide what becomes canonical; queries read
the canonical store.  All durable state is in PostgreSQL, and each operation of
`internal/evidenceingestion` is one or a few transactions that take advisory or row locks first.

This directory holds TLA+ modules of the parts of the program whose correctness depends on
the ORDER of operations of several actors, or on an algorithm that is easy to get wrong; TLC
configurations that check them on small instances; and proofs checked by TLAPS.  Paths below
are relative to the repository.

## The system's parts

| Part | State it keeps | Operations | What is hard | What makes it correct |
|---|---|---|---|---|
| Extraction work queue (`internal/evidenceingestion/repository_extraction_work*.go`) | work items, claim attempts, one audit row per request, policy decisions | schedule, claim, renew, finish, recover, retry, classify, consume | several workers, leases against the wall clock, stamps older than the commit, retries by hand and by policy | one running and one pending item per stream; tables agree; an ended attempt is history; a claim is released once; the newest observation is never lost behind an older one |
| Controllers (`*_retry_controller_tick.go`, `*_expired_maintenance_tick.go`) | a row per tick and its items | one tick over many streams | a batch is one transaction; its candidates come from a snapshot, with SKIP LOCKED | a batch is all or nothing; progress for every stream |
| Execution of a claim (`*_execution*.go`, `repository_extraction_worker_tick.go`) | execution requests, failure audit, repairs; in memory a heartbeat goroutine | reserve, run, heartbeat, finish, repair, replay | crash at any point, lost replies, a renewal in flight while finishing | one extraction per claim, a finished run is never run again, replays agree with what was stored |
| Snapshots, runs, generations (`git_repository_*.go`, `repository_delta_extraction.go`, `source_generation.go`) | snapshots, runs, generations, the active generation | capture, extract whole or by delta, create, activate, reconcile | the base of a delta is read long before the verdict on it | a delta is what the full run gives |
| Source intake (`postgres.go`, `spans.go`, `external_source.go`) | source snapshots, receipts, attempts, batches | capture, submit | a submission is several transactions | what a caller was told holds from then on |
| Decisions about evidence (`admission.go`, `canonical_admission_*.go`, `reviewable_ingestion.go`, `endpoint_*.go`, `canonical_contradiction*.go`) | proposals, content-named canonical rows, manifests, the governance head | admit, dispose, review, contradict | a dozen writers with lock orders of their own; snapshots older than the lock; rows shared between proposals | a proposal is decided once; writers do not wait in a circle; an admission can always be replayed |
| Governance and current use (`governance_*.go`, `internal/evidenceuse`) | chains of withdrawals and assessments, batches | review, decide, repeat, plan | decisions bound to a chain that moves; mutual contradictions | what was applied stays applied; an accepted plan is consistent |
| Supersession and lineage (`internal/evidencesupersession`, `supersession_*.go`, `initial_lineage_*.go`) | events, registrations, members, edges | register, supersede, replay on every read | three ways into a lineage; closures formed before later claims | stored rows are what the replay gives; "current" leaves no claim out |
| Implements and references (`internal/evidenceimplements`, `internal/evidencereferences`, `implements_recursive_basis.go`) | authorities, one per pair | walk a derivation, review, approve | bounded recursion over a shared graph; racing snapshots | the review shows everything; one authority per pair |
| Consistency (`consistency_*.go`, `internal/consistencyservice`, `logicresolver`) | watches, runs, the journal; query directories | register, scan, solve, diagnose | a worker that fails or dies while it solves; sources that move and come back; solvers that may err | the journal tells every run; a run read as fresh is the one result for what the reader sees; a verdict holds whatever the solvers answered |
| Core records (`proposition_binding.go`, `external_check.go`, `external_representation.go`) | bindings, checks, representations | bind, change, record | change decided on an earlier read; the same call twice at once | compare-and-swap on the head; retries replay |
| Read side (`canonical_read_view.go`, `internal/evidencequerymcp`, `internal/evidencegraph`, `internal/evidenceprojection`) | a small table of open views | open, read again, path | eviction, other owners, cut views | a handle stands for one view; an untruncated view is complete |
| Serving and calling tools (`internal/mcpadmin`, `internal/mcpquery`, `internal/mcpstdio`) | lanes, results, child processes | call, cancel, close | `select` takes any ready branch; a child that hangs | an abandoned call never starts; every caller returns |
| Schema and roles (`migrations`, `internal/dbrole`, `internal/runtimeadmin`) | ledger, objects, grants, pools | migrate, provision, upgrade, check out | several releases, schemas older than the ledger, grants revoked under a pool | the ledger tells the schema; a connection is handed out with its manifest, or not at all |

Parts interact through the database only.  A worker observes a repository, schedules the
observation, claims the item, runs the extractor, stores a source generation and finishes
the claim; the controllers release what workers lost or failed; decisions read what
generations and submissions contain, and each of them moves the governance head; queries read
what decisions made canonical; consistency watches follow the head.

`PROJECT.json` lists every part with its files and what of it is modelled, and the hazards of the
code with the line where each bites and the property that would catch it.

## Modules

| Module | Models |
|---|---|
| `WorkQueue` | The promise of the queue for one stream, without tables, time or audit rows: versions are submitted in order, one waits, one is held under a token given out once. |
| `ExtractionWork` | The queue's tables and every transaction on them; implements `WorkQueue`. |
| `ExtractionControllers` | The two controller ticks over several streams, and what they race with. |
| `ExtractionExecution` | The execution of a claim: calls, replays, heartbeat, failure audit, crashes. |
| `SourceGenerations` | Snapshots, whole and delta runs, generations, activation, reconciliation. |
| `SourceIntake` | Captures of manual and external sources, and submissions in their several transactions. |
| `AdmissionLocks` | Every writer of decisions: its locks in their order, its snapshot, its retries. |
| `ClaimMaterialization` | What an admission writes into shared content-named rows, and the replay of it. |
| `EvidenceGovernance` | Chains of decisions, batches, and the current-use policy over them. |
| `SupersessionLineages` | The three ways into a lineage, and the replay every read makes. |
| `ImplementsReviews` | The bounded walk of a derivation and the sealed review; composes the approvals with it. |
| `ImplementsApprovals` | Racing approvals, of whatever a review shows. |
| `ConsistencyWatches` | Watches, the worker's ticks and its visits under the session lock, runs and journal. |
| `LogicResolver` | The verdict over a view, its diagnosis, and the pinned solvers. |
| `CoreRecords` | Bindings under compare-and-swap; checks and representations without a lock. |
| `ReadViews` | The bounded load of a view, its handle, and the cache of views. |
| `ToolServing` | Authorization, lanes, cancellation, close, and client processes. |
| `RuntimeDatabase` | Migration by several releases, role pairs, and pools checked at every check-out. |
| `MC...` | The instances TLC checks.  `MCWatches`, `MCDecisions` and `MCRecords` instantiate several modules that share no row; their variable `part` says which of them a behaviour is of. |
| `ExtractionWorkProofs`, `ExtractionWorkRefinementProofs`, `ExtractionControllersProofs`, `ExtractionExecutionProofs`, `RecordsProofs`, `DecisionsProofs`, `EvidenceGovernanceProofs`, `WatchesProofs` | Theorems for all values of the constants. |

Definitions that are marked "Wrong variant", or that no action uses (`MovedRow`, `FirstSnapshot`,
`MemoTrusted` and the like), are what a plausible mistake in the code would be; each property
is violated when one of them takes the place of the definition it varies.

### How `ExtractionWork` corresponds to the code

`work` and `attempt` are the tables `repository_extraction_work_items` and
`repository_extraction_work_claim_attempts`; a row that does not exist has status
`"absent"`.  `work` is indexed by repository, extractor and observation because
`newRepositoryExtractionWork` derives the item's id from those; an attempt by its item and number,
which the schema makes unique.  `renewals`, `finishes`, `releases` and
`decisions` are the audit tables; `releases` joins those of recovery, retry and
consumption, which have the same columns as far as the properties go.  `latest`, `stable` and
`generations` are what the queue reads of observations and source generations.

Each transaction locks the row of its stream before it reads (`concurrency.go:59-99`), so
it is one action; its conjuncts are the handler's checks in their order, and the variables
it primes are the rows the handler writes.  Two things are easy to overlook:

* **The stamp.**  `ClaimRepositoryExtractionWork` and the other entry points call
  `time.Now()` before the transaction waits for the lock.  A transaction may therefore commit with a
  stamp older than one that committed before it; the parameter `t \in Stamps`
  says so, and `MaxLag` bounds how old it may be.
* **Request replay.**  A request id seen before returns the stored result and changes
  nothing, so it is no action.  But reading the stored result validates it against rows
  that later transactions may have changed; `AuditReplays` says that this never fails.

Abstracted: ids and hashes, messages, the Go types of the results, requests that fail
(they roll back), and the two outcomes that store a request and touch no item: a schedule
that coalesces and a claim that finds nothing.  Failure classes are the four groups
`decideRepositoryExtractionWorkFailurePolicy` tells apart.  A commit is named by
`HeadCommit`, so that two observations can show the same commit, as after a revert.

### How `ExtractionControllers` corresponds to the code

A tick is one transaction, and one SQL statement picks its batch: `FOR UPDATE OF s SKIP LOCKED`
under `LIMIT`, ordered by the time the lease expired or the retry fell due.  PostgreSQL evaluates such a
statement on a snapshot and locks afterwards, so the model has two steps: `TakeSnapshot`
lists the candidates, and `RunBatch` locks the streams `locked`, takes the first `Limit`
candidates of those streams (a row passed over does not count against the limit), and
makes for each the transition an operator would call: `Done[k]` is the database after k of them.  A conflict in any of
them rolls the whole batch back: `AfterBatch` is then empty.  `Abort` is the connection lost before
the commit.  Between the two steps anything may happen to the streams.

`db` holds what the ticks look at.  Time is left out: `lapsed` and `due` hold the claims
in the order in which their lease ended or their backoff passed, which is the order of the
columns the statement sorts by; `released` joins the audit rows of recovery, manual retry
and consumption, and tells who wrote them.  `Schedule`, `Claim`, `Finish` and `ReleaseByHand` are the
transactions of `ExtractionWork` without their stamps; `Renew` matters only where it
takes a claim out of `lapsed`, so it is enabled only there.  Left out: the rows of the tick itself
and its replay (a tick request seen before returns the stored items), and the third kind of
candidate of the maintenance tick, a claim owned by an execution request, which it repairs.

### How `ExtractionExecution` corresponds to the code

A process in `Calls` is one call of `ExecuteClaimedRepositoryExtractionWork`, by hand or from a worker
tick.  Every transaction it makes is a step, so another call, the heartbeat or an operator may come
between any two of them:

| `pc` | The call is about to |
|---|---|
| (none) | reserve the claim (`Reserve`), or read its own request again (`Replay`) |
| `wait`, `refresh` | read the status of the attempt, and then, after a pause, the request and the claim once more (`waitForRepositoryExtractionWorkExecutionReplay`) |
| `decide` | return a stored failure, or go on |
| `attempt`, `extract` | create the attempt of its run; store what the extractor found or why it failed |
| `stop` | stop the heartbeat, waiting for a renewal in flight; a failed heartbeat outweighs the result |
| `finish` | finish the claim, or find it finished by the same request |
| `failing` | stop the heartbeat and, if it is the first call, store its failure on the execution request |

`heart` is the goroutine: `renewed` lies between the transaction that renews the lease and the
one that counts the renewal, `conflict` before the one that looks at a lease somebody has extended
further.  `Fails` stands for every error return, `Dies` for the end of the process; both
are possible at every step, after a commit whose reply is lost too.  `exec` joins the request with the rows whose
ids derive from its id: renewals, the extraction attempt of its run, the finish.

Abstracted: lease times (a flag; stamps are the subject of `ExtractionWork`), the snapshot and the source
generation (idempotent, with the errors of `Fails`), the stream's other items, and the row of a worker
tick.  A first renewal made synchronously at the start is one made by the goroutine before the next step.

### Sources: `SourceGenerations` and `SourceIntake`

A run of `SourceGenerations` has its request, its snapshot and, for a delta run, the base it read before it parsed:
`BeginExtraction`, `FinishExtraction` (the parse, the assembly from the base file by file, the comparison of
the two outputs, the verdict in `audits`) and `CreateGeneration` are separate steps, as the code's transactions are, and
`ExtractionDies` may come in between.  A file is its content, and a declaration is what the content parses into;
what matters is which files are taken over, re-parsed or gone.  `ActivateGeneration` carries
the reconciliation of the declarations that the former generation had and the new one has not.

In `SourceIntake` a capture is one step with all its refusals.  A submission starts its attempt, reads the status, and
stores proposals or failure in steps of their own (`StartSubmission`, `ReadAttemptStatus`, `MaterializeBatch`, `PersistProposalSuccess`, `RecordFailure`), as the code's transactions are; two submitters with one request meet in every order, and either may die.
An output is one that grounds in the view or one that does not; spans and hashes are left out.

### Decisions: `AdmissionLocks`, `ClaimMaterialization`, `EvidenceGovernance`

A job of `AdmissionLocks` is one call of a writer, with the rows it locks as the code's statements name them,
in their order.  Locks behave as PostgreSQL's do (that part is external): `FOR UPDATE` conflicts with
`FOR UPDATE` and with the shared lock a foreign key takes; under REPEATABLE READ a row that has changed since the
snapshot fails with 40001; a cycle of waiting sessions is broken by failing one with 40P01.  `Lock` looks at a proposal again
once it has the lock, because the code re-reads it in a statement of its own.  `seen` is the snapshot,
and the guard of a reviewed derived claim is evaluated on it.  `Effects` gives what a commit changes, the head
included, which triggers move with every canonical write.

`ClaimMaterialization` takes up what such a commit writes: `rows` by content, with the proposal that wrote each first,
and `manifest`, which notes for every row that a proposal binds whether it was written or found.  Since all writers
hold the head, an admission is one step there.  A replay compares what is stored with what the
admission would write today.

`EvidenceGovernance` has one chain per source and claim.  `Review` shows a decision on the chain's end and stores nothing but
the offer; `ApplyGovernanceDecision` applies it if the chain has not moved, alone or as a part of a batch, and answers
`applied`, `replayed`, `conflict` or `failed`; `delivered` says whether the caller learns it.  The policies of
`internal/evidenceuse/policy.go` are operators over the chains, contradictions, lineages and the clock.

### Relations: `SupersessionLineages`, `ImplementsReviews` and `ImplementsApprovals`

A claim enters a lineage as a replacement, as a target that an event bootstraps, or by initial registration.
Reads never trust a stored status: `Projectable` is the replay of events and registrations, closures
included, against the stored members and edges, and `Currentness` what it reports.  `review` and `entry` hold what a
reviewer has been shown, to be applied later if the heads they name still stand.  `Replayed` goes through the revisions in
order; the registrations anchored to one revision are taken together, because each needs an object that no other one of them uses.

In `ImplementsReviews`, `Walk` is the depth-first walk of a derivation with its bounds on layers, nodes, edges and parents.  The
recursion of the code is a record of what its closure and call stack hold: `path` are the nodes being visited, `followed` the parents
each of them has already gone to.  `Advance` is one step, the visit of the next parent or the return from a node; as no edge is
followed twice and no node left twice, the walk is over after as many steps as the two budgets allow together (`Closure`).  The second check when
the basis is sealed is `SealedBasis`; the run lets every derivation graph of five claims arise.  `ImplementsApprovals` holds the steps of an approval, `LoadReview`, `BeginApproval` and `CommitApproval`: a transaction with the
snapshot of its beginning, in which only the unique keys stop a twin, and whose retry has to take a new snapshot.  What a
review shows is a parameter there, so that `ApprovalsStayApart` does not depend on the walk.

### Consistency: `ConsistencyWatches` and `LogicResolver`

A process runs tick after tick (`StartTick`, `Tick`), and a tick visits the registered watches one by one; a visit (`tickWatch`) has
the steps of the code: take the session lock or pass the watch over, read the version, read the view, look for a run of that
target, announce the target in the journal, solve outside any transaction, store the run, release.  The run is stored whatever version
and view are by then.  An error at any step (`Fail`) ends the visit; the tick goes on with its other watches, and then `Run`
returns the errors and the process stops (`ReturnErrors`) until its supervisor starts it again (`Restart`, the unit in
`deploy/consistency`).  A watch configured for another engine is such an error, and so are more watches than `MaxWatches`.
`Drop` loses the connection: the lock is free at once, and the worker finds out at its next statement (`NoticeDrop`).  `LoseAnswer`
stores the run and loses the reply to the commit; `Crash` ends the process anywhere.

A view is named by a digest of its content, so binding a claim and withdrawing the binding brings the earlier view back, and
`SourcesChange` goes to any other view of `Views`.  A run keeps two views: `target`, which it was asked for, and `seen`, which its
diagnosis read.  `Results` lists what `diagnoseConsistency` may give: a verdict, or the reason that blocks one, about the target; a failed second
read, which sees nothing; a failure after that read, which keeps the view it read; or the note `stale_view`, with the view that was there
instead.  `Fresh` is the comparison by which `ReadConsistencyRun` says `matches_snapshot`; it asks for no
outcome, and a failed run may well match.  The unique key of `consistency_runs` is left out, and `FreshRunIsTheResult` shows
without it that no second run of a target is ever stored: until one is, a table with the key and one without do the same.

In `LogicResolver` solvers may answer anything.  An assignment is evaluated in memory; a proof
is checked by a second program against the file in the query's directory, which all callers with
that query share.  That an accepted proof is a proof is external: the checker's soundness is assumed
(`SolverSaysUnsat` calls a proof good only if the formula in the file is unsatisfiable).

### Serving: `ReadViews`, `ToolServing`, `RuntimeDatabase`, `CoreRecords`

`ReadViews` loads breadth first within the budgets of the request, marks what was cut, and puts the
view into the cache some time after; `ValidArtifact` is the validation of `evidencegraph`.

`ToolServing` takes each ready branch of a `select` as a step of its own: the offer to a lane, the caller's cancellation and
the closing ingress.  A client's process answers, stops or hangs at any point, and
the deadline of the call stops it.  The meaning of a cancelled context, and of closing a buffered channel, are Go's.

In `RuntimeDatabase` a migration is one transaction under the advisory lock; an operator's command verifies first and changes
in a second transaction; a process opens its pool, verifies, and checks the role again at every check-out (`BeforeAcquire`).
`Intervene` is the owner of the database, who may grant and revoke at any time.  GRANT, REVOKE and inheritance of
roles are external.

`CoreRecords` separates the read of a binding's history from the change that is decided on it, and the look-up of a
conflicting record from the insert.

## What the runs check

| Run | Instance | Properties |
|---|---|---|
| `streams` | 1 stream, 2 observations, 1 worker, 2 attempts, clock to 3, leases of 1 | `StreamExclusive`, `RowsAgree`, `SupersededByNewer`, `ImplementsQueue` |
| `policy` | 1 item that never succeeds, 3 attempts, clock to 4, leases of 2, three kinds of failure | `AuditReplays`, `ReleasedOnce`, `PolicyObserved` |
| `leases` | 1 item, 2 workers, 2 attempts, leases of 1 and 2, stamps up to 1 old | `LeaseRespected`, `ClaimNeverReturns` |
| `tick_races` | 1 stream, 2 observations, 2 claims each, 2 concurrent ticks with a limit of 2 | `StaleSnapshotHarmless` |
| `tick_progress` | 2 streams of 2 and 1 observations, 1 claim each, ticks with a limit of 1 | `LostClaimsReleased`, `DueDecisionsConsumed` |
| `execution` | 2 processes, 2 requests for the first of 2 claims, 1 heartbeat | `OneExtractor`, `SuccessIsDurable`, `EveryCallReturns` |
| `watches` | 2 workers, 2 views, 1 failure, and 1 watch of 1 version with 2 changes of the view, or 1 of 2 versions with 1 change, or 2 watches without; 2 releases of 2 and 3 migrations, 2 groups and logins, 1 command, 1 process, 1 intervention; 2 calls, 1 lane of size 1, 1 client | `JournalTellsRuns`, `FreshRunIsTheResult`, `CurrentTargetAnswered`; `LedgerTellsSchema`, `HandedOutWithinManifest`; `AbandonedNeverStart`, `CallersReturn` |
| `decisions` | 3 sessions of any writers, a proposal of each kind, 2 attempts; 4 statements of 2 texts over 2 spans and 1 derived claim; 3 members, 2 rules and 7 checks for 2 callers; a graph of 3 nodes and 4 edges, 2 readers, a cache of one view; every derivation graph of 5 claims, 2 approvers of 6 calls | `AlignedNeverDeadlock`, `DecidedOnce`, `CurrentUseHolds`; `AdmittedReplays`; `VerdictsHold`; `HandleMeansOneView`, `UntruncatedViewComplete`; `ReviewsExact`, `TwinsAgree` |
| `records` | 1 document of 2 contents, 2 submitters of 3 outputs; 3 claims of one object, 2 slots; 3 commits, 3 runs, 2 activations; 1 node, 3 changes of its binding, 2 records of 2 recorders; 2 sources, 1 derived claim, 2 offers, 1 contradiction | `AnswersHold`; `ProjectionNeverFails`, `CurrentAccountsForAll`; `DeltaAgrees`; `DecisionsOnCurrentHead`, `RetriesReplay`; `AcceptedPlansConsistent`, `FindingsStand`, `AppliedStaysApplied` |
| `expired_claim` | as `streams` | violates `ExpiredClaimReleasable` |
| `replayed_failure` | as `execution` | violates `SuccessIsReplayed` |
| `due_batch` | 1 stream, 2 observations, 1 claim each, one tick with a limit of 2 | violates `DueBatchConsumable` |

**Why the bounds are enough.**

*Queue.*  Two observations are what it takes for one item to be
pending and one running, in either order; streams are independent (every handler
touches one stream's rows), so one stream suffices.  Three attempts reach the policy's limit
(`RepositoryExtractionWorkFailurePolicyMaxAttempts`), and the clock to 4 lets both backoffs
of 1 and 2 pass.  Two workers are needed for one to act on what another has taken over.
Lease lengths 1 and 2 let a renewal both shorten and extend.  `NothingExtracted` in `policy` leaves out
behaviours in which an extraction completes: an item that succeeds leaves the policy's reach.

*Ticks and execution.*  Two claims of one stream in one batch need two observations; that both
are of the same stream is the hard case, since transitions on different streams touch
different rows.  Two ticks are what it takes for one to work from a snapshot the other has made
old; a second claim of an item is what such a snapshot could mistake for the first.  Ticks differ in
nothing but their request, hence the symmetry in `tick_races` (and none in `tick_progress`,
where liveness is checked).  For progress there are more candidates, of more streams, than the limit.
Two processes are the first call and a replay; one that has returned
calls again, so any sequence of replays occurs.  The second claim belongs to somebody else and gives a
call that has lost the first something to do harm to.  One heartbeat is enough for two calls to make
and count the same one.

*Watches, database, serving.*  A second worker is there to take over while the first one solves on, and two changes let the
view move away while a run is under way and come back before it is stored or after (`WithinKind` "sources"); a second version lets a run be overtaken
by its configuration ("versions").  Two watches share no row, but they share a worker's tick and its errors: one for another engine stops the
process that is to serve the other ("neighbours").  One failure of any kind at any step is enough for a takeover.  Release 2 adds a migration to those of
release 1, one migration creates no table, and schemas older than the ledger hold the first two.  Two groups and logins are
what a pair can be confused with.  Two calls fill a lane of size 1 with one running and one
waiting, and the third tool has no lane.

*Decisions.*  Two sessions wait for each other directly and a third closes longer cycles; one claim is
shared by every writer.  For a larger number of sessions, proposals and claims see the proofs.  Two of the four statements have the
same text and span, and one cites another span too, so rows are shared whole or in part.
A member derived from two others, a rule that contradicts itself and one that contradicts members make a core
smaller than the conditions.  In the views a depth, a node and an edge budget each cut something, and a cache of one
view evicts with every second open.  The walk's limits (2 layers, 4 nodes, 4 edges, 2 parents for
the code's 8, 64, 128 and 32) are all passed by some graph of five claims.  Sessions, readers and approvers are interchangeable
and the properties checked there are no liveness properties, hence the symmetry.

*Records.*  Three claims are a current one, a replaced one and a late arrival.  The second
commit adds a declaration, the third removes one file and breaks the other; three runs are a base, a delta and one in between.
Three changes withdraw, restore and correct a binding.  The findings offered leave a
criterion out, so the policy `grounded` accepts no plan in the run; that half of `AcceptedPlansConsistent` rests on its theorem.  `FewMoves` stops exploring after two moves of
lineages, contradictions or the clock; decisions about chains are not limited by it but by `MaxOffers`.

No run checks deadlock: all the bounds reached, the model stops, and the queue may be idle.  That database sessions do not wait
for each other in a circle is the property `AlignedNeverDeadlock`, and that calls return are the liveness properties.

**Fairness.**  The safety properties need none.  `FairSpec` of `ExtractionControllers` assumes
strong fairness of both kinds of tick, snapshot and batch: somebody keeps calling both, and
now and then a tick finds no stream locked and is not cut off.  Nothing in the code
calls a tick by itself; it is a tool for an operator's scheduler, and a stream's lock is held only
for one short transaction.  The liveness properties are thus about what the ticks achieve if they are
called, and no fairness is asked of workers, schedulers or operators.  Weak fairness
would not do: the other kind of tick, or an operator, may take the candidates away and new ones come.
They also exclude a claim that stays behind an older item of its stream, for the reason the
findings give.

`FairSpec` of `ExtractionExecution` assumes of a call that lives that its steps and its goroutine's go on: database
operations and the extractor end.  Nothing is assumed of death, failure, operators or further calls.
A lease elapses if no live heartbeat renews it, since time passes.  Stopping is strongly fair, because the
goroutine's `select` chooses at random when its timer fires together with the cancellation.

`Spec` of `MCWatches` assumes weak fairness of five things: each worker's next step (after every interval `Run` ticks again, and a visit's
database operations and solvers end, at the latest with its 90 seconds), the restart of a stopped worker, a call's `select` when a branch of it is
ready, a lane's goroutine, whose job ends, and a client's step, which the call's deadline brings about at the latest.
The restart is not the program's: `docs/CONSISTENCY.md:67` asks for an external supervisor, and the unit in `deploy/consistency` gives up after five restarts
in a minute.  `CurrentTargetAnswered` therefore says what holds where the supervisor does not give up.
Nothing is assumed of the sources, of registrations, of errors, lost connections and crashes, of cancellation or of Close; there are boundedly many of
each.  Sources that changed for ever to something new could outrun every worker, and errors for ever stop it.
`CurrentTargetAnswered` speaks of a watch whose newest version is not paused and names this engine: again and again that version has a run over the view
there is then, even if the run is a failure, or the note that the view had moved.  It does not say that the target is decided, because the
code does not see to that; see the findings.

## What is proved

Every safety property of a passing run, invariant or action property, and the refinement of `WorkQueue` are theorems, for
every value of the constants under the named assumptions of the modules.  An assumption says that bounds are numbers and names do
not coincide, or what the schema and the code fix: a release embeds at least the migrations of the schemas older than the ledger, a
derived claim has parents, a member is derived from earlier ones.

**The queue** (`ExtractionWorkProofs`, `ExtractionWorkRefinementProofs`), for all repositories, extractors, workers, commits, leases and
bounds, if leases and the base backoff are positive and NULL is not a value:

| Theorem | States |
|---|---|
| `TypeCorrect`, `ChecksNeverReject` | the tables keep their shape (`TypeOK`); the schema's CHECKs never fail (`RowChecks`) |
| `OneRunningOnePending` | `StreamExclusive` |
| `TablesAgree`, `OutcomesRespectLeases` | `RowsAgree`, `LeaseRespected` |
| `AttemptsFollowEachOther`, `EndedAttemptsStay` | attempts are numbered without gaps and follow ended ones; no step rewrites an ended attempt |
| `OldClaimsStayOld` | `ClaimNeverReturns` |
| `ClaimsReleasedOnce` | `ReleasedOnce` |
| `RequestsReplay`, `PolicyKept` | `AuditReplays`, `PolicyObserved` |
| `SupersededPointsForward` | `SupersededByNewer` |
| `TablesImplementQueue` | `ImplementsQueue` |

The argument has layers, each an invariant proved inductive on top of the one before:

1. `Typed` (types and row CHECKs).  The CHECKs are needed to know, for instance, that an item
   without a claim has no worker.
2. `StreamExclusive`, because whether an item may become pending depends on there being no other.
3. `RowsAgree` and `AttemptsInOrder` together: a new attempt gets MAX + 1, and that the earlier
   ones have ended follows from the item being pending, hence from the agreement of the tables.
4. `Spent` for `ReleasedOnce` (a released claim is no longer the claim of its item, and its attempt has ended).
5. For the audit tables, every row is bound to its attempt (`RenewalHolds`, `FinishHolds`, `DecisionHolds`, `ReleaseHolds`), and
   `AttemptPersists` says what a step may still do to an attempt such a row names.  The backoff needs besides that a
   pending item names its last claim (`NamesLastClaim`) and that releases lie in the past.
6. `NotBeyondLatest` for the refinement (no item is of an observation not yet made; so a newly scheduled one is newer than
   all).  Each transaction is then one step of the queue of its stream, or none.

**The ticks** (`ExtractionControllersProofs`), for all streams, ticks and limits, and **the execution** (`ExtractionExecutionProofs`),
for all calls, requests and claims:

| Theorem | States |
|---|---|
| `TicksTakeOnlyLostClaims` | `StaleSnapshotHarmless` |
| `OneCallExtracts`, `SuccessLasts` | `OneExtractor`, `SuccessIsDurable` |

Of a tick's snapshot nothing is assumed, not even that it was ever true: the database after k candidates is `Harmless`
(what has been released was held at the start, and what is held now was), and a release keeps it so.  `ExecInv` says of
the execution that a claim is reserved by one request and a request has one owner, for good, and that a replay gets as far as the
extraction only when the attempt has ended or the item no longer runs under the claim; a call on its way to the finish has a stored result.

**Sources, records and lineages** (`RecordsProofs`):

| Theorem | States |
|---|---|
| `SubmittersToldTheTruth` | `AnswersHold`, for any submitters that may die anywhere |
| `DeltasAreExact` | `DeltaAgrees`, for any trees, contents, bases and runs in between |
| `ChangesFollowTheHead`, `ChecksReplay` | `DecisionsOnCurrentHead`, `RetriesReplay` |
| `CurrentIsTheOnlyOne` | `CurrentAccountsForAll` |
| `SupersessionIsAcyclic` | the replacements in a lineage never form a circle |
| `ReadsAreNeverRefused` | `ProjectionNeverFails` |

`IntakeInv` ties what each submitter has been told to its attempt, and `AttemptsEvolve` says that an ended attempt
stays.  `GenerationInv` says that a succeeded run has the output of a whole run over its commit, and a
generation that of its run; so the base of a delta is exact by the time it is read.  `BindingInv` chains the changes of
a binding, each to the one before it; `ReportInv` says that a caller past its conflict has a stored row of its request.

`LineageInv` ranks members by the event that enrolled them as a replacement, and edges go up in rank: no circle.  `ReplayInv`
gives every member the revision it was enrolled at (`EnrolledAt`: that of its event, or the anchor of its registration)
and says that an event's other targets were enrolled before, and that a registered claim was the first of its object.  The members enrolled
up to a revision, with the edges of its events, are then the replay up to there, so the last replay is what is stored.

**Decisions** (`DecisionsProofs`, `EvidenceGovernanceProofs`):

| Theorem | States |
|---|---|
| `ProposalsDecidedOnce`, `CurrentUseGuarded`, `AlignedWritersNeverDeadlock` | `DecidedOnce`, `CurrentUseHolds`, `AlignedNeverDeadlock`, for any sessions, proposals, contradictions, attempts and finite set of claims |
| `AdmissionsReplay` | `AdmittedReplays` |
| `VerdictsAreTrue` | `VerdictsHold`, for any members, rules, derivations and clauses over finitely many atoms |
| `HandlesAreFaithful` | `HandleMeansOneView` |
| `UntruncatedViewsAreComplete` | `UntruncatedViewComplete`, for any requests, edges and graph in which a node has finitely many derivation edges |
| `ApprovalsStayApart` | `TwinsAgree`, whatever reviews show; the code's three attempts are more than the two it needs |
| `ReviewsAreExact` | `ReviewsExact`, for any claims admitted in any order, any bounds, and approvals that go on meanwhile |
| `CriteriaStayAssessed`, `RepeatedDecisionsAgree` | `FindingsStand`, `AppliedStaysApplied` |
| `AcceptedPlansHold` | `AcceptedPlansConsistent` |

*Locks.*  First, what the list of locks of every writer contains (`JobsFit`): its own row if it decides one, the governance head
if it moves that.  `LockInv` then says that no two running sessions hold conflicting locks; that a
proposal held for update is pending; that a snapshot at the head's revision shows the claims that are unusable now; and that a
REPEATABLE READ session that holds the head has seen its revision.  The first two give that a commit
decides a row nobody has decided; the last two that the guard of a reviewed derived claim, evaluated on the
snapshot, holds at the commit.  For deadlock, the lists of the aligned writers are in one order (`Ordered`), with the head before
whatever two of them can share; of a circle nobody can hold the head (who does waits for rows no other
member of the circle can hold), and without it nobody waits (`NoCircle`).

*Rows and views.*  `MaterializationInv` accounts for every row attributed to a proposal in its manifest, and for every row it found by the admission
that wrote it.  `ViewInv`: a view is what its handle is a digest of, so equal handles are equal views.  `ApprovalInv`:
a call on its second attempt has lost to a twin that every later snapshot shows.

*Complete views.*  `WholeLoads`: as long as nothing has been cut, what d levels have loaded is the ball of radius d around the roots, its
frontier the nodes that the last level added, and its edges all those at the ball of radius d - 1: an edge that the frontier does not touch
was a candidate of an earlier level.  A level cuts nothing exactly when the edges it finds fit the one budget and the nodes they lead to
the other.  For the paths, `ReachCounts`: as long as it grows, what k steps reach has more than k nodes, so a graph of n nodes is exhausted
after n steps, and a view as well, by its own count (`ViewReaches`, `ShortestKept`).

*Reviews.*  `Grounded`: some count of layers goes up from parent to claim; there is only one (`LayersUnique`), so no claim is below itself.
`WalkInv` is what a walk not refused so far carries: every node read is on the path or has been left, with everything it rests on and its right
height (`LeftWhole`); every edge followed leads along the path, or to a node whose layers fit in (`FollowedFit`); the budgets are kept; all
of it is below the root.  So a walk that ends unrefused has read the whole ancestry, within the bounds.  Conversely, layers fall along the
path (`PathDescends`) and everything read is an ancestor, so an ancestry within the bounds gives no reason to refuse
(`NothingRefused`).  And a walk that has not ended has made as many steps as it has followed edges and left nodes (`StepsCounted`); its
top node is still to be left, hence it is over after `MaxClosureEdges + MaxClosure` steps.  A report holds as many pairs as a closure has
nodes, and nothing outranks itself (`ReportKeeps`).  A claim admitted later adds nothing to the ancestry of an earlier one
(`ReviewStays`), so a call holds what its review still shows (`ReviewsHeld`).

*Verdicts.*  `ResolverInv` says of a diagnosis under way that the conditions it still keeps contradict each other and that those it
has tried to leave out in vain are needed for that, and that the file of a query is the formula of the one check using it, because no two checks under way share a query directory.

*Current use.*  `GovernanceInv`: chains hold offered events; offers, and events, resolve only earlier events of
their chain, and an offer finds anew what it resolves; a decision answered as applied stands at the place it was reviewed for.  The last event of a chain is unresolved, and so
is, for each criterion, the last event that has found something about it.  `AcceptedPlansHold` follows a derivation from claim to parents: what is
eligible has nothing against it and only eligible parents, hence only eligible ancestors.

**Consistency, schema and serving** (`WatchesProofs`):

| Theorem | States |
|---|---|
| `JournalComplete`, `FreshRunsAreResults` | `JournalTellsRuns`, `FreshRunIsTheResult`, for any watches, views and workers that fail, crash or lose their connection anywhere |
| `SchemaIsAsListed`, `CheckoutsWithinManifest` | `LedgerTellsSchema`, `HandedOutWithinManifest`, for any releases that extend each other and any roles, commands and processes |
| `AbandonedJobsNeverStart` | `AbandonedNeverStart`, for any calls, lanes and tools |

`WatchInv` says what a worker carries from step to step: a version that exists and names its engine, and once announced the announcement in the
watch's journal; and that the note of a moved view never carries its own target.  `TickInv` has a tick visit only watches with a configuration.  `LockInv` is the
session lock: a connected worker that has announced a run finds none stored for its target, since the lock kept
all others out of the watch from its lookup on; one that is not connected stores nothing.  The journal does without it.  `SchemaInv` has the schema a prefix from before the ledger, or the migrations of one release together with its ledger.
`RolesInv` and `AdminInv` are what the exact comparison at a check-out needs to count rights.  `ServingInv` says why a job is still
queued although its caller has its answer: a lane that takes it will see the cancellation or the closing.

**How recursion is handled.**  A recursive function is unfolded by exhibiting a function that satisfies its equation: the one the tables
already hold (`Replayed`), the least set closed under derivation (`Assessment`), a count of layers that grows with each admission (`Layers`), or one
built up to k by the argument of a least counterexample (`Done`, `Walk`).  Where an induction over numbers would be natural, the proofs take the least number for which the claim fails.

**Only model-checked, or only modelled.**

* Branches that are modelled because they write the same state, and that no property speaks of: the runner of Z3 in `LogicResolver`, whose
  answers nothing is derived from, and the refusal of a representation that meets its twin on the digest (`ArbitrateRequest` of `CoreRecords`).
* The liveness properties `LostClaimsReleased`, `DueDecisionsConsumed`, `EveryCallReturns`, `CurrentTargetAnswered` and `CallersReturn`:
  liveness under fairness and ENABLED are beyond the prover.

## Findings

* **An expired claim that cannot be released** (`expired_claim`).  See `findings` in
  `PROJECT.json`: a retried item of an older observation blocks the recovery of the newer claim.
* **A due batch that cannot be consumed** (`due_batch`).  `RunRepositoryExtractionWorkRetryControllerTick`
  "consumes one bounded batch of due retry decisions" (`repository_extraction_work_retry_controller_tick.go:48`),
  each "by requeueing its failed work or superseding it behind newer pending work"
  (`internal/mcpadmin/backend.go:613`).  When two failed items of one stream are due and the older
  one's decision fell due first, the tick requeues the older item, finds it pending in front of the newer one, and that
  conflict (`repository_extraction_work_retry.go:172-173`) rolls everything back, on every call.
* **A success that is replayed as a failure** (`replayed_failure`).  The first call stores its result, fails and
  stores the failure, while a replay is already past the point where it reads it
  (`repository_extraction_work_execution.go:102`); the replay finishes the work.  From then on every replay of the
  "idempotent" request (`internal/mcpadmin/backend.go:197`) returns the failure.

`AlignedNeverDeadlock` names two writers that still take rows before the governance head, the approval of an implements
relation and the native decision of a contradiction.  With either of them sessions can wait in a
circle; the first retries after 40P01, the second returns the error.

Two things the documentation says of consistency runs do not hold of the code; the model behaves as the code does, and no run is spent on them.

* `internal/evidenceingestion/CONSISTENCY.md:133-134` says that concurrent changes "may leave a historical result, which is marked stale on
  read and followed by a new run on the next tick".  When the view moves between the worker's read of the target and the solver's own, the run stored
  for the target is the note `stale_view`.  If the change is then undone, the view's digest, and with it the target, is the earlier one, the
  lookup finds that run (`consistency_worker.go:193-198`), and nothing is computed until the view or the configuration changes: the watch
  has a run, which every read calls stale, and no result.  Hence `CurrentTargetAnswered` asks for a run and not for a verdict, and
  `FreshRunIsTheResult` says that the note is at least never read as one.
* `CONSISTENCY.md:118-119` says that "Database/read/artifact archival errors return an error without a completed result".  An error of the
  solver's own read of the view comes back as `solveErr` and is stored, with a `completed` event, as a failed run without a
  view (`consistency_check.go:82-84`, `consistency_worker.go:242-258`), as long as the connection outlives it.  Its target is then
  not tried again.

## Not modelled

* The extractors' own work: parsing Go, calls of gopls and of a language model, splitting a text into spans,
  locating a fact in a file.  They are functions of their input, without order.
* Search and presentation: lexical search, recovery of Han text, grounded briefs, conflict suggestions,
  displays and the hashes over them, candidate graphs and their diffs.
* Processes without state of their own: the launcher, the code graph adapter, evaluation scripts, service files but for the
  restart of the consistency worker.
* Parsing and encoding: configuration, credentials, tool arguments, solver formats.
* Rows that only record a call and are read only by its replay: those of the worker tick and of the controller ticks; and the repair that the
  maintenance tick makes of a claim owned by an execution (the repair itself is in `ExtractionExecution`).
* The first version of the implements review, of depth one, which nothing calls; approvals of references, except as
  writers with their locks and receipts.
* Order of observations in activation: generations are compared by the number they arrived under, in the model as in the code; nothing in
  the repository says what a late generation of an older commit should do.

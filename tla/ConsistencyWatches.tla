------------------------- MODULE ConsistencyWatches -------------------------
(***************************************************************************)
(* Consistency watches of internal/evidenceingestion (consistency_*.go)    *)
(* and the worker of internal/consistencyservice.  A watch is a sequence   *)
(* of configuration versions; a worker that finds no run for the current   *)
(* version over the current view of the sources announces the target,      *)
(* solves it and stores the run; consumers follow the watch's journal of   *)
(* events.                                                                 *)
(*                                                                         *)
(* A worker process visits every watch once per tick, on a connection      *)
(* whose session holds the watch's advisory lock; every transaction on it  *)
(* is a step.  An error ends the visit; the tick visits its other watches, *)
(* and then the process stops and waits for its supervisor.                *)
(*                                                                         *)
(* A view is named by a digest of its content: binding a claim and         *)
(* withdrawing the binding brings an earlier view back.                    *)
(***************************************************************************)
EXTENDS Naturals, Sequences, FiniteSets, SequencesExt

CONSTANTS Watches,        \* watch_id values
          Scanners,       \* worker processes
          Views,          \* digests of the contents the sources may have
          MaxVersions,    \* bound: versions of a watch
          MaxChanges,     \* bound: changes of the sources
          MaxFailures,    \* bound: errors, lost connections and crashes
          WatchLimit,     \* ConsistencyWorker.MaxWatches
          NoView,         \* the empty view ID
          NoScanner       \* nobody holds the lock

ASSUME WatchAssumption ==
    /\ MaxVersions \in Nat /\ MaxChanges \in Nat /\ MaxFailures \in Nat
    /\ WatchLimit \in Nat \ {0}
    /\ NoView \notin Views
    /\ NoScanner \notin Scanners

VARIABLES
  view,      \* the digest of what the sources hold now
  versions,  \* versions[w]: the configurations of w, in order
  runs,      \* table consistency_runs
  journal,   \* journal[w]: table consistency_events, in cursor order
  holder,    \* holder[w]: whose session holds the lock of w
  tick,      \* tick[p]: the process p, and what is left of its tick
  scan,      \* scan[p]: what p is doing for a watch
  changes,   \* changes of the sources so far
  failures   \* errors, lost connections and crashes so far

watchVars == <<view, versions, runs, journal, holder, tick, scan, changes, failures>>

\* A version is paused, or names the engine that is to run it.
Version == {"paused", "ours", "other"}

\* target: the view the run was asked for; seen: the view in its diagnosis.
\* A diagnosis is a verdict, or names what blocks one.
RunOutcome == {"diagnosed", "stale_view", "failed"}
Run == [watch : Watches, revision : Nat \ {0}, target : Views,
        seen : Views \cup {NoView}, outcome : RunOutcome]

Event == [kind : {"configured", "invalidated", "completed"}, revision : Nat \ {0},
          target : Views \cup {NoView}]

\* left: the watches this tick has still to visit.
Process == [up : BOOLEAN, failed : BOOLEAN, left : SUBSET Watches]
Ready == [up |-> TRUE, failed |-> FALSE, left |-> {}]

Resting == [pc |-> "idle"]
Scan == {Resting}
        \cup [pc : {"config"}, watch : Watches]
        \cup [pc : {"view"}, watch : Watches, revision : Nat \ {0}]
        \cup [pc : {"lookup", "announce", "solve"}, watch : Watches,
              revision : Nat \ {0}, target : Views]
        \cup [pc : {"store"}, watch : Watches, run : Run]

WatchInit ==
    /\ view \in Views
    /\ versions = [w \in Watches |-> <<>>]
    /\ runs = {}
    /\ journal = [w \in Watches |-> <<>>]
    /\ holder = [w \in Watches |-> NoScanner]
    /\ tick = [p \in Scanners |-> Ready]
    /\ scan = [p \in Scanners |-> Resting]
    /\ changes = 0 /\ failures = 0

-----------------------------------------------------------------------------
(* The journal, and what readers get.                                       *)

\* Wrong variant: an event seen before is appended again.
AlwaysAppended(events, e) == Append(events, e)

\* An event is recorded once per revision, target and kind.
Appended(events, e) == IF e \in ToSet(events) THEN events ELSE Append(events, e)

\* Wrong variant: does not compare the view the run was asked for.
FreshAsSeen(r) == r.revision = Len(versions[r.watch]) /\ r.seen = view

\* What a read of a stored run reports as matches_snapshot.
Fresh(r) == r.revision = Len(versions[r.watch]) /\ r.seen = view /\ r.target = view

-----------------------------------------------------------------------------
(* The sources, and the operators who register versions.                    *)

SourcesChange ==
    /\ changes < MaxChanges /\ changes' = changes + 1
    /\ \E v \in Views \ {view} : view' = v
    /\ UNCHANGED <<versions, runs, journal, holder, tick, scan, failures>>

Registered == {w \in Watches : versions[w] # <<>>}

\* A request seen before returns its receipt or is refused, and so is one that
\* expects another revision: that changes nothing.
RegisterWatch(w, v, expected) ==
    /\ expected = Len(versions[w]) /\ expected < MaxVersions
    /\ versions' = [versions EXCEPT ![w] = Append(@, v)]
    /\ journal' = [journal EXCEPT ![w] =
         Appended(@, [kind |-> "configured", revision |-> expected + 1, target |-> NoView])]
    /\ UNCHANGED <<view, runs, holder, tick, scan, changes, failures>>

-----------------------------------------------------------------------------
(* The process: tick after tick until one has failed.                       *)

BetweenTicks(p) == tick[p].up /\ tick[p].left = {} /\ scan[p] = Resting

StartTick(p) ==
    /\ BetweenTicks(p) /\ ~ tick[p].failed
    /\ Cardinality(Registered) <= WatchLimit
    /\ tick' = [tick EXCEPT ![p].left = Registered]
    /\ UNCHANGED <<view, versions, runs, journal, holder, scan, changes, failures>>

\* Run returns the errors of the tick.
ReturnErrors(p) ==
    /\ BetweenTicks(p)
    /\ tick[p].failed \/ Cardinality(Registered) > WatchLimit
    /\ tick' = [tick EXCEPT ![p].up = FALSE]
    /\ UNCHANGED <<view, versions, runs, journal, holder, scan, changes, failures>>

\* The supervisor's step.
Restart(p) ==
    /\ ~ tick[p].up
    /\ tick' = [tick EXCEPT ![p] = Ready]
    /\ UNCHANGED <<view, versions, runs, journal, holder, scan, changes, failures>>

-----------------------------------------------------------------------------
(* The visit of a watch.                                                    *)

\* The session that took the lock is alive.
Connected(p) == holder[scan[p].watch] = p

InScan(p, pc) == scan[p].pc = pc /\ Connected(p)

Goto(p, next) == scan' = [scan EXCEPT ![p] = next]

\* Wrong variant: the lock outlives the session.
KeptLocks(p) == holder

Unlocked(p) == [w \in Watches |-> IF holder[w] = p THEN NoScanner ELSE holder[w]]
Leave(p) == Goto(p, Resting) /\ holder' = Unlocked(p)

TickFails(p) == tick' = [tick EXCEPT ![p].failed = TRUE]

\* A watch that another session holds is passed over.
LockWatch(p, w) ==
    /\ scan[p] = Resting /\ w \in tick[p].left
    /\ tick' = [tick EXCEPT ![p].left = @ \ {w}]
    /\ IF holder[w] = NoScanner
         THEN holder' = [holder EXCEPT ![w] = p] /\ Goto(p, [pc |-> "config", watch |-> w])
         ELSE UNCHANGED <<holder, scan>>
    /\ UNCHANGED <<view, versions, runs, journal, changes, failures>>

\* A paused watch is left; one configured for another solver is an error.
ReadConfig(p) ==
    /\ InScan(p, "config")
    /\ LET w == scan[p].watch  latest == Last(versions[w])
       IN  \/ latest = "paused" /\ Leave(p) /\ UNCHANGED tick
           \/ latest = "other" /\ Leave(p) /\ TickFails(p)
           \/ /\ latest = "ours"
              /\ Goto(p, [pc |-> "view", watch |-> w, revision |-> Len(versions[w])])
              /\ UNCHANGED <<holder, tick>>
    /\ UNCHANGED <<view, versions, runs, journal, changes, failures>>

ReadView(p) ==
    /\ InScan(p, "view")
    /\ Goto(p, [pc |-> "lookup", watch |-> scan[p].watch, revision |-> scan[p].revision,
                target |-> view])
    /\ UNCHANGED <<view, versions, runs, journal, holder, tick, changes, failures>>

RunExists(w, revision, target) ==
    \E r \in runs : r.watch = w /\ r.revision = revision /\ r.target = target

LookupRun(p) ==
    /\ InScan(p, "lookup")
    /\ IF RunExists(scan[p].watch, scan[p].revision, scan[p].target)
         THEN Leave(p)
         ELSE Goto(p, [scan[p] EXCEPT !.pc = "announce"]) /\ UNCHANGED holder
    /\ UNCHANGED <<view, versions, runs, journal, tick, changes, failures>>

EventOf(p, kind, revision, target) ==
    journal' = [journal EXCEPT ![scan[p].watch] =
        Appended(@, [kind |-> kind, revision |-> revision, target |-> target])]

Announce(p) ==
    /\ InScan(p, "announce")
    /\ EventOf(p, "invalidated", scan[p].revision, scan[p].target)
    /\ Goto(p, [scan[p] EXCEPT !.pc = "solve"])
    /\ UNCHANGED <<view, versions, runs, holder, tick, changes, failures>>

\* Members of unknown currentness or without a condition block the run before
\* anything is solved.  Otherwise the view is read once more: that read may
\* fail, and return another view; what fails after it keeps the view.
Results(target) ==
    {[outcome |-> "diagnosed", seen |-> target], [outcome |-> "failed", seen |-> NoView]}
    \cup (IF view = target THEN [outcome : {"failed"}, seen : {view}]
                            ELSE [outcome : {"stale_view"}, seen : {view}])

Solve(p) ==
    /\ InScan(p, "solve")
    /\ \E result \in Results(scan[p].target) :
         Goto(p, [pc |-> "store", watch |-> scan[p].watch,
                  run |-> [watch |-> scan[p].watch, revision |-> scan[p].revision,
                           target |-> scan[p].target, outcome |-> result.outcome,
                           seen |-> result.seen]])
    /\ UNCHANGED <<view, versions, runs, journal, holder, tick, changes, failures>>

\* Whatever the sources and the configuration are by now.  The table's key on
\* watch, revision and target, which would refuse a second run, is left out:
\* FreshRunIsTheResult shows that the locks leave it nothing to refuse.
Store(p) ==
    LET r == scan[p].run IN
    /\ InScan(p, "store")
    /\ runs' = runs \cup {r}
    /\ EventOf(p, "completed", r.revision, r.target)
    /\ Leave(p)

StoreRun(p) == Store(p) /\ UNCHANGED <<view, versions, tick, changes, failures>>

NoticeDrop(p) ==
    /\ scan[p] # Resting /\ ~ Connected(p)
    /\ Goto(p, Resting) /\ TickFails(p)
    /\ UNCHANGED <<view, versions, runs, journal, holder, changes, failures>>

ScanStep(p) ==
    \/ StartTick(p) \/ ReturnErrors(p)
    \/ \E w \in Watches : LockWatch(p, w)
    \/ ReadConfig(p) \/ ReadView(p) \/ LookupRun(p) \/ Announce(p) \/ Solve(p)
    \/ StoreRun(p) \/ NoticeDrop(p)

-----------------------------------------------------------------------------
(* What goes wrong.                                                         *)

\* A statement fails, or the reading of an artifact, or a limit is exceeded.
Fail(p) ==
    /\ IF scan[p] = Resting THEN BetweenTicks(p) ELSE Connected(p)
    /\ Leave(p) /\ TickFails(p)
    /\ UNCHANGED <<view, versions, runs, journal, changes>>

\* The run is stored, and the answer to the commit is lost.
LoseAnswer(p) == Store(p) /\ TickFails(p) /\ UNCHANGED <<view, versions, changes>>

\* The connection is lost, by itself or with the 90 seconds a watch may take,
\* and the session's lock with it; the worker notices at its next statement.
Drop(p) ==
    /\ scan[p] # Resting /\ Connected(p)
    /\ holder' = Unlocked(p)
    /\ UNCHANGED <<view, versions, runs, journal, tick, scan, changes>>

Crash(p) ==
    /\ tick[p].up
    /\ Leave(p)
    /\ tick' = [tick EXCEPT ![p] = [up |-> FALSE, failed |-> TRUE, left |-> {}]]
    /\ UNCHANGED <<view, versions, runs, journal, changes>>

Trouble(p) ==
    /\ failures < MaxFailures /\ failures' = failures + 1
    /\ Fail(p) \/ LoseAnswer(p) \/ Drop(p) \/ Crash(p)

WatchNext ==
    \/ SourcesChange
    \/ \E w \in Watches, v \in Version, expected \in 0..MaxVersions :
         RegisterWatch(w, v, expected)
    \/ \E p \in Scanners : ScanStep(p) \/ Restart(p) \/ Trouble(p)

-----------------------------------------------------------------------------
(* Properties.                                                              *)

\* The journal tells each run's whole story once and in order: configured, then
\* invalidated, then completed, with a completed event exactly for the stored
\* runs: who has read the journal to its end has been told of every run.
JournalTellsRuns ==
    \A w \in Watches : LET events == journal[w] IN
        /\ \A i, j \in DOMAIN events : events[i] = events[j] => i = j
        /\ \A i \in DOMAIN events :
             /\ events[i].kind # "configured" =>
                  \E j \in 1..(i - 1) : events[j].kind = "configured"
                                        /\ events[j].revision = events[i].revision
             /\ events[i].kind = "completed" =>
                  \E j \in 1..(i - 1) : events[j] = [events[i] EXCEPT !.kind = "invalidated"]
        /\ {<<e.revision, e.target>> : e \in {f \in ToSet(events) : f.kind = "completed"}}
             = {<<r.revision, r.target>> : r \in {s \in runs : s.watch = w}}

\* A run that a read reports as matching its snapshot is the one result of the
\* watch's newest version, which is not paused and names the worker's engine,
\* over the view the reader sees: the session lock alone keeps a second worker
\* from storing another, and the run is not the note that the view had moved,
\* whatever has moved, come back or been registered since.  It may be a failure
\* to solve.
FreshRunIsTheResult ==
    \A r \in runs : Fresh(r) =>
        /\ r.outcome # "stale_view"
        /\ Last(versions[r.watch]) = "ours"
        /\ \A s \in runs : s.watch = r.watch /\ s.revision = r.revision /\ s.target = r.target
                           => s = r

\* A watch that stays configured for this worker has, again and again, a run for
\* its newest version over the view the sources then have, whatever failed on
\* the way, if stopped processes are restarted.  The run may be a failure, or
\* the note that the view had moved: neither is computed again.
Answered(w) ==
    \/ versions[w] = <<>> \/ Last(versions[w]) # "ours"
    \/ Cardinality(Registered) > WatchLimit
    \/ RunExists(w, Len(versions[w]), view)
CurrentTargetAnswered == \A w \in Watches : []<> Answered(w)

=============================================================================

---------------------------- MODULE WatchesProofs ----------------------------
(* Theorems about the consistency worker, about the migrations and roles    *)
(* that serve it, and about the tool servers.  The three share no variable: *)
(* each part states the specification of its own component first.           *)
EXTENDS ConsistencyWatches, RuntimeDatabase, ToolServing, FiniteSetTheorems, TLAPS

-----------------------------------------------------------------------------
(* Consistency watches.                                                     *)

WatchSpec == WatchInit /\ [][WatchNext]_watchVars

Revision == Nat \ {0}

Ev(kind, revision, target) == [kind |-> kind, revision |-> revision, target |-> target]

\* A journal in which nothing is told twice, and nothing before its cause.
Ordered(events) ==
    /\ \A i, j \in DOMAIN events : events[i] = events[j] => i = j
    /\ \A i \in DOMAIN events :
         /\ events[i].kind # "configured" =>
              \E j \in 1..(i - 1) : events[j].kind = "configured"
                                    /\ events[j].revision = events[i].revision
         /\ events[i].kind = "completed" =>
              \E j \in 1..(i - 1) : events[j] = [events[i] EXCEPT !.kind = "invalidated"]

\* The events of a journal have their cause in it.
HasCause(events, e) ==
    /\ e.kind # "configured" =>
         \E f \in ToSet(events) : f.kind = "configured" /\ f.revision = e.revision
    /\ e.kind = "completed" => Ev("invalidated", e.revision, e.target) \in ToSet(events)

\* A run notes that the view had moved only when it saw another than its target.
Honest(r) == r.outcome = "stale_view" => r.seen # r.target

\* The nth version of w is there, and names the worker's engine.
Configured(w, n) == n \in 1..Len(versions[w]) /\ versions[w][n] = "ours"

\* What a worker carries from step to step: a version that it may run and, once
\* announced, the announcement in the watch's journal.
ScanAgrees(p) ==
    /\ scan[p].pc = "config" => versions[scan[p].watch] # <<>>
    /\ scan[p].pc \in {"view", "lookup", "announce", "solve"} =>
         Configured(scan[p].watch, scan[p].revision)
    /\ scan[p].pc = "solve" =>
         Ev("invalidated", scan[p].revision, scan[p].target) \in ToSet(journal[scan[p].watch])
    /\ scan[p].pc = "store" =>
         /\ scan[p].run.watch = scan[p].watch /\ Honest(scan[p].run)
         /\ Configured(scan[p].watch, scan[p].run.revision)
         /\ Ev("invalidated", scan[p].run.revision, scan[p].run.target)
              \in ToSet(journal[scan[p].watch])

\* The journal of a watch tells its versions and its runs.
JournalAgrees(w) ==
    /\ Ordered(journal[w])
    /\ \A n \in 1..Len(versions[w]) : Ev("configured", n, NoView) \in ToSet(journal[w])
    /\ \A e \in ToSet(journal[w]) : e.kind = "completed" =>
         \E r \in runs : r.watch = w /\ r.revision = e.revision /\ r.target = e.target
    /\ \A r \in runs : r.watch = w =>
         Ev("completed", r.revision, r.target) \in ToSet(journal[w])

WatchTyped ==
    /\ view \in Views
    /\ versions \in [Watches -> Seq(Version)]
    /\ runs \subseteq Run
    /\ journal \in [Watches -> Seq(Event)]
    /\ scan \in [Scanners -> Scan]

WatchInv ==
    /\ WatchTyped
    /\ \A r \in runs : Honest(r) /\ Configured(r.watch, r.revision)
    /\ \A p \in Scanners : ScanAgrees(p)
    /\ \A w \in Watches : JournalAgrees(w)

LEMMA AppendedEvents ==
    ASSUME NEW S, NEW events \in Seq(S), NEW e \in S
    PROVE  /\ Appended(events, e) \in Seq(S)
           /\ ToSet(Appended(events, e)) = ToSet(events) \cup {e}
           /\ Len(events) <= Len(Appended(events, e))
           /\ \A i \in DOMAIN events : Appended(events, e)[i] = events[i]
           /\ e \in ToSet(events) => Appended(events, e) = events
           /\ e \notin ToSet(events) =>
                /\ Len(Appended(events, e)) = Len(events) + 1
                /\ Appended(events, e)[Len(events) + 1] = e
<1>1. CASE e \in ToSet(events)
  BY <1>1 DEF Appended, ToSet
<1>2. CASE e \notin ToSet(events)
  <2>1. Appended(events, e) = Append(events, e)
    BY <1>2 DEF Appended
  <2>2. ToSet(Append(events, e)) = ToSet(events) \cup {e}
    <3>1. DOMAIN Append(events, e) = DOMAIN events \cup {Len(events) + 1}
      OBVIOUS
    <3>2. /\ \A i \in DOMAIN events : Append(events, e)[i] = events[i]
          /\ Append(events, e)[Len(events) + 1] = e
      OBVIOUS
    <3> QED BY <3>1, <3>2 DEF ToSet
  <2> QED BY <1>2, <2>1, <2>2
<1> QED BY <1>1, <1>2

LEMMA AppendedOrder ==
    ASSUME NEW events \in Seq(Event), NEW e \in Event,
           Ordered(events), HasCause(events, e)
    PROVE  Ordered(Appended(events, e))
<1>1. CASE e \in ToSet(events)
  BY <1>1 DEF Appended
<1>2. CASE e \notin ToSet(events)
  <2> DEFINE more == Appended(events, e)  last == Len(events) + 1
  <2>1. /\ more \in Seq(Event) /\ Len(more) = last /\ more[last] = e
        /\ \A i \in DOMAIN events : more[i] = events[i]
    BY <1>2, AppendedEvents
  <2>2. /\ DOMAIN events = 1..Len(events) /\ DOMAIN more = 1..last /\ Len(events) \in Nat
    BY <2>1
  <2>3. \A i \in 1..last : i \in 1..Len(events) \/ i = last
    BY <2>2
  <2>4. \A i \in 1..Len(events) : more[i] = events[i] /\ events[i] # e
    BY <1>2, <2>1, <2>2 DEF ToSet
  <2> HIDE DEF more
  <2>5. \A i, j \in DOMAIN more : more[i] = more[j] => i = j
    BY <2>1, <2>2, <2>3, <2>4 DEF Ordered
  <2>6. ASSUME NEW i \in DOMAIN more
        PROVE  /\ more[i].kind # "configured" =>
                    \E j \in 1..(i - 1) : more[j].kind = "configured"
                                          /\ more[j].revision = more[i].revision
               /\ more[i].kind = "completed" =>
                    \E j \in 1..(i - 1) : more[j] = [more[i] EXCEPT !.kind = "invalidated"]
    <3>1. CASE i \in 1..Len(events)
      <4>1. \A j \in 1..(i - 1) : j \in 1..Len(events)
        BY <3>1, <2>2
      <4> QED BY <3>1, <2>2, <2>4, <4>1 DEF Ordered
    <3>2. CASE i = last
      <4>1. i - 1 = Len(events) /\ more[i] = e
        BY <3>2, <2>1, <2>2
      <4>2. e.kind # "configured" => \E j \in 1..Len(events) :
               events[j].kind = "configured" /\ events[j].revision = e.revision
        BY <2>2 DEF HasCause, ToSet
      <4>3. e.kind = "completed" => \E j \in 1..Len(events) :
               events[j] = Ev("invalidated", e.revision, e.target)
        BY <2>2 DEF HasCause, ToSet
      <4>4. [e EXCEPT !.kind = "invalidated"] = Ev("invalidated", e.revision, e.target)
        BY DEF Event, Ev
      <4>5. more[i].kind # "configured" => \E j \in 1..(i - 1) :
               more[j].kind = "configured" /\ more[j].revision = more[i].revision
        BY <4>1, <4>2, <2>4
      <4>6. more[i].kind = "completed" => \E j \in 1..(i - 1) :
               more[j] = [more[i] EXCEPT !.kind = "invalidated"]
        BY <4>1, <4>3, <4>4, <2>4
      <4> QED BY <4>5, <4>6
    <3> QED BY <2>2, <2>3, <3>1, <3>2
  <2>7. Ordered(more)
    BY <2>5, <2>6 DEF Ordered
  <2> QED BY <2>7 DEF more
<1> QED BY <1>1, <1>2

-----------------------------------------------------------------------------
(* The steps.  Versions are only added, runs and events too: what a worker  *)
(* carries stays true.                                                      *)

LEMMA WatchStarts == WatchInit => WatchInv
<1> SUFFICES ASSUME WatchInit PROVE WatchInv
  OBVIOUS
<1>1. WatchTyped
  BY DEF WatchInit, WatchTyped, Resting, Scan
<1>2. \A p \in Scanners : ScanAgrees(p)
  BY DEF WatchInit, ScanAgrees, Resting
<1>3. \A w \in Watches : JournalAgrees(w)
  BY DEF WatchInit, JournalAgrees, Ordered, ToSet
<1> QED BY <1>1, <1>2, <1>3 DEF WatchInv, WatchInit

\* What only grows.
Grows ==
    /\ versions' \in [Watches -> Seq(Version)]
    /\ \A w \in Watches : \A n \in 1..Len(versions[w]) :
         n \in 1..Len(versions'[w]) /\ versions'[w][n] = versions[w][n]
    /\ \A w \in Watches : ToSet(journal[w]) \subseteq ToSet(journal'[w])

LEMMA ConfiguredKept ==
    ASSUME Grows, NEW w \in Watches, NEW n, Configured(w, n)
    PROVE  Configured(w, n)'
  BY DEF Grows, Configured

\* A journal and a history left alone still agree, whatever was added to others'.
LEMMA JournalKept ==
    ASSUME NEW w \in Watches, JournalAgrees(w), UNCHANGED runs,
           journal'[w] = journal[w], versions'[w] = versions[w]
    PROVE  JournalAgrees(w)'
  BY DEF JournalAgrees

\* A step of one worker, which is on a watch it has locked.
LEMMA OnWatch ==
    ASSUME WatchInv, NEW p \in Scanners
    PROVE  /\ scan[p] \in Scan /\ scan \in [Scanners -> Scan] /\ ScanAgrees(p)
           /\ scan[p].pc # "idle" => scan[p].watch \in Watches
           /\ scan[p].pc \in {"view", "lookup", "announce", "solve"} => scan[p].revision \in Revision
           /\ scan[p].pc \in {"lookup", "announce", "solve"} => scan[p].target \in Views
           /\ scan[p].pc = "store" => scan[p].run \in Run
BY DEF WatchInv, WatchTyped, Scan, Resting, Revision

LEMMA ScanKept ==
    ASSUME WatchInv, Grows, NEW p \in Scanners, scan'[p] = scan[p]
    PROVE  ScanAgrees(p)'
<1>1. scan[p] \in Scan /\ ScanAgrees(p)
  BY OnWatch
<1>2. CASE scan[p].pc = "idle"
  BY <1>2 DEF ScanAgrees
<1>3. CASE scan[p].pc # "idle"
  <2>1. scan[p].watch \in Watches
    BY <1>3, OnWatch
  <2>2. /\ ToSet(journal[scan[p].watch]) \subseteq ToSet(journal'[scan[p].watch])
        /\ versions[scan[p].watch] # <<>> => versions'[scan[p].watch] # <<>>
    <3>1. /\ versions[scan[p].watch] \in Seq(Version) /\ versions'[scan[p].watch] \in Seq(Version)
          /\ ToSet(journal[scan[p].watch]) \subseteq ToSet(journal'[scan[p].watch])
          /\ \A n \in 1..Len(versions[scan[p].watch]) : n \in 1..Len(versions'[scan[p].watch])
      BY <2>1 DEF Grows, WatchInv, WatchTyped
    <3>2. versions[scan[p].watch] # <<>> => 1 \in 1..Len(versions[scan[p].watch])
      BY <3>1
    <3>3. 1 \in 1..Len(versions'[scan[p].watch]) => versions'[scan[p].watch] # <<>>
      BY <3>1
    <3> QED BY <3>1, <3>2, <3>3
  <2>4. scan[p].pc = "config" => versions'[scan[p].watch] # <<>>
    BY <1>1, <2>2 DEF ScanAgrees
  <2>5. scan[p].pc = "solve" =>
          Ev("invalidated", scan[p].revision, scan[p].target) \in ToSet(journal'[scan[p].watch])
    BY <1>1, <2>2 DEF ScanAgrees
  <2>6. scan[p].pc = "store" =>
         /\ scan[p].run.watch = scan[p].watch /\ Honest(scan[p].run)
         /\ Ev("invalidated", scan[p].run.revision, scan[p].run.target)
              \in ToSet(journal'[scan[p].watch])
    BY <1>1, <2>2 DEF ScanAgrees
  <2>7. ASSUME NEW n, Configured(scan[p].watch, n)
        PROVE  n \in 1..Len(versions'[scan[p].watch]) /\ versions'[scan[p].watch][n] = "ours"
    BY <2>1, <2>7 DEF Grows, Configured
  <2>8. /\ scan[p].pc \in {"view", "lookup", "announce", "solve"} =>
             /\ scan[p].revision \in 1..Len(versions'[scan[p].watch])
             /\ versions'[scan[p].watch][scan[p].revision] = "ours"
        /\ scan[p].pc = "store" =>
             /\ scan[p].run.revision \in 1..Len(versions'[scan[p].watch])
             /\ versions'[scan[p].watch][scan[p].run.revision] = "ours"
    BY <1>1, <2>7 DEF ScanAgrees
  <2>9. scan'[p] = scan[p]
    OBVIOUS
  <2> QED BY <2>4, <2>5, <2>6, <2>8, <2>9 DEF ScanAgrees, Configured
<1> QED BY <1>2, <1>3

\* A step that writes no version, no event and no run, and moves no worker.
LEMMA StillThere ==
    ASSUME WatchInv, view' \in Views, UNCHANGED <<versions, runs, journal, scan>>
    PROVE  WatchInv'
<1>1. WatchTyped' /\ Grows
  BY DEF WatchInv, WatchTyped, Grows
<1>2. \A p \in Scanners : ScanAgrees(p)'
  BY <1>1, ScanKept
<1>3. \A w \in Watches : JournalAgrees(w)'
  BY DEF WatchInv, JournalAgrees
<1>4. \A r \in runs' : Honest(r) /\ Configured(r.watch, r.revision)'
  BY DEF WatchInv, Configured
<1> QED BY <1>1, <1>2, <1>3, <1>4 DEF WatchInv

\* The same, but one worker moves.
LEMMA ScanMoves ==
    ASSUME WatchInv, NEW p \in Scanners, UNCHANGED <<view, versions, runs, journal>>,
           scan' = [scan EXCEPT ![p] = scan'[p]], scan'[p] \in Scan, ScanAgrees(p)'
    PROVE  WatchInv'
<1>1. WatchTyped'
  BY DEF WatchInv, WatchTyped
<1>2. Grows
  BY DEF Grows, WatchInv, WatchTyped
<1>3. ASSUME NEW q \in Scanners PROVE ScanAgrees(q)'
  <2>1. q # p => scan'[q] = scan[q]
    BY DEF WatchInv, WatchTyped
  <2> QED BY <1>2, <2>1, ScanKept
<1>4. \A w \in Watches : JournalAgrees(w)'
  BY DEF WatchInv, JournalAgrees
<1>5. \A r \in runs' : Honest(r) /\ Configured(r.watch, r.revision)'
  BY DEF WatchInv, Configured
<1> QED BY <1>1, <1>3, <1>4, <1>5 DEF WatchInv

LEMMA EventTold ==
    ASSUME WatchInv, NEW w \in Watches, NEW e \in Event, HasCause(journal[w], e),
           journal' = [journal EXCEPT ![w] = Appended(@, e)]
    PROVE  /\ journal' \in [Watches -> Seq(Event)]
           /\ \A v \in Watches : v # w => journal'[v] = journal[v]
           /\ ToSet(journal'[w]) = ToSet(journal[w]) \cup {e}
           /\ Ordered(journal'[w])
           /\ \A v \in Watches : ToSet(journal[v]) \subseteq ToSet(journal'[v])
<1>1. /\ journal \in [Watches -> Seq(Event)] /\ journal[w] \in Seq(Event)
      /\ Ordered(journal[w])
  BY DEF WatchInv, WatchTyped, JournalAgrees
<1>2. /\ Appended(journal[w], e) \in Seq(Event)
      /\ ToSet(Appended(journal[w], e)) = ToSet(journal[w]) \cup {e}
  BY <1>1, AppendedEvents
<1>3. Ordered(Appended(journal[w], e))
  BY <1>1, AppendedOrder
<1>4. /\ journal' \in [Watches -> Seq(Event)] /\ journal'[w] = Appended(journal[w], e)
      /\ \A v \in Watches : v # w => journal'[v] = journal[v]
  BY <1>1, <1>2
<1> QED BY <1>2, <1>3, <1>4

LEMMA RegisterWatchStep ==
    ASSUME WatchInv, NEW w \in Watches, NEW v \in Version, NEW expected \in Nat,
           RegisterWatch(w, v, expected)
    PROVE  WatchInv'
<1> DEFINE e == Ev("configured", expected + 1, NoView)
<1>1. /\ versions \in [Watches -> Seq(Version)] /\ expected = Len(versions[w])
      /\ versions' = [versions EXCEPT ![w] = Append(@, v)] /\ UNCHANGED <<view, runs, scan>>
  BY DEF RegisterWatch, WatchInv, WatchTyped
<1>2. /\ versions' \in [Watches -> Seq(Version)] /\ Len(versions'[w]) = expected + 1
      /\ \A x \in Watches : x # w => versions'[x] = versions[x]
      /\ \A n \in 1..Len(versions[w]) : versions'[w][n] = versions[w][n]
  BY <1>1
<1>3. e \in Event /\ HasCause(journal[w], e) /\ e.kind = "configured"
  BY DEF Ev, Event, HasCause
<1>4. journal' = [journal EXCEPT ![w] = Appended(@, e)]
  BY DEF RegisterWatch, Ev
<1> HIDE DEF e
<1>5. /\ journal' \in [Watches -> Seq(Event)]
      /\ \A x \in Watches : x # w => journal'[x] = journal[x]
      /\ ToSet(journal'[w]) = ToSet(journal[w]) \cup {e}
      /\ Ordered(journal'[w])
      /\ \A x \in Watches : ToSet(journal[x]) \subseteq ToSet(journal'[x])
  BY <1>3, <1>4, EventTold
<1>6. \A x \in Watches : \A n \in 1..Len(versions[x]) :
        n \in 1..Len(versions'[x]) /\ versions'[x][n] = versions[x][n]
  <2>1. \A n \in 1..expected : n \in 1..(expected + 1)
    OBVIOUS
  <2> QED BY <1>1, <1>2, <2>1
<1>7. WatchTyped' /\ Grows
  BY <1>1, <1>2, <1>5, <1>6 DEF WatchInv, WatchTyped, Grows
<1>8. \A p \in Scanners : ScanAgrees(p)'
  BY <1>1, <1>7, ScanKept
<1>9. ASSUME NEW x \in Watches PROVE JournalAgrees(x)'
  <2>1. CASE x # w
    <3>1. JournalAgrees(x) /\ journal'[x] = journal[x] /\ versions'[x] = versions[x]
      BY <2>1, <1>2, <1>5 DEF WatchInv
    <3>2. UNCHANGED runs
      BY <1>1
    <3> QED BY <3>1, <3>2, JournalKept
  <2>2. CASE x = w
    <3>1. \A n \in 1..Len(versions'[w]) : n \in 1..Len(versions[w]) \/ n = expected + 1
      BY <1>1, <1>2
    <3>2. \A n \in 1..Len(versions'[w]) : Ev("configured", n, NoView) \in ToSet(journal'[w])
      BY <3>1, <1>5 DEF WatchInv, JournalAgrees, e
    <3>3. \A f \in ToSet(journal'[w]) : f.kind = "completed" =>
            \E r \in runs' : r.watch = w /\ r.revision = f.revision /\ r.target = f.target
      BY <1>1, <1>3, <1>5 DEF WatchInv, JournalAgrees
    <3>4. \A r \in runs' : r.watch = w =>
            Ev("completed", r.revision, r.target) \in ToSet(journal'[w])
      BY <1>1, <1>5 DEF WatchInv, JournalAgrees
    <3> QED BY <2>2, <3>2, <3>3, <3>4, <1>5 DEF JournalAgrees
  <2> QED BY <2>1, <2>2
<1>10. \A r \in runs' : Honest(r) /\ Configured(r.watch, r.revision)'
  <2>1. \A r \in runs : r.watch \in Watches
    BY DEF WatchInv, WatchTyped, Run
  <2> QED BY <1>1, <1>7, <2>1, ConfiguredKept DEF WatchInv
<1> QED BY <1>7, <1>8, <1>9, <1>10 DEF WatchInv

LEMMA LeaveRow ==
    ASSUME WatchInv, NEW p \in Scanners, Goto(p, Resting)
    PROVE  /\ scan' = [scan EXCEPT ![p] = scan'[p]] /\ scan'[p] \in Scan
           /\ ScanAgrees(p)' /\ scan'[p].pc = "idle"
<1>1. scan' = [scan EXCEPT ![p] = scan'[p]] /\ scan'[p] = Resting
  BY OnWatch DEF Goto
<1> QED BY <1>1 DEF Resting, Scan, ScanAgrees

\* However a visit ends without a run.
LEMMA LeaveStep ==
    ASSUME WatchInv, NEW p \in Scanners, Goto(p, Resting),
           UNCHANGED <<view, versions, runs, journal>>
    PROVE  WatchInv'
  BY LeaveRow, ScanMoves

LEMMA LockWatchStep ==
    ASSUME WatchInv, NEW p \in Scanners, NEW w \in Watches, LockWatch(p, w), w \in Registered
    PROVE  WatchInv'
<1>1. CASE Goto(p, [pc |-> "config", watch |-> w])
  <2>1. scan' = [scan EXCEPT ![p] = scan'[p]] /\ scan'[p] = [pc |-> "config", watch |-> w]
    BY <1>1, OnWatch DEF Goto
  <2>2. scan'[p] \in Scan /\ ScanAgrees(p)'
    BY <2>1 DEF Scan, ScanAgrees, LockWatch, Registered
  <2> QED BY <2>1, <2>2, ScanMoves DEF LockWatch
<1>2. CASE UNCHANGED scan
  BY <1>2, StillThere DEF LockWatch, WatchInv, WatchTyped
<1> QED BY <1>1, <1>2 DEF LockWatch

LEMMA ReadConfigStep ==
    ASSUME WatchInv, NEW p \in Scanners, ReadConfig(p) PROVE WatchInv'
<1> DEFINE w == scan[p].watch
<1>1. UNCHANGED <<view, versions, runs, journal>> /\ scan[p].pc = "config"
  BY DEF ReadConfig, InScan
<1>2. w \in Watches /\ versions[w] # <<>> /\ versions[w] \in Seq(Version)
  BY <1>1, OnWatch DEF ScanAgrees, WatchInv, WatchTyped
<1>3. Len(versions[w]) \in Revision /\ Len(versions[w]) \in 1..Len(versions[w])
  BY <1>2 DEF Revision
<1>4. CASE Leave(p)
  BY <1>1, <1>4, LeaveStep DEF Leave
<1>5. CASE /\ Last(versions[w]) = "ours"
           /\ Goto(p, [pc |-> "view", watch |-> w, revision |-> Len(versions[w])])
  <2>1. /\ scan' = [scan EXCEPT ![p] = scan'[p]]
        /\ scan'[p] = [pc |-> "view", watch |-> w, revision |-> Len(versions[w])]
    BY <1>5, OnWatch DEF Goto
  <2>2. scan'[p] \in Scan
    BY <2>1, <1>2, <1>3 DEF Scan, Revision
  <2>3. Configured(w, Len(versions[w]))
    BY <1>3, <1>5 DEF Configured, Last
  <2>4. ScanAgrees(p)'
    BY <2>1, <2>3, <1>1 DEF ScanAgrees, Configured
  <2> QED BY <1>1, <2>1, <2>2, <2>4, ScanMoves
<1> QED BY <1>4, <1>5 DEF ReadConfig

LEMMA ReadViewStep ==
    ASSUME WatchInv, NEW p \in Scanners, ReadView(p) PROVE WatchInv'
<1>1. /\ UNCHANGED <<view, versions, runs, journal>> /\ scan[p].pc = "view"
      /\ scan' = [scan EXCEPT ![p] = scan'[p]]
      /\ scan'[p] = [pc |-> "lookup", watch |-> scan[p].watch, revision |-> scan[p].revision,
                     target |-> view]
  BY OnWatch DEF ReadView, InScan, Goto
<1>2. scan'[p] \in Scan
  BY <1>1, OnWatch DEF Scan, WatchInv, WatchTyped, Revision
<1>3. Configured(scan[p].watch, scan[p].revision)
  BY <1>1, OnWatch DEF ScanAgrees
<1>4. /\ scan'[p].pc = "lookup" /\ scan'[p].watch = scan[p].watch
      /\ scan'[p].revision = scan[p].revision /\ versions' = versions
  BY <1>1
<1>5. ScanAgrees(p)'
  BY <1>3, <1>4 DEF ScanAgrees, Configured
<1> QED BY <1>1, <1>2, <1>5, ScanMoves

LEMMA LookupRunStep ==
    ASSUME WatchInv, NEW p \in Scanners, LookupRun(p) PROVE WatchInv'
<1>1. UNCHANGED <<view, versions, runs, journal>> /\ scan[p].pc = "lookup"
  BY DEF LookupRun, InScan
<1>2. CASE Leave(p)
  BY <1>1, <1>2, LeaveStep DEF Leave
<1>3. CASE Goto(p, [scan[p] EXCEPT !.pc = "announce"])
  <2>1. /\ scan' = [scan EXCEPT ![p] = scan'[p]]
        /\ scan'[p] = [scan[p] EXCEPT !.pc = "announce"]
    BY <1>3, OnWatch DEF Goto
  <2>2. /\ scan'[p] \in Scan /\ scan'[p].pc = "announce"
        /\ scan'[p].watch = scan[p].watch /\ scan'[p].revision = scan[p].revision
    BY <2>1, <1>1, OnWatch DEF Scan, Resting
  <2>3. Configured(scan[p].watch, scan[p].revision)
    BY <1>1, OnWatch DEF ScanAgrees
  <2>4. ScanAgrees(p)'
    BY <1>1, <2>2, <2>3 DEF ScanAgrees, Configured
  <2> QED BY <1>1, <2>1, <2>2, <2>4, ScanMoves
<1> QED BY <1>2, <1>3 DEF LookupRun

LEMMA AnnounceStep ==
    ASSUME WatchInv, NEW p \in Scanners, Announce(p) PROVE WatchInv'
<1> DEFINE w == scan[p].watch  e == Ev("invalidated", scan[p].revision, scan[p].target)
<1>1. /\ UNCHANGED <<view, versions, runs>> /\ scan[p].pc = "announce"
      /\ scan' = [scan EXCEPT ![p] = scan'[p]]
      /\ scan'[p] = [scan[p] EXCEPT !.pc = "solve"]
      /\ journal' = [journal EXCEPT ![w] = Appended(@, e)]
  BY OnWatch DEF Announce, InScan, Goto, EventOf, Ev
<1>2. /\ scan'[p] \in Scan /\ scan'[p].pc = "solve" /\ w \in Watches
      /\ scan'[p].watch = w /\ scan'[p].revision = scan[p].revision
      /\ scan'[p].target = scan[p].target
      /\ scan[p].revision \in Revision /\ scan[p].target \in Views
  BY <1>1, OnWatch DEF Scan, Resting
<1>3. Configured(w, scan[p].revision)
  BY <1>1, OnWatch DEF ScanAgrees
<1>4. Ev("configured", scan[p].revision, NoView) \in ToSet(journal[w])
  BY <1>2, <1>3 DEF WatchInv, JournalAgrees, Configured
<1>5. e \in Event /\ e.kind = "invalidated" /\ HasCause(journal[w], e)
  BY <1>2, <1>4 DEF Ev, Event, HasCause, Revision
<1> HIDE DEF e
<1>6. /\ journal' \in [Watches -> Seq(Event)]
      /\ \A x \in Watches : x # w => journal'[x] = journal[x]
      /\ ToSet(journal'[w]) = ToSet(journal[w]) \cup {e}
      /\ Ordered(journal'[w])
      /\ \A x \in Watches : ToSet(journal[x]) \subseteq ToSet(journal'[x])
  BY <1>1, <1>2, <1>5, EventTold
<1>7. scan' \in [Scanners -> Scan]
  BY <1>1, <1>2, OnWatch
<1>8. WatchTyped' /\ Grows
  BY <1>1, <1>6, <1>7 DEF WatchInv, WatchTyped, Grows
<1>9. ASSUME NEW q \in Scanners PROVE ScanAgrees(q)'
  <2>1. CASE q # p
    <3>1. scan'[q] = scan[q]
      BY <2>1, <1>1, OnWatch
    <3> QED BY <1>8, <3>1, ScanKept
  <2>2. CASE q = p
    <3>1. Configured(w, scan[p].revision)'
      BY <1>1, <1>2, <1>3, <1>8, ConfiguredKept DEF Configured
    <3>2. Ev("invalidated", scan[p].revision, scan[p].target) \in ToSet(journal'[w])
      BY <1>6 DEF e
    <3> QED BY <2>2, <1>1, <1>2, <1>3, <3>2 DEF ScanAgrees, Configured
  <2> QED BY <2>1, <2>2
<1>10. ASSUME NEW x \in Watches PROVE JournalAgrees(x)'
  <2>1. CASE x # w
    BY <2>1, <1>1, <1>6 DEF WatchInv, JournalAgrees
  <2>2. CASE x = w
    BY <2>2, <1>1, <1>5, <1>6 DEF WatchInv, JournalAgrees
  <2> QED BY <2>1, <2>2
<1>11. \A r \in runs' : Honest(r) /\ Configured(r.watch, r.revision)'
  BY <1>1 DEF WatchInv, Configured
<1> QED BY <1>8, <1>9, <1>10, <1>11 DEF WatchInv

LEMMA SolveStep ==
    ASSUME WatchInv, NEW p \in Scanners, Solve(p) PROVE WatchInv'
<1>1. PICK result \in Results(scan[p].target) :
        Goto(p, [pc |-> "store", watch |-> scan[p].watch,
                 run |-> [watch |-> scan[p].watch, revision |-> scan[p].revision,
                          target |-> scan[p].target, outcome |-> result.outcome,
                          seen |-> result.seen]])
  BY DEF Solve
<1> DEFINE r == [watch |-> scan[p].watch, revision |-> scan[p].revision,
                 target |-> scan[p].target, outcome |-> result.outcome,
                 seen |-> result.seen]
<1>2. /\ UNCHANGED <<view, versions, runs, journal>> /\ scan[p].pc = "solve"
      /\ scan' = [scan EXCEPT ![p] = scan'[p]]
      /\ scan'[p] = [pc |-> "store", watch |-> scan[p].watch, run |-> r]
  BY <1>1, OnWatch DEF Solve, InScan, Goto
<1>3. /\ scan[p].watch \in Watches /\ scan[p].revision \in Revision
      /\ scan[p].target \in Views /\ view \in Views
  BY <1>2, OnWatch DEF WatchInv, WatchTyped
<1>4. /\ result.outcome \in RunOutcome /\ result.seen \in Views \cup {NoView}
      /\ result.outcome = "stale_view" => result.seen # scan[p].target
  BY <1>3 DEF Results, RunOutcome
<1>5. r \in Run /\ Honest(r)
  BY <1>3, <1>4 DEF Run, Honest, Revision
<1>6. r.watch = scan[p].watch /\ r.revision = scan[p].revision /\ r.target = scan[p].target
  OBVIOUS
<1> HIDE DEF r
<1>7. scan'[p] \in Scan
  BY <1>2, <1>3, <1>5 DEF Scan
<1>8. /\ Configured(scan[p].watch, scan[p].revision)
      /\ Ev("invalidated", scan[p].revision, scan[p].target) \in ToSet(journal[scan[p].watch])
  BY <1>2, OnWatch DEF ScanAgrees
<1>9. /\ scan'[p].pc = "store" /\ scan'[p].watch = scan[p].watch /\ scan'[p].run = r
      /\ versions' = versions /\ journal' = journal
  BY <1>2
<1>10. ScanAgrees(p)'
  BY <1>5, <1>6, <1>8, <1>9 DEF ScanAgrees, Configured
<1> QED BY <1>2, <1>7, <1>10, ScanMoves

\* The step of StoreRun and of LoseAnswer.
LEMMA StoreStep ==
    ASSUME WatchInv, NEW p \in Scanners, Store(p), UNCHANGED <<view, versions>>
    PROVE  WatchInv'
<1> DEFINE w == scan[p].watch  r == scan[p].run  e == Ev("completed", r.revision, r.target)
<1>1. /\ scan[p].pc = "store" /\ Goto(p, Resting)
      /\ runs' = runs \cup {r}
      /\ journal' = [journal EXCEPT ![w] = Appended(@, e)]
  BY DEF Store, InScan, EventOf, Ev, Leave
<1>2. /\ w \in Watches /\ r \in Run /\ r.watch = w /\ Honest(r)
      /\ Configured(w, r.revision)
      /\ Ev("invalidated", r.revision, r.target) \in ToSet(journal[w])
  BY <1>1, OnWatch DEF ScanAgrees
<1>3. r.revision \in Revision /\ r.target \in Views
  BY <1>2 DEF Run, Revision
<1>4. Ev("configured", r.revision, NoView) \in ToSet(journal[w])
  BY <1>2 DEF WatchInv, JournalAgrees, Configured
<1>5. /\ e \in Event /\ e.kind = "completed" /\ HasCause(journal[w], e)
      /\ e.revision = r.revision /\ e.target = r.target
  BY <1>2, <1>3, <1>4 DEF Ev, Event, HasCause, Revision
<1>6. /\ scan' = [scan EXCEPT ![p] = scan'[p]] /\ scan'[p] \in Scan /\ ScanAgrees(p)'
  BY <1>1, LeaveRow
<1>7. /\ journal' \in [Watches -> Seq(Event)]
      /\ \A x \in Watches : x # w => journal'[x] = journal[x]
      /\ ToSet(journal'[w]) = ToSet(journal[w]) \cup {e}
      /\ Ordered(journal'[w])
      /\ \A x \in Watches : ToSet(journal[x]) \subseteq ToSet(journal'[x])
  <2> HIDE DEF e
  <2> QED BY <1>1, <1>2, <1>5, EventTold
<1>8. scan' \in [Scanners -> Scan]
  BY <1>6, OnWatch
<1>9. WatchTyped' /\ Grows
  BY <1>1, <1>2, <1>7, <1>8 DEF WatchInv, WatchTyped, Grows
<1>10. ASSUME NEW q \in Scanners PROVE ScanAgrees(q)'
  <2>1. q # p => scan'[q] = scan[q]
    BY <1>6, OnWatch
  <2> QED BY <1>6, <1>9, <2>1, ScanKept
<1>11. \A s \in runs' : Honest(s) /\ Configured(s.watch, s.revision)'
  BY <1>1, <1>2 DEF WatchInv, Configured
<1>12. ASSUME NEW x \in Watches PROVE JournalAgrees(x)'
  <2>1. CASE x # w
    <3>1. \A s \in runs' : s.watch = x => s \in runs
      BY <2>1, <1>1, <1>2
    <3> QED BY <2>1, <3>1, <1>1, <1>7 DEF WatchInv, JournalAgrees
  <2>2. CASE x = w
    <3>1. \A n \in 1..Len(versions'[w]) : Ev("configured", n, NoView) \in ToSet(journal'[w])
      BY <1>1, <1>2, <1>7 DEF WatchInv, JournalAgrees
    <3>2. \A f \in ToSet(journal'[w]) : f.kind = "completed" =>
            \E s \in runs' : s.watch = w /\ s.revision = f.revision /\ s.target = f.target
      <4> HIDE DEF e
      <4> QED BY <1>1, <1>2, <1>5, <1>7 DEF WatchInv, JournalAgrees
    <3>3. \A s \in runs' : s.watch = w =>
            Ev("completed", s.revision, s.target) \in ToSet(journal'[w])
      BY <1>1, <1>2, <1>7 DEF WatchInv, JournalAgrees
    <3> QED BY <2>2, <3>1, <3>2, <3>3, <1>7 DEF JournalAgrees
  <2> QED BY <2>1, <2>2
<1> QED BY <1>9, <1>10, <1>11, <1>12 DEF WatchInv

\* What goes wrong ends a visit, takes the lock away, or loses an answer.
LEMMA TroubleStep ==
    ASSUME WatchInv, NEW p \in Scanners, Trouble(p) PROVE WatchInv'
<1>1. view \in Views
  BY DEF WatchInv, WatchTyped
<1>2. CASE Fail(p) \/ Crash(p)
  BY <1>2, LeaveStep DEF Fail, Crash, Leave
<1>3. CASE LoseAnswer(p)
  BY <1>3, StoreStep DEF LoseAnswer
<1>4. CASE Drop(p)
  BY <1>1, <1>4, StillThere DEF Drop
<1> QED BY <1>2, <1>3, <1>4 DEF Trouble

-----------------------------------------------------------------------------
(* The ticks and the locks.                                                 *)

\* A tick visits watches that have a configuration.
TickInv ==
    /\ tick \in [Scanners -> Process]
    /\ \A p \in Scanners : tick[p].left \subseteq Registered

LEMMA TickMoves ==
    ASSUME TickInv, NEW p \in Scanners, UNCHANGED versions,
           tick' = [tick EXCEPT ![p] = tick'[p]], tick'[p] \in Process,
           tick'[p].left \subseteq Registered
    PROVE  TickInv'
<1>1. tick' \in [Scanners -> Process] /\ Registered' = Registered
  BY DEF TickInv, Registered
<1>2. \A q \in Scanners : q # p => tick'[q] = tick[q]
  BY DEF TickInv
<1> QED BY <1>1, <1>2 DEF TickInv

LEMMA TickStep ==
    ASSUME WatchInv, TickInv, [WatchNext]_watchVars PROVE TickInv'
<1>1. ASSUME NEW p \in Scanners
      PROVE  /\ tick[p] \in Process /\ tick[p].left \subseteq Registered
             /\ tick[p].left \in SUBSET Watches
             /\ tick = [tick EXCEPT ![p] = tick[p]]
  BY DEF TickInv, Process
<1>2. CASE UNCHANGED <<tick, versions>>
  BY <1>2 DEF TickInv, Registered
<1>3. ASSUME NEW w \in Watches, NEW v \in Version, NEW expected \in 0..MaxVersions,
             RegisterWatch(w, v, expected)
      PROVE  TickInv'
  <2>1. /\ UNCHANGED tick /\ versions \in [Watches -> Seq(Version)]
        /\ versions' = [versions EXCEPT ![w] = Append(@, v)]
    BY <1>3 DEF RegisterWatch, WatchInv, WatchTyped
  <2>2. \A x \in Watches : versions[x] # <<>> => versions'[x] # <<>>
    BY <2>1
  <2> QED BY <2>1, <2>2 DEF TickInv, Registered
<1>4. ASSUME NEW p \in Scanners, TickFails(p), UNCHANGED versions PROVE TickInv'
  <2>1. /\ tick' = [tick EXCEPT ![p] = tick'[p]] /\ tick'[p] \in Process
        /\ tick'[p].left = tick[p].left
    BY <1>1, <1>4 DEF TickFails, TickInv, Process
  <2> QED BY <1>1, <1>4, <2>1, TickMoves
<1>5. ASSUME NEW p \in Scanners,
             StartTick(p) \/ ReturnErrors(p) \/ Restart(p) \/ Crash(p)
      PROVE  TickInv'
  <2>1. Registered \in SUBSET Watches
    BY DEF Registered
  <2>2. ASSUME NEW row \in Process, row.left \in {{}, Registered, tick[p].left},
               tick' = [tick EXCEPT ![p] = row], UNCHANGED versions
        PROVE  TickInv'
    <3>1. tick'[p] = row /\ tick' = [tick EXCEPT ![p] = tick'[p]]
      BY <2>2 DEF TickInv
    <3> QED BY <1>1, <2>2, <3>1, TickMoves
  <2>3. /\ [tick[p] EXCEPT !.left = Registered] \in Process
        /\ [tick[p] EXCEPT !.left = Registered].left = Registered
        /\ [tick[p] EXCEPT !.up = FALSE] \in Process
        /\ [tick[p] EXCEPT !.up = FALSE].left = tick[p].left
    BY <1>1, <2>1 DEF Process
  <2>4. /\ Ready \in Process /\ Ready.left = {}
        /\ [up |-> FALSE, failed |-> TRUE, left |-> {}] \in Process
    BY DEF Ready, Process
  <2>5. CASE StartTick(p) \/ ReturnErrors(p)
    BY <2>2, <2>3, <2>5 DEF StartTick, ReturnErrors
  <2>6. CASE Restart(p) \/ Crash(p)
    BY <2>2, <2>4, <2>6 DEF Restart, Crash
  <2> QED BY <1>5, <2>5, <2>6
<1>6. ASSUME NEW p \in Scanners, NEW w \in Watches, LockWatch(p, w) PROVE TickInv'
  <2>1. /\ tick' = [tick EXCEPT ![p] = tick'[p]] /\ tick'[p] \in Process
        /\ tick'[p].left = tick[p].left \ {w} /\ UNCHANGED versions
    BY <1>1, <1>6 DEF LockWatch, TickInv, Process
  <2> QED BY <1>1, <2>1, TickMoves
<1>7. ASSUME NEW p \in Scanners, ScanStep(p) \/ Restart(p) \/ Trouble(p) PROVE TickInv'
  BY <1>2, <1>4, <1>5, <1>6, <1>7
     DEF ScanStep, Trouble, ReadConfig, ReadView, LookupRun, Announce, Solve, StoreRun,
         NoticeDrop, Fail, LoseAnswer, Drop
<1> QED BY <1>2, <1>3, <1>7 DEF WatchNext, SourcesChange, watchVars

\* While its session lives, a worker that has announced a run finds none stored
\* for the same target: the lock keeps every other worker out of the watch.
Undone(p) ==
    /\ scan[p].pc \in {"announce", "solve"} /\ Connected(p) =>
         ~ RunExists(scan[p].watch, scan[p].revision, scan[p].target)
    /\ scan[p].pc = "store" /\ Connected(p) =>
         ~ RunExists(scan[p].run.watch, scan[p].run.revision, scan[p].run.target)

SameTarget(r, s) == r.watch = s.watch /\ r.revision = s.revision /\ r.target = s.target

LockInv ==
    /\ holder \in [Watches -> Scanners \cup {NoScanner}]
    /\ \A p \in Scanners : Undone(p)
    /\ \A r, s \in runs : SameTarget(r, s) => r = s

\* A session other than p's gains no lock.
NoLockGained(p) ==
    /\ holder' \in [Watches -> Scanners \cup {NoScanner}]
    /\ \A w \in Watches, q \in Scanners : q # p /\ holder'[w] = q => holder[w] = q

LEMMA UnlockedGains ==
    ASSUME LockInv, NEW p \in Scanners
    PROVE  /\ UNCHANGED holder => NoLockGained(p)
           /\ holder' = Unlocked(p) => NoLockGained(p)
  BY WatchAssumption DEF LockInv, NoLockGained, Unlocked

\* Where no run is stored, the others keep what they rely on.
LEMMA LockMoves ==
    ASSUME WatchInv, LockInv, UNCHANGED runs, NEW p \in Scanners, NoLockGained(p),
           scan' = [scan EXCEPT ![p] = scan'[p]], Undone(p)'
    PROVE  LockInv'
<1>1. ASSUME NEW q \in Scanners, q # p PROVE Undone(q)'
  <2>1. scan'[q] = scan[q] /\ Undone(q)
    BY <1>1, OnWatch DEF LockInv
  <2>2. scan[q].pc # "idle" /\ Connected(q)' => Connected(q)
    BY <1>1, <2>1, OnWatch DEF Connected, NoLockGained
  <2> QED BY <2>1, <2>2 DEF Undone, RunExists
<1> QED BY <1>1 DEF LockInv, NoLockGained

LEMMA StoreLocks ==
    ASSUME WatchInv, LockInv, NEW p \in Scanners, Store(p) PROVE LockInv'
<1> DEFINE r == scan[p].run
<1>1. /\ scan[p].pc = "store" /\ Connected(p) /\ runs' = runs \cup {r}
      /\ Goto(p, Resting) /\ holder' = Unlocked(p)
  BY DEF Store, InScan, Leave
<1>2. NoLockGained(p)
  BY <1>1, UnlockedGains
<1>3. /\ scan' = [scan EXCEPT ![p] = scan'[p]] /\ scan'[p].pc = "idle"
  BY <1>1, LeaveRow
<1>4. r.watch = scan[p].watch /\ ~ RunExists(r.watch, r.revision, r.target)
  BY <1>1, OnWatch DEF ScanAgrees, LockInv, Undone
<1>5. ASSUME NEW q \in Scanners PROVE Undone(q)'
  <2>1. CASE q = p
    BY <2>1, <1>3 DEF Undone
  <2>2. CASE q # p
    <3>1. scan'[q] = scan[q] /\ Undone(q)
      BY <2>2, <1>3, OnWatch DEF LockInv
    <3>2. scan[q].pc # "idle" /\ Connected(q)' => Connected(q) /\ scan[q].watch # r.watch
      BY <2>2, <3>1, <1>1, <1>2, <1>4, OnWatch DEF Connected, NoLockGained
    <3>3. scan[q].pc = "store" => scan[q].run.watch = scan[q].watch
      BY OnWatch DEF ScanAgrees
    <3>4. \A w, n, t : w # r.watch /\ RunExists(w, n, t)' => RunExists(w, n, t)
      BY <1>1 DEF RunExists
    <3>5. /\ scan[q].pc \in {"announce", "solve"} /\ Connected(q)' =>
               ~ RunExists(scan[q].watch, scan[q].revision, scan[q].target)'
          /\ scan[q].pc = "store" /\ Connected(q)' =>
               ~ RunExists(scan[q].run.watch, scan[q].run.revision, scan[q].run.target)'
      BY <3>1, <3>2, <3>3, <3>4 DEF Undone
    <3> QED BY <3>1, <3>5 DEF Undone, RunExists
  <2> QED BY <2>1, <2>2
<1>6. \A s, t \in runs' : SameTarget(s, t) => s = t
  BY <1>1, <1>4 DEF LockInv, RunExists, SameTarget
<1> QED BY <1>2, <1>5, <1>6 DEF LockInv, NoLockGained

LEMMA LockStep ==
    ASSUME WatchInv, LockInv, [WatchNext]_watchVars PROVE LockInv'
<1>1. CASE UNCHANGED <<scan, holder, runs>>
  BY <1>1 DEF LockInv, Undone, Connected, RunExists
<1>2. ASSUME NEW p \in Scanners, NoLockGained(p), Goto(p, Resting), UNCHANGED runs
      PROVE  LockInv'
  <2>1. scan' = [scan EXCEPT ![p] = scan'[p]] /\ scan'[p].pc = "idle"
    BY <1>2, LeaveRow
  <2>2. Undone(p)'
    BY <2>1 DEF Undone
  <2> QED BY <1>2, <2>1, <2>2, LockMoves
<1>3. ASSUME NEW p \in Scanners, Leave(p) \/ NoticeDrop(p), UNCHANGED runs PROVE LockInv'
  BY <1>2, <1>3, UnlockedGains DEF Leave, NoticeDrop
<1>4. ASSUME NEW p \in Scanners, Drop(p) PROVE LockInv'
  <2>1. holder' = Unlocked(p) /\ UNCHANGED <<scan, runs>>
    BY <1>4 DEF Drop
  <2>2. NoLockGained(p) /\ \A w \in Watches : holder'[w] # p
    BY <2>1, UnlockedGains, WatchAssumption DEF Unlocked
  <2>3. scan = [scan EXCEPT ![p] = scan[p]]
    BY OnWatch
  <2>4. Undone(p)'
    BY <2>1, <2>2, OnWatch DEF Undone, Connected
  <2> QED BY <2>1, <2>2, <2>3, <2>4, LockMoves
<1>5. ASSUME NEW p \in Scanners, NEW row, row.pc \in {"config", "view", "lookup"},
             NoLockGained(p), Goto(p, row), UNCHANGED runs
      PROVE  LockInv'
  <2>1. scan' = [scan EXCEPT ![p] = scan'[p]] /\ scan'[p] = row
    BY <1>5, OnWatch DEF Goto
  <2>2. Undone(p)'
    BY <1>5, <2>1 DEF Undone
  <2> QED BY <1>5, <2>1, <2>2, LockMoves
<1>6. ASSUME NEW p \in Scanners, NEW w \in Watches, LockWatch(p, w) PROVE LockInv'
  <2>1. CASE holder' = [holder EXCEPT ![w] = p] /\ Goto(p, [pc |-> "config", watch |-> w])
    <3>1. NoLockGained(p)
      BY <2>1 DEF NoLockGained, LockInv
    <3> QED BY <1>5, <1>6, <2>1, <3>1 DEF LockWatch
  <2> QED BY <1>1, <1>6, <2>1 DEF LockWatch
<1>7. ASSUME NEW p \in Scanners, ReadConfig(p) \/ ReadView(p) PROVE LockInv'
  <2>1. CASE Leave(p)
    BY <1>3, <1>7, <2>1 DEF ReadConfig, ReadView
  <2>2. CASE UNCHANGED holder
    BY <1>5, <1>7, <1>3, <2>2, UnlockedGains DEF ReadConfig, ReadView
  <2> QED BY <1>7, <2>1, <2>2 DEF ReadConfig, ReadView
<1>8. ASSUME NEW p \in Scanners, LookupRun(p) \/ Announce(p) \/ Solve(p) PROVE LockInv'
  <2>1. CASE Leave(p)
    BY <1>3, <1>8, <2>1 DEF LookupRun, Announce, Solve
  <2>2. CASE ~ Leave(p)
    <3>1. UNCHANGED <<holder, runs>>
      BY <1>8, <2>2 DEF LookupRun, Announce, Solve
    <3>2. scan' = [scan EXCEPT ![p] = scan'[p]]
      BY <1>8, <2>2, OnWatch DEF LookupRun, Announce, Solve, Goto
    <3>3. ~ RunExists(scan[p].watch, scan[p].revision, scan[p].target)
      BY <1>8, <2>2 DEF LookupRun, Announce, Solve, InScan, LockInv, Undone
    <3>4. \/ /\ scan'[p].pc \in {"announce", "solve"}
             /\ scan'[p].watch = scan[p].watch /\ scan'[p].revision = scan[p].revision
             /\ scan'[p].target = scan[p].target
          \/ /\ scan'[p].pc = "store" /\ scan'[p].run.watch = scan[p].watch
             /\ scan'[p].run.revision = scan[p].revision
             /\ scan'[p].run.target = scan[p].target
      <4>1. CASE Solve(p)
        BY <4>1, OnWatch DEF Solve, Goto
      <4>2. CASE LookupRun(p) \/ Announce(p)
        <5>1. /\ \/ scan' = [scan EXCEPT ![p] = [scan[p] EXCEPT !.pc = "announce"]]
                 \/ scan' = [scan EXCEPT ![p] = [scan[p] EXCEPT !.pc = "solve"]]
              /\ scan[p].pc \in {"lookup", "announce"}
          BY <4>2, <2>2 DEF LookupRun, Announce, Goto, InScan
        <5> QED BY <5>1, OnWatch DEF Scan, Resting
      <4> QED BY <1>8, <4>1, <4>2
    <3>5. Undone(p)'
      BY <3>1, <3>3, <3>4 DEF Undone, RunExists
    <3>6. NoLockGained(p)
      BY <3>1, UnlockedGains
    <3> QED BY <3>1, <3>2, <3>5, <3>6, LockMoves
  <2> QED BY <2>1, <2>2
<1>9. ASSUME NEW p \in Scanners, ScanStep(p) PROVE LockInv'
  BY <1>1, <1>3, <1>6, <1>7, <1>8, <1>9, StoreLocks
     DEF ScanStep, StartTick, ReturnErrors, StoreRun, NoticeDrop
<1>10. ASSUME NEW p \in Scanners, Trouble(p) PROVE LockInv'
  <2>1. CASE Fail(p) \/ Crash(p)
    BY <1>3, <2>1 DEF Fail, Crash
  <2>2. CASE LoseAnswer(p)
    BY <2>2, StoreLocks DEF LoseAnswer
  <2> QED BY <1>4, <1>10, <2>1, <2>2 DEF Trouble
<1> QED BY <1>1, <1>9, <1>10 DEF WatchNext, SourcesChange, RegisterWatch, Restart, watchVars

LEMMA WatchInvariant == WatchSpec => [](WatchInv /\ TickInv /\ LockInv)
<1>1. WatchInit => WatchInv /\ TickInv /\ LockInv
  <2>1. WatchInit => TickInv
    BY DEF WatchInit, TickInv, Ready, Process
  <2>2. WatchInit => LockInv
    BY DEF WatchInit, LockInv, Undone, Resting
  <2> QED BY <2>1, <2>2, WatchStarts
<1>2. WatchInv /\ TickInv /\ [WatchNext]_watchVars => WatchInv'
  <2> SUFFICES ASSUME WatchInv, TickInv, [WatchNext]_watchVars PROVE WatchInv'
    OBVIOUS
  <2>1. view \in Views
    BY DEF WatchInv, WatchTyped
  <2>2. CASE SourcesChange
    BY <2>2, StillThere DEF SourcesChange
  <2>3. ASSUME NEW w \in Watches, NEW v \in Version, NEW expected \in 0..MaxVersions,
               RegisterWatch(w, v, expected)
        PROVE  WatchInv'
    <3>1. expected \in Nat
      BY <2>3 DEF RegisterWatch, WatchInv, WatchTyped
    <3> QED BY <2>3, <3>1, RegisterWatchStep
  <2>4. ASSUME NEW p \in Scanners, ScanStep(p) PROVE WatchInv'
    <3>1. CASE StartTick(p) \/ ReturnErrors(p)
      BY <3>1, <2>1, StillThere DEF StartTick, ReturnErrors
    <3>2. ASSUME NEW w \in Watches, LockWatch(p, w) PROVE WatchInv'
      <4>1. w \in Registered
        BY <3>2 DEF LockWatch, TickInv
      <4> QED BY <3>2, <4>1, LockWatchStep
    <3>3. CASE StoreRun(p)
      BY <3>3, StoreStep DEF StoreRun
    <3>4. CASE NoticeDrop(p)
      BY <3>4, LeaveStep DEF NoticeDrop
    <3> QED BY <2>4, <3>1, <3>2, <3>3, <3>4, ReadConfigStep, ReadViewStep, LookupRunStep,
               AnnounceStep, SolveStep DEF ScanStep
  <2>5. ASSUME NEW p \in Scanners, Restart(p) \/ Trouble(p) PROVE WatchInv'
    BY <2>1, <2>5, StillThere, TroubleStep DEF Restart
  <2>6. CASE UNCHANGED watchVars
    BY <2>1, <2>6, StillThere DEF watchVars
  <2> QED BY <2>2, <2>3, <2>4, <2>5, <2>6 DEF WatchNext
<1>3. WatchInv /\ TickInv /\ LockInv /\ [WatchNext]_watchVars => (WatchInv /\ TickInv /\ LockInv)'
  BY <1>2, TickStep, LockStep
<1> QED BY <1>1, <1>3, PTL DEF WatchSpec

\* Who has read the journal of a watch to its end has been told of every stored
\* run, of each once and after its announcement and its configuration, whatever
\* workers announced, solved, stored and lost their connections in between
\* (appendConsistencyEvent and the two transactions of a run).
THEOREM JournalComplete == WatchSpec => []JournalTellsRuns
<1>1. WatchInv => JournalTellsRuns
  <2> SUFFICES ASSUME WatchInv, NEW w \in Watches
               PROVE  /\ Ordered(journal[w])
                      /\ {<<e.revision, e.target>> : e \in {f \in ToSet(journal[w]) : f.kind = "completed"}}
                           = {<<r.revision, r.target>> : r \in {s \in runs : s.watch = w}}
    BY DEF JournalTellsRuns, Ordered
  <2>1. JournalAgrees(w)
    BY DEF WatchInv
  <2>2. \A s \in runs : s.watch = w => \E f \in ToSet(journal[w]) :
            f.kind = "completed" /\ f.revision = s.revision /\ f.target = s.target
    <3>1. \A n, m : /\ Ev("completed", n, m).kind = "completed"
                    /\ Ev("completed", n, m).revision = n /\ Ev("completed", n, m).target = m
      BY DEF Ev
    <3> QED BY <2>1, <3>1 DEF JournalAgrees
  <2>3. \A f \in ToSet(journal[w]) : f.kind = "completed" => \E s \in runs :
            s.watch = w /\ s.revision = f.revision /\ s.target = f.target
    BY <2>1 DEF JournalAgrees
  <2>4. {<<e.revision, e.target>> : e \in {f \in ToSet(journal[w]) : f.kind = "completed"}}
          \subseteq {<<r.revision, r.target>> : r \in {s \in runs : s.watch = w}}
    BY <2>3
  <2>5. {<<r.revision, r.target>> : r \in {s \in runs : s.watch = w}}
          \subseteq {<<e.revision, e.target>> : e \in {f \in ToSet(journal[w]) : f.kind = "completed"}}
    BY <2>2
  <2> QED BY <2>1, <2>4, <2>5 DEF JournalAgrees
<1> QED BY <1>1, WatchInvariant, PTL

\* A stored run that a read reports as matching its snapshot is the only run of
\* its target, computed under the watch's newest version, and its diagnosis read
\* the view it was asked for: the lock of the session keeps two workers from
\* storing two (tickWatch), and a read compares both hashes of the run with the
\* snapshot's (consistency reads), so the note of a moved view never matches,
\* even when the view has come back.  It may be a failure of the solver.
THEOREM FreshRunsAreResults == WatchSpec => []FreshRunIsTheResult
<1>1. WatchInv /\ LockInv => FreshRunIsTheResult
  <2> SUFFICES ASSUME WatchInv, LockInv, NEW r \in runs, Fresh(r)
               PROVE  /\ r.outcome # "stale_view" /\ Last(versions[r.watch]) = "ours"
                      /\ \A s \in runs : SameTarget(r, s) => s = r
    BY DEF FreshRunIsTheResult, SameTarget
  <2>1. Honest(r) /\ Configured(r.watch, r.revision)
    BY DEF WatchInv
  <2>2. r.outcome # "stale_view" /\ Last(versions[r.watch]) = "ours"
    BY <2>1 DEF Fresh, Honest, Configured, Last
  <2> QED BY <2>2 DEF LockInv
<1> QED BY <1>1, WatchInvariant, PTL

-----------------------------------------------------------------------------
(* Migrations and roles.                                                    *)

DatabaseSpec == DatabaseInit /\ [][DatabaseNext]_databaseVars

SchemaOf(ms) == Relations(ms) \cup Routines(ms)

\* Until a ledger exists the schema is a prefix from before it; from then on the
\* ledger and the schema are those of one release.
SchemaInv ==
    \/ /\ DOMAIN ledger = {}
       /\ \E k \in 0..LegacyLength : present = SchemaOf(1..k)
    \/ \E r \in Releases : /\ ledger = [m \in Embedded(r) |-> Checksum(r, m)]
                           /\ present = SchemaOf(Embedded(r))

LEMMA SchemaParts ==
    /\ \A ms, ns : SchemaOf(ms \cup ns) = SchemaOf(ms) \cup SchemaOf(ns)
    /\ \A ms, ns : ms \subseteq ns => SchemaOf(ms) \subseteq SchemaOf(ns)
    /\ \A ms : \A m \in ms : TablesOf[m] \cup FunctionsOf[m] \subseteq SchemaOf(ms)
  BY DEF SchemaOf, Relations, Routines

LEMMA EmbeddedFacts ==
    ASSUME NEW r \in Releases
    PROVE  /\ LengthOf[r] \in Nat \ {0} /\ Embedded(r) # {} /\ Prefix(Embedded(r))
           /\ Embedded(r) \subseteq Migrations /\ Embedded(r) \subseteq Nat
           /\ \A k \in 0..LegacyLength : 1..k \subseteq Embedded(r)
<1>1. LengthOf[r] \in Nat \ {0} /\ LegacyLength \in Nat /\ LegacyLength <= LengthOf[r]
  BY RuntimeDatabaseAssumption
<1>2. 1 \in Embedded(r) /\ Embedded(r) \subseteq Nat
  BY <1>1 DEF Embedded
<1>3. Prefix(Embedded(r))
  BY <1>1 DEF Embedded, Prefix
<1>4. Embedded(r) \subseteq Migrations
  BY DEF Embedded, Migrations
<1>5. \A k \in 0..LegacyLength : 1..k \subseteq Embedded(r)
  BY <1>1 DEF Embedded
<1> QED BY <1>1, <1>2, <1>3, <1>4, <1>5

\* A migration found by its tables has its functions too: no other migration
\* creates a table it requires.
LEMMA FoundIsWhole ==
    ASSUME NEW r \in Releases, NEW k \in 0..LegacyLength, present = SchemaOf(1..k),
           NEW m \in Embedded(r), Found(m)
    PROVE  m \in 1..k
<1>1. PICK t \in TablesOf[m] : t \in present
  BY DEF Found
<1>2. 1..k \subseteq Migrations /\ m \in Migrations
  BY EmbeddedFacts
<1>3. PICK n \in 1..k : t \in TablesOf[n] \cup FunctionsOf[n]
  BY <1>1 DEF SchemaOf, Relations, Routines
<1>4. m = n
  BY <1>1, <1>2, <1>3, RuntimeDatabaseAssumption
<1> QED BY <1>3, <1>4

LEMMA MigrateStep ==
    ASSUME SchemaInv, NEW r \in Releases, Migrate(r)
    PROVE  SchemaInv'
<1> DEFINE applied == IF DOMAIN ledger = {} THEN Bootstrapped(r) ELSE ledger
           missing == Embedded(r) \ DOMAIN applied
<1>1. /\ ValidLedger(r, applied)
      /\ ledger' = [m \in Embedded(r) |-> IF m \in missing THEN Checksum(r, m) ELSE applied[m]]
      /\ present' = present \cup SchemaOf(missing)
  BY DEF Migrate, SchemaOf
<1>2. ledger' = [m \in Embedded(r) |-> Checksum(r, m)]
  <2> HIDE DEF applied
  <2> QED BY <1>1 DEF ValidLedger
<1>3. present' = SchemaOf(Embedded(r))
  <2>1. CASE DOMAIN ledger = {}
    <3>1. PICK k \in 0..LegacyLength : present = SchemaOf(1..k)
      BY <2>1, EmbeddedFacts DEF SchemaInv
    <3>2. DOMAIN applied = {n \in Embedded(r) : Found(n)}
      BY <2>1 DEF Bootstrapped
    <3>3. 1..k \subseteq Embedded(r) /\ DOMAIN applied \subseteq 1..k
      BY <3>1, <3>2, EmbeddedFacts, FoundIsWhole
    <3>4. 1..k \cup missing = Embedded(r)
      BY <3>3
    <3> HIDE DEF applied, missing
    <3> QED BY <1>1, <3>1, <3>4, SchemaParts
  <2>2. CASE DOMAIN ledger # {}
    <3>1. PICK q \in Releases : /\ ledger = [m \in Embedded(q) |-> Checksum(q, m)]
                                /\ present = SchemaOf(Embedded(q))
      BY <2>2 DEF SchemaInv
    <3>2. DOMAIN applied = Embedded(q) /\ DOMAIN applied \subseteq Embedded(r)
      BY <1>1, <2>2, <3>1 DEF ValidLedger
    <3>3. Embedded(q) \cup missing = Embedded(r)
      BY <3>2
    <3> HIDE DEF applied, missing
    <3> QED BY <1>1, <3>1, <3>3, SchemaParts
  <2> QED BY <2>1, <2>2
<1> QED BY <1>2, <1>3 DEF SchemaInv

LEMMA SchemaInvariant == DatabaseSpec => []SchemaInv
<1>1. DatabaseInit => SchemaInv
  BY DEF DatabaseInit, SchemaInv, SchemaOf
<1>2. SchemaInv /\ [DatabaseNext]_databaseVars => SchemaInv'
  <2> SUFFICES ASSUME SchemaInv, [DatabaseNext]_databaseVars PROVE SchemaInv'
    OBVIOUS
  <2>1. ASSUME NEW r \in Releases, Migrate(r) PROVE SchemaInv'
    BY <2>1, MigrateStep
  <2>2. CASE UNCHANGED <<ledger, present>>
    BY <2>2 DEF SchemaInv
  <2>3. (\E r \in Releases : Migrate(r)) \/ UNCHANGED <<ledger, present>>
    BY DEF DatabaseNext, databaseVars, VerifySchema, ProvisionRuntime, UpgradeRuntime,
           OpenRuntimePool, StartServing, Checkout, Return, Stop, Intervene
  <2> QED BY <2>1, <2>2, <2>3
<1> QED BY <1>1, <1>2, PTL DEF DatabaseSpec

\* Whichever releases migrate, in whatever order, over an empty database or one
\* from before the ledger, the ledger is that of one release without gaps and the
\* schema has exactly the objects of the migrations it lists: a migration is
\* never applied twice, skipped, or taken over half (applyUp and bootstrapExistingMigrations).
THEOREM SchemaIsAsListed == DatabaseSpec => []LedgerTellsSchema
<1>1. SchemaInv => LedgerTellsSchema
  <2> SUFFICES ASSUME SchemaInv, DOMAIN ledger # {}
               PROVE  /\ \E r \in Releases : ValidLedger(r, ledger) /\ DOMAIN ledger = Embedded(r)
                      /\ present = SchemaOf(DOMAIN ledger)
    BY DEF LedgerTellsSchema, SchemaOf
  <2>1. PICK r \in Releases : /\ ledger = [m \in Embedded(r) |-> Checksum(r, m)]
                              /\ present = SchemaOf(Embedded(r))
    BY DEF SchemaInv
  <2>2. ValidLedger(r, ledger) /\ DOMAIN ledger = Embedded(r)
    BY <2>1, EmbeddedFacts DEF ValidLedger
  <2> QED BY <2>1, <2>2
<1> QED BY <1>1, SchemaInvariant, PTL

\* The rows of the roles and of the processes.
Roles == Groups \cup Logins \cup {"PUBLIC"}
AnyRight == {"select", "insert", "execute"} \X (Relations(Migrations) \cup Routines(Migrations))
ProcessRow == [at : {"down"}, holds : {{}}]
              \cup [at : {"down", "opened", "serving", "busy"}, release : Releases,
                    pair : Pairs, holds : SUBSET AnyRight]

\* No role is a member of infinitely many others, and who serves, serves as one pair.
RolesInv ==
    /\ granted = [x \in Roles |-> granted[x]]
    /\ \A x \in Roles : IsFiniteSet(Memberships(x))
    /\ process \in [Processes -> ProcessRow]

\* A command that has verified the schema knows its release and its pair.
AdminInv == admin \in [AdminCommands -> {<<>>} \cup ({"provision", "upgrade"} \X Releases \X Pairs)]

MembersOf(rights) == {right \in rights : right[1] = "member"}

LEMMA ManifestRights ==
    ASSUME NEW r \in Releases, NEW p \in DbProfiles
    PROVE  Manifest(r, p) \subseteq AnyRight /\ MembersOf(Manifest(r, p)) = {}
<1>1. Relations(Embedded(r)) \subseteq Relations(Migrations)
  BY EmbeddedFacts DEF Relations
<1>2. Routines(Embedded(r)) \subseteq Routines(Migrations)
  BY EmbeddedFacts DEF Routines
<1>3. Manifest(r, p) \subseteq AnyRight
  BY <1>1, <1>2 DEF Manifest, TableRules, RoutineRules, AnyRight
<1>4. \A right \in Manifest(r, p) : right[1] \in {"select", "insert", "execute"}
  BY DEF Manifest, TableRules, RoutineRules
<1> QED BY <1>3, <1>4 DEF MembersOf

\* Whatever is granted or replaced, memberships stay finite.
LEMMA GrantedStays ==
    ASSUME NEW given, NEW next, NEW R,
           given = [x \in R |-> given[x]], next = [x \in R |-> next[x]],
           \A x \in R : IsFiniteSet(MembersOf(given[x])),
           \A x \in R : \/ MembersOf(next[x]) \subseteq MembersOf(given[x])
                        \/ \E right : MembersOf(next[x]) \subseteq MembersOf(given[x]) \cup {right}
                        \/ \E right : MembersOf(next[x]) \subseteq {right}
    PROVE  \A x \in R : IsFiniteSet(MembersOf(next[x]))
<1> TAKE x \in R
<1>1. CASE MembersOf(next[x]) \subseteq MembersOf(given[x])
  BY <1>1, FS_Subset
<1>2. ASSUME NEW right, MembersOf(next[x]) \subseteq MembersOf(given[x]) \cup {right}
      PROVE  IsFiniteSet(MembersOf(next[x]))
  BY <1>2, FS_Subset, FS_AddElement
<1>3. ASSUME NEW right, MembersOf(next[x]) \subseteq {right}
      PROVE  IsFiniteSet(MembersOf(next[x]))
  BY <1>3, FS_Subset, FS_Singleton
<1> QED BY <1>1, <1>2, <1>3

LEMMA MembershipsNext ==
    ASSUME granted' = [x \in Roles |-> granted'[x]],
           \A x \in Roles : IsFiniteSet(MembersOf(granted'[x])),
           process' \in [Processes -> ProcessRow]
    PROVE  RolesInv'
  BY DEF RolesInv, Memberships, MembersOf

LEMMA MembershipsNow ==
    ASSUME RolesInv
    PROVE  /\ granted = [x \in Roles |-> granted[x]]
           /\ \A x \in Roles : IsFiniteSet(MembersOf(granted[x]))
           /\ process \in [Processes -> ProcessRow]
  BY DEF RolesInv, Memberships, MembersOf

\* A policy replaces the rights of the group by a manifest and those of PUBLIC by none.
LEMMA PolicyReplaced ==
    ASSUME RolesInv, NEW r \in Releases, NEW pair \in Pairs, NEW given,
           given = [x \in Roles |-> given[x]],
           \A x \in Roles : IsFiniteSet(MembersOf(given[x])),
           granted' = Replaced(r, pair, given), UNCHANGED process
    PROVE  RolesInv'
<1> DEFINE m == Manifest(r, pair.profile)
<1>1. pair.profile \in DbProfiles /\ pair.group \in Roles
  BY DEF Pairs, Roles
<1>2. MembersOf(m) = {}
  BY <1>1, ManifestRights
<1> HIDE DEF m
<1>3. granted' = [granted' EXCEPT !["PUBLIC"] = granted'["PUBLIC"]]
      /\ granted' = [x \in Roles |-> IF x = pair.group THEN m ELSE IF x = "PUBLIC" THEN {} ELSE given[x]]
  BY DEF Replaced, m
<1>4. granted' = [x \in Roles |-> granted'[x]]
  BY <1>3
<1>5. \A x \in Roles : MembersOf(granted'[x]) \subseteq MembersOf(given[x])
  BY <1>2, <1>3 DEF MembersOf
<1>6. \A x \in Roles : IsFiniteSet(MembersOf(granted'[x]))
  BY <1>4, <1>5, GrantedStays
<1> QED BY <1>4, <1>6, MembershipsNext, MembershipsNow

LEMMA AdminSteps ==
    ASSUME RolesInv, NEW a \in AdminCommands,
           \A b \in AdminCommands : admin[b] # <<>> => admin[b][2] \in Releases /\ admin[b][3] \in Pairs,
           ProvisionRuntime(a) \/ UpgradeRuntime(a)
    PROVE  RolesInv'
<1> DEFINE r == admin[a][2]  pair == admin[a][3]
<1>1. r \in Releases /\ pair \in Pairs /\ UNCHANGED process
  BY DEF ProvisionRuntime, UpgradeRuntime
<1>2. pair.group \in Roles /\ pair.login \in Roles
  BY <1>1 DEF Pairs, Roles
<1> HIDE DEF r, pair
<1>3. CASE UNCHANGED granted
  BY <1>1, <1>3, MembershipsNext, MembershipsNow
<1>4. CASE Installs(r, pair, granted)
  BY <1>1, <1>4, PolicyReplaced, MembershipsNow DEF Installs
<1>5. CASE Installs(r, pair, [granted EXCEPT ![pair.group] = {}, ![pair.login] = {<<"member", pair.group>>}])
  <2> DEFINE given == [granted EXCEPT ![pair.group] = {}, ![pair.login] = {<<"member", pair.group>>}]
  <2>1. given = [x \in Roles |-> IF x = pair.login THEN {<<"member", pair.group>>}
                                 ELSE IF x = pair.group THEN {} ELSE granted[x]]
    BY <1>2, MembershipsNow
  <2>2. granted' = Replaced(r, pair, given)
    BY <1>5 DEF Installs
  <2> HIDE DEF given
  <2>3. given = [x \in Roles |-> given[x]]
    BY <2>1
  <2>4. \A x \in Roles : \/ MembersOf(given[x]) \subseteq MembersOf(granted[x])
                         \/ \E right : MembersOf(given[x]) \subseteq {right}
    <3>1. MembersOf({}) = {} /\ MembersOf({<<"member", pair.group>>}) \subseteq {<<"member", pair.group>>}
      BY DEF MembersOf
    <3> QED BY <2>1, <3>1
  <2>5. \A x \in Roles : IsFiniteSet(MembersOf(given[x]))
    BY <2>3, <2>4, MembershipsNow, GrantedStays
  <2> QED BY <1>1, <2>2, <2>3, <2>5, PolicyReplaced
<1> QED BY <1>3, <1>4, <1>5 DEF ProvisionRuntime, UpgradeRuntime, r, pair

LEMMA GrantSteps ==
    ASSUME RolesInv,
           \/ \E r \in Releases : Migrate(r)
           \/ \E x \in Roles, right \in GrantedRights : Intervene(x, right)
    PROVE  RolesInv'
<1>1. UNCHANGED process
  BY DEF Migrate, Intervene
<1>2. ASSUME NEW r \in Releases, Migrate(r)
      PROVE  /\ granted' = [x \in Roles |-> granted'[x]]
             /\ \A x \in Roles : MembersOf(granted'[x]) \subseteq MembersOf(granted[x])
  <2>1. PICK missing : granted' = [granted EXCEPT !["PUBLIC"] =
                         @ \cup {<<"execute", f>> : f \in Routines(missing) \ Gated}]
    BY <1>2 DEF Migrate
  <2> DEFINE more == {<<"execute", f>> : f \in Routines(missing) \ Gated}
  <2>2. MembersOf(granted["PUBLIC"] \cup more) \subseteq MembersOf(granted["PUBLIC"])
    BY DEF MembersOf
  <2>3. granted' = [granted EXCEPT !["PUBLIC"] = granted["PUBLIC"] \cup more]
    BY <2>1
  <2> HIDE DEF more
  <2>4. granted' = [x \in Roles |-> IF x = "PUBLIC" THEN granted["PUBLIC"] \cup more ELSE granted[x]]
    BY <2>3, MembershipsNow DEF Roles
  <2> QED BY <2>2, <2>4
<1>3. ASSUME NEW y \in Roles, NEW right \in GrantedRights, Intervene(y, right)
      PROVE  /\ granted' = [x \in Roles |-> granted'[x]]
             /\ \A x \in Roles : MembersOf(granted'[x]) \subseteq MembersOf(granted[x]) \cup {right}
  <2>1. PICK next : /\ next \in {granted[y] \ {right}, granted[y] \cup {right}}
                    /\ granted' = [granted EXCEPT ![y] = next]
    BY <1>3 DEF Intervene
  <2>2. granted' = [x \in Roles |-> IF x = y THEN next ELSE granted[x]]
    BY <2>1, MembershipsNow
  <2> QED BY <2>1, <2>2 DEF MembersOf
<1>4. /\ granted' = [x \in Roles |-> granted'[x]]
      /\ \A x \in Roles : \/ MembersOf(granted'[x]) \subseteq MembersOf(granted[x])
                          \/ \E right : MembersOf(granted'[x]) \subseteq MembersOf(granted[x]) \cup {right}
  BY <1>2, <1>3
<1>5. \A x \in Roles : IsFiniteSet(MembersOf(granted'[x]))
  BY <1>4, MembershipsNow, GrantedStays
<1> QED BY <1>1, <1>4, <1>5, MembershipsNext, MembershipsNow

\* What the checks before a checkout leave to the connection.
LEMMA CheckedOutAuthority ==
    ASSUME RolesInv, NEW r, NEW pair \in Pairs, Bounded(r, pair)
    PROVE  Authority(pair) = Manifest(r, pair.profile)
<1>1. pair.login \in Roles
  BY DEF Pairs, Roles
<1>2. PICK right : Memberships(pair.login) = {right}
  BY <1>1, FS_Singleton DEF RolesInv, Bounded, BoundedLogin
<1>3. Memberships(pair.login) = {<<"member", pair.group>>}
  BY <1>2 DEF Bounded, BoundedLogin, MemberOf
<1>4. Authority(pair) = Effective(pair.group)
  BY <1>3 DEF Authority, Bounded, BoundedLogin
<1>5. Effective(pair.group) = TableRights(pair.group) \cup RoutineRights(pair.group)
                              \cup SystemRights(pair.group)
  BY DEF TableRights, RoutineRights, SystemRights
<1> QED BY <1>4, <1>5 DEF Bounded, ExactGroup, Manifest

\* A connection is handed out by Checkout alone.
LEMMA ProcessSteps ==
    ASSUME RolesInv, NEW s \in Processes,
           \/ \E r \in Releases, pair \in Pairs : OpenRuntimePool(s, r, pair)
           \/ StartServing(s) \/ Checkout(s) \/ Return(s) \/ Stop(s)
    PROVE  /\ RolesInv'
           /\ \A t \in Processes : process[t].at # "busy" /\ process'[t].at = "busy" =>
                /\ t = s /\ Checkout(s)
                /\ process'[s].holds = Authority(process[s].pair)
<1>1. UNCHANGED granted /\ process \in [Processes -> ProcessRow]
  BY MembershipsNow DEF OpenRuntimePool, StartServing, Checkout, Return, Stop
<1>2. ASSUME NEW next, next \in ProcessRow, process' = [process EXCEPT ![s] = next],
             next.at = "busy" => Checkout(s) /\ next.holds = Authority(process[s].pair)
      PROVE  /\ RolesInv'
             /\ \A t \in Processes : process[t].at # "busy" /\ process'[t].at = "busy" =>
                  /\ t = s /\ Checkout(s)
                  /\ process'[s].holds = Authority(process[s].pair)
  <2>1. process' \in [Processes -> ProcessRow] /\ process'[s] = next
        /\ \A t \in Processes : t # s => process'[t] = process[t]
    BY <1>1, <1>2
  <2> QED BY <1>1, <1>2, <2>1, MembershipsNext, MembershipsNow
<1> DEFINE row == process[s]
<1>3. row \in ProcessRow
  BY <1>1
<1>4. CASE \E r \in Releases, pair \in Pairs : OpenRuntimePool(s, r, pair)
  <2>1. PICK r \in Releases, pair \in Pairs : OpenRuntimePool(s, r, pair)
    BY <1>4
  <2> DEFINE next == [at |-> "opened", release |-> r, pair |-> pair, holds |-> {}]
  <2>2. next \in ProcessRow /\ process' = [process EXCEPT ![s] = next] /\ next.at # "busy"
    BY <2>1 DEF OpenRuntimePool, ProcessRow
  <2> HIDE DEF next
  <2> QED BY <1>2, <2>2
<1>5. CASE Down(s)
  <2> DEFINE next == [row EXCEPT !.at = "down", !.holds = {}]
  <2>1. process' = [process EXCEPT ![s] = next]
    BY <1>1, <1>5 DEF Down
  <2>2. next \in ProcessRow /\ next.at # "busy"
    BY <1>3 DEF ProcessRow
  <2> HIDE DEF next
  <2> QED BY <1>2, <2>1, <2>2
<1>6. CASE row.at = "opened" /\ process' = [process EXCEPT ![s].at = "serving"]
  <2> DEFINE next == [row EXCEPT !.at = "serving"]
  <2>1. process' = [process EXCEPT ![s] = next]
    BY <1>1, <1>6
  <2>2. next \in ProcessRow /\ next.at # "busy"
    BY <1>3, <1>6 DEF ProcessRow
  <2> HIDE DEF next
  <2> QED BY <1>2, <2>1, <2>2
<1>7. CASE Return(s)
  <2> DEFINE next == [row EXCEPT !.at = "serving", !.holds = {}]
  <2>1. process' = [process EXCEPT ![s] = next]
    BY <1>1, <1>7 DEF Return
  <2>2. next \in ProcessRow /\ next.at # "busy"
    BY <1>3, <1>7 DEF ProcessRow, Return
  <2> HIDE DEF next
  <2> QED BY <1>2, <2>1, <2>2
<1>8. CASE Checkout(s)
  <2>1. row.at = "serving" /\ Bounded(row.release, row.pair)
    BY <1>8 DEF Checkout
  <2>2. row.release \in Releases /\ row.pair \in Pairs
    BY <1>3, <2>1 DEF ProcessRow
  <2>3. Authority(row.pair) = Manifest(row.release, row.pair.profile)
    BY <2>1, <2>2, CheckedOutAuthority
  <2>4. Authority(row.pair) \subseteq AnyRight
    BY <2>2, <2>3, ManifestRights DEF Pairs
  <2> DEFINE next == [row EXCEPT !.at = "busy", !.holds = Authority(row.pair)]
  <2>5. process' = [process EXCEPT ![s] = next]
    BY <1>1, <1>8 DEF Checkout
  <2>6. next \in ProcessRow /\ next.holds = Authority(row.pair)
    BY <1>3, <2>1, <2>4 DEF ProcessRow
  <2> HIDE DEF next
  <2> QED BY <1>2, <1>8, <2>5, <2>6
<1> QED BY <1>4, <1>5, <1>6, <1>7, <1>8 DEF StartServing, Stop

LEMMA AdminTyped == DatabaseSpec => []AdminInv
<1>1. DatabaseInit => AdminInv
  BY DEF DatabaseInit, AdminInv
<1>2. AdminInv /\ [DatabaseNext]_databaseVars => AdminInv'
  <2> SUFFICES ASSUME AdminInv, [DatabaseNext]_databaseVars PROVE AdminInv'
    OBVIOUS
  <2>1. ASSUME NEW a \in AdminCommands, NEW op \in {"provision", "upgrade"},
               NEW r \in Releases, NEW pair \in Pairs, VerifySchema(a, op, r, pair)
        PROVE  AdminInv'
    BY <2>1 DEF VerifySchema, AdminInv
  <2>2. ASSUME NEW a \in AdminCommands, ProvisionRuntime(a) \/ UpgradeRuntime(a)
        PROVE  AdminInv'
    BY <2>2 DEF ProvisionRuntime, UpgradeRuntime, AdminInv
  <2>3. CASE UNCHANGED admin
    BY <2>3 DEF AdminInv
  <2>4. \/ \E a \in AdminCommands, op \in {"provision", "upgrade"}, r \in Releases, pair \in Pairs :
             VerifySchema(a, op, r, pair)
        \/ \E a \in AdminCommands : ProvisionRuntime(a) \/ UpgradeRuntime(a)
        \/ UNCHANGED admin
    BY DEF DatabaseNext, databaseVars, Migrate, OpenRuntimePool, StartServing, Checkout, Return,
           Stop, Intervene
  <2> QED BY <2>1, <2>2, <2>3, <2>4
<1> QED BY <1>1, <1>2, PTL DEF DatabaseSpec

LEMMA RolesStart == DatabaseInit => RolesInv
<1> SUFFICES ASSUME DatabaseInit PROVE RolesInv
  OBVIOUS
<1>1. granted = [x \in Roles |-> granted[x]] /\ \A x \in Roles : granted[x] = {}
  BY DEF DatabaseInit, Roles
<1>2. \A x \in Roles : Memberships(x) = {}
  BY <1>1 DEF Memberships
<1>3. process \in [Processes -> ProcessRow]
  BY DEF DatabaseInit, ProcessRow
<1> QED BY <1>1, <1>2, <1>3, FS_EmptySet DEF RolesInv

\* Which steps hand a connection out, and what they hand out.
HandedOut(s) == process[s].at # "busy" /\ process'[s].at = "busy"

LEMMA RolesStep ==
    ASSUME RolesInv, AdminInv, [DatabaseNext]_databaseVars
    PROVE  /\ RolesInv'
           /\ \A s \in Processes : HandedOut(s) =>
                Checkout(s) /\ process'[s].holds = Authority(process[s].pair)
<1>1. CASE \/ \E r \in Releases : Migrate(r)
           \/ \E x \in Roles, right \in GrantedRights : Intervene(x, right)
  BY <1>1, GrantSteps DEF Migrate, Intervene, HandedOut
<1>2. ASSUME NEW a \in AdminCommands, ProvisionRuntime(a) \/ UpgradeRuntime(a)
      PROVE  /\ RolesInv'
             /\ \A s \in Processes : HandedOut(s) =>
                  Checkout(s) /\ process'[s].holds = Authority(process[s].pair)
  <2>1. \A b \in AdminCommands : admin[b] # <<>> => admin[b][2] \in Releases /\ admin[b][3] \in Pairs
    BY DEF AdminInv
  <2>2. UNCHANGED process
    BY <1>2 DEF ProvisionRuntime, UpgradeRuntime
  <2> QED BY <1>2, <2>1, <2>2, AdminSteps DEF HandedOut
<1>3. ASSUME NEW s \in Processes,
             \/ \E r \in Releases, pair \in Pairs : OpenRuntimePool(s, r, pair)
             \/ StartServing(s) \/ Checkout(s) \/ Return(s) \/ Stop(s)
      PROVE  /\ RolesInv'
             /\ \A t \in Processes : HandedOut(t) =>
                  Checkout(t) /\ process'[t].holds = Authority(process[t].pair)
  BY <1>3, ProcessSteps DEF HandedOut
<1>4. CASE UNCHANGED <<granted, process>>
  BY <1>4, MembershipsNow, MembershipsNext DEF HandedOut
<1> QED BY <1>1, <1>2, <1>3, <1>4 DEF DatabaseNext, databaseVars, VerifySchema, Roles

LEMMA RolesInvariant == DatabaseSpec => [](RolesInv /\ AdminInv)
<1>1. RolesInv /\ AdminInv /\ [DatabaseNext]_databaseVars => RolesInv'
  BY RolesStep
<1> QED BY <1>1, RolesStart, AdminTyped, PTL DEF DatabaseSpec

\* A connection handed to a tool can do, as itself or as any role it may become,
\* exactly what the manifest of its process's own release allows, whatever was
\* migrated, upgraded, granted, revoked or joined since the process opened its
\* pool: the checks before every checkout leave the owner nothing to add
\* (PrepareConn and verifyRuntimeConnection).
THEOREM CheckoutsWithinManifest == DatabaseSpec => HandedOutWithinManifest
<1>1. RolesInv /\ AdminInv /\ [DatabaseNext]_databaseVars =>
        [\A s \in Processes :
           process[s].at # "busy" /\ process'[s].at = "busy" =>
             process'[s].holds = Manifest(process[s].release, process[s].pair.profile)]_databaseVars
  <2> SUFFICES ASSUME RolesInv, AdminInv, [DatabaseNext]_databaseVars,
                      NEW s \in Processes, HandedOut(s)
               PROVE  process'[s].holds = Manifest(process[s].release, process[s].pair.profile)
    BY DEF HandedOut
  <2>1. Checkout(s) /\ process'[s].holds = Authority(process[s].pair)
    BY RolesStep
  <2>2. process[s].at = "serving" /\ process[s] \in ProcessRow
        /\ Bounded(process[s].release, process[s].pair)
    BY <2>1, MembershipsNow DEF Checkout
  <2>3. process[s].release \in Releases /\ process[s].pair \in Pairs
    BY <2>2 DEF ProcessRow
  <2> QED BY <2>1, <2>2, <2>3, CheckedOutAuthority
<1> QED BY <1>1, RolesInvariant, PTL DEF DatabaseSpec, HandedOutWithinManifest

-----------------------------------------------------------------------------
(* Tool servers.                                                            *)

ServingSpec == ServingInit /\ [][ServerNext \/ ClientNext]_servingVars

CallRow == [pc : {"none"}] \cup [pc : {"offering", "waiting", "direct"}, tool : ServedTools]
           \cup [pc : {"answered"}, answer : Answers \cup {"refused", "cancelled", "none"}]
LaneRow == [up : BOOLEAN, jobs : Seq(Calls), running : SUBSET Calls]

Queued(c) == \E l \in Lanes : c \in {lanes[l].jobs[i] : i \in 1..Len(lanes[l].jobs)}

\* A job waits in a lane only while its caller waits or has its answer, and when
\* the answer came before the job started, a lane that takes the job will see why.
ServingInv ==
    /\ calls \in [Calls -> CallRow]
    /\ lanes \in [Lanes -> LaneRow]
    /\ results \in [Calls -> Answers \cup {"none", "cancelled"}]
    /\ \A c \in Calls :
         /\ Queued(c) => calls[c].pc \in {"waiting", "answered"}
         /\ results[c] = "cancelled" => c \in cancelled
         /\ Queued(c) /\ calls[c].pc = "answered" => Started(c) \/ closing \/ c \in cancelled

Unstarted(c) == calls[c].pc = "answered" /\ ~ Started(c)

LEMMA ServingStarts == ServingInit => ServingInv
<1> SUFFICES ASSUME ServingInit PROVE ServingInv
  OBVIOUS
<1>1. /\ calls \in [Calls -> CallRow] /\ lanes \in [Lanes -> LaneRow]
      /\ results \in [Calls -> Answers \cup {"none", "cancelled"}]
  BY DEF ServingInit, CallRow, LaneRow
<1>2. \A c \in Calls : ~ Queued(c) /\ results[c] = "none"
  BY DEF ServingInit, Queued
<1> QED BY <1>1, <1>2 DEF ServingInv

\* A step of one call: it goes on, or has its answer.
LEMMA CallMoves ==
    ASSUME ServingInv, NEW c \in Calls, NEW row \in CallRow,
           calls' = [calls EXCEPT ![c] = row],
           UNCHANGED <<closing, cancelled, lanes, results>>,
           Queued(c) => /\ row.pc \in {"waiting", "answered"}
                        /\ row.pc = "answered" => Started(c) \/ closing \/ c \in cancelled
    PROVE  ServingInv' /\ \A d \in Calls : Started(d)' = Started(d)
<1>1. calls' \in [Calls -> CallRow] /\ calls'[c] = row
      /\ \A d \in Calls : d # c => calls'[d] = calls[d]
  BY DEF ServingInv
<1>2. \A d \in Calls : Started(d)' = Started(d) /\ Queued(d)' = Queued(d)
  BY DEF Started, Queued
<1>3. ASSUME NEW d \in Calls
      PROVE  /\ Queued(d)' => calls'[d].pc \in {"waiting", "answered"}
             /\ results'[d] = "cancelled" => d \in cancelled'
             /\ Queued(d)' /\ calls'[d].pc = "answered" => Started(d)' \/ closing' \/ d \in cancelled'
  BY <1>1, <1>2 DEF ServingInv
<1> QED BY <1>1, <1>2, <1>3 DEF ServingInv

LEMMA AnswerRow ==
    ASSUME ServingInv, NEW c \in Calls, NEW answer \in Answers \cup {"refused", "cancelled", "none"},
           Answer(c, answer)
    PROVE  \E row \in CallRow : row.pc = "answered" /\ calls' = [calls EXCEPT ![c] = row]
<1> DEFINE row == [pc |-> "answered", answer |-> answer]
<1>1. row \in CallRow /\ row.pc = "answered"
  BY DEF CallRow
<1>2. calls' = [calls EXCEPT ![c] = row]
  BY DEF Answer
<1> QED BY <1>1, <1>2

LEMMA CallSteps ==
    ASSUME ServingInv, NEW c \in Calls,
           \/ GiveUp(c) \/ Receive(c) \/ \E a \in Answers : DirectDone(c, a)
           \/ \E t \in ServedTools : CallTool(c, t)
    PROVE  ServingInv' /\ \A d \in Calls : Started(d)' = Started(d)
<1>1. UNCHANGED <<closing, cancelled, lanes, results>>
  BY DEF GiveUp, Receive, DirectDone, CallTool
<1>2. CASE GiveUp(c)
  <2>1. PICK row \in CallRow : row.pc = "answered" /\ calls' = [calls EXCEPT ![c] = row]
    BY <1>2, AnswerRow DEF GiveUp
  <2>2. closing \/ c \in cancelled
    BY <1>2 DEF GiveUp, TurnedAway
  <2> QED BY <1>1, <2>1, <2>2, CallMoves
<1>3. CASE Receive(c)
  <2>1. results[c] \in Answers \cup {"cancelled"} /\ Answer(c, results[c])
    BY <1>3 DEF Receive, ServingInv
  <2>2. PICK row \in CallRow : row.pc = "answered" /\ calls' = [calls EXCEPT ![c] = row]
    BY <2>1, AnswerRow
  <2>3. Started(c) \/ c \in cancelled
    BY <2>1 DEF Started, ServingInv
  <2> QED BY <1>1, <2>2, <2>3, CallMoves
<1>4. ASSUME NEW a \in Answers, DirectDone(c, a)
      PROVE  ServingInv' /\ \A d \in Calls : Started(d)' = Started(d)
  <2>1. PICK row \in CallRow : row.pc = "answered" /\ calls' = [calls EXCEPT ![c] = row]
    BY <1>4, AnswerRow DEF DirectDone
  <2>2. ~ Queued(c)
    BY <1>4 DEF DirectDone, ServingInv
  <2> QED BY <1>1, <2>1, <2>2, CallMoves
<1>5. ASSUME NEW t \in ServedTools, CallTool(c, t)
      PROVE  ServingInv' /\ \A d \in Calls : Started(d)' = Started(d)
  <2>1. ~ Queued(c)
    BY <1>5 DEF CallTool, ServingInv
  <2>2. CASE Answer(c, "refused")
    <3>1. PICK row \in CallRow : row.pc = "answered" /\ calls' = [calls EXCEPT ![c] = row]
      BY <2>2, AnswerRow
    <3> QED BY <1>1, <2>1, <3>1, CallMoves
  <2>3. CASE ~ Answer(c, "refused")
    <3> DEFINE row == [pc |-> IF Routed(t) THEN "offering" ELSE "direct", tool |-> t]
    <3>1. calls' = [calls EXCEPT ![c] = row]
      BY <1>5, <2>3 DEF CallTool
    <3>2. row \in CallRow
      BY DEF CallRow
    <3> HIDE DEF row
    <3> QED BY <1>1, <2>1, <3>1, <3>2, CallMoves
  <2> QED BY <2>2, <2>3
<1> QED BY <1>2, <1>3, <1>4, <1>5

LEMMA EnqueueStep ==
    ASSUME ServingInv, NEW c \in Calls, Enqueue(c)
    PROVE  ServingInv' /\ \A d \in Calls : Started(d)' = Started(d)
<1> DEFINE l == LaneOf[calls[c].tool]
           lane == [lanes[l] EXCEPT !.jobs = Append(@, c)]
           row == [calls[c] EXCEPT !.pc = "waiting"]
<1>1. /\ UNCHANGED <<closing, cancelled, results>> /\ calls[c].pc = "offering"
      /\ lanes' = [lanes EXCEPT ![l] = lane] /\ calls' = [calls EXCEPT ![c] = row]
  BY DEF Enqueue, ServingInv
<1>2. row \in CallRow /\ row.pc = "waiting"
  BY <1>1 DEF ServingInv, CallRow
<1>3. calls' \in [Calls -> CallRow] /\ calls'[c].pc = "waiting"
      /\ \A d \in Calls : d # c => calls'[d] = calls[d]
  <2> HIDE DEF row
  <2> QED BY <1>1, <1>2 DEF ServingInv
<1>4. l \in Lanes =>
        /\ lane \in LaneRow /\ lane.running = lanes[l].running
        /\ lane.jobs = Append(lanes[l].jobs, c) /\ lanes[l].jobs \in Seq(Calls)
  <2> HIDE DEF l
  <2>1. l \in Lanes => lanes[l] \in LaneRow
    BY DEF ServingInv
  <2>2. l \in Lanes => lanes[l].jobs \in Seq(Calls) /\ Append(lanes[l].jobs, c) \in Seq(Calls)
    BY <2>1 DEF LaneRow
  <2> QED BY <2>1, <2>2 DEF LaneRow
<1> HIDE DEF lane, l
<1>5. /\ lanes' \in [Lanes -> LaneRow]
      /\ \A m \in Lanes : m # l => lanes'[m] = lanes[m]
      /\ l \in Lanes => lanes'[l] = lane
  BY <1>1, <1>4 DEF ServingInv
<1>6. \A d \in Calls : Started(d)' = Started(d)
  <2>1. \A m \in Lanes : lanes'[m].running = lanes[m].running
    BY <1>4, <1>5
  <2> QED BY <1>1, <2>1 DEF Started
<1>7. \A d \in Calls : d # c => (Queued(d)' => Queued(d))
  <2>1. \A d \in Calls : d # c => \A m \in Lanes : \A i \in 1..Len(lanes'[m].jobs) :
          lanes'[m].jobs[i] = d => i \in 1..Len(lanes[m].jobs) /\ lanes[m].jobs[i] = d
    <3>1. ASSUME NEW d \in Calls, d # c, l \in Lanes, NEW i \in 1..Len(lanes'[l].jobs),
                 lanes'[l].jobs[i] = d
          PROVE  i \in 1..Len(lanes[l].jobs) /\ lanes[l].jobs[i] = d
      <4>1. lanes'[l].jobs = Append(lanes[l].jobs, c) /\ lanes[l].jobs \in Seq(Calls)
        BY <1>4, <1>5, <3>1
      <4>2. i \in 1..Len(lanes[l].jobs) \/ i = Len(lanes[l].jobs) + 1
        BY <3>1, <4>1
      <4> QED BY <3>1, <4>1, <4>2
    <3>2. \A m \in Lanes : m # l => lanes'[m] = lanes[m]
      BY <1>5
    <3> QED BY <3>1, <3>2
  <2> QED BY <2>1 DEF Queued
<1>8. ASSUME NEW d \in Calls
      PROVE  /\ Queued(d)' => calls'[d].pc \in {"waiting", "answered"}
             /\ results'[d] = "cancelled" => d \in cancelled'
             /\ Queued(d)' /\ calls'[d].pc = "answered" => Started(d)' \/ closing' \/ d \in cancelled'
  <2>1. CASE d = c
    BY <2>1, <1>1, <1>3 DEF ServingInv
  <2>2. CASE d # c
    BY <2>2, <1>1, <1>3, <1>6, <1>7 DEF ServingInv
  <2> QED BY <2>1, <2>2
<1>9. results' \in [Calls -> Answers \cup {"none", "cancelled"}]
  BY <1>1 DEF ServingInv
<1> QED BY <1>3, <1>5, <1>6, <1>8, <1>9 DEF ServingInv

LEMMA TakeJobStep ==
    ASSUME ServingInv, NEW l \in Lanes, TakeJob(l)
    PROVE  ServingInv' /\ \A d \in Calls : Unstarted(d) => ~ Started(d)'
<1> DEFINE c == Head(lanes[l].jobs)
           rest == Tail(lanes[l].jobs)
<1>1. /\ UNCHANGED <<closing, cancelled, calls>> /\ lanes[l].jobs # <<>>
      /\ lanes[l] \in LaneRow /\ lanes[l].running = {}
  BY DEF TakeJob, Serving, ServingInv
<1>2. /\ c \in Calls /\ rest \in Seq(Calls) /\ Len(lanes[l].jobs) \in Nat
      /\ c = lanes[l].jobs[1] /\ 1 \in 1..Len(lanes[l].jobs)
      /\ \A i \in 1..Len(rest) : i + 1 \in 1..Len(lanes[l].jobs) /\ rest[i] = lanes[l].jobs[i + 1]
  BY <1>1 DEF LaneRow
<1>3. Queued(c)
  BY <1>2 DEF Queued
<1>4. PICK lane \in LaneRow :
        /\ lanes' = [lanes EXCEPT ![l] = lane] /\ lane.jobs = rest
        /\ lane.running = IF ~ closing /\ c \notin cancelled THEN {c} ELSE {}
  <2>1. CASE closing
    <3> DEFINE lane == [lanes[l] EXCEPT !.jobs = rest, !.up = FALSE]
    <3>1. lanes' = [lanes EXCEPT ![l] = lane]
      BY <2>1, <1>1 DEF TakeJob, StillOpen, ServingInv
    <3>2. lane \in LaneRow /\ lane.jobs = rest /\ lane.running = {}
      BY <1>1, <1>2 DEF LaneRow
    <3> HIDE DEF lane, c, rest
    <3> QED BY <2>1, <3>1, <3>2
  <2>2. CASE ~ closing /\ c \in cancelled
    <3> DEFINE lane == [lanes[l] EXCEPT !.jobs = rest]
    <3>1. lanes' = [lanes EXCEPT ![l] = lane]
      BY <2>2, <1>1 DEF TakeJob, StillOpen, ServingInv
    <3>2. lane \in LaneRow /\ lane.jobs = rest /\ lane.running = {}
      BY <1>1, <1>2 DEF LaneRow
    <3> HIDE DEF lane, c, rest
    <3> QED BY <2>2, <3>1, <3>2
  <2>3. CASE ~ closing /\ c \notin cancelled
    <3> DEFINE lane == [lanes[l] EXCEPT !.jobs = rest, !.running = {c}]
    <3>1. lanes' = [lanes EXCEPT ![l] = lane]
      BY <2>3, <1>1 DEF TakeJob, StillOpen, ServingInv
    <3>2. lane \in LaneRow /\ lane.jobs = rest /\ lane.running = {c}
      BY <1>1, <1>2 DEF LaneRow
    <3> HIDE DEF lane, c, rest
    <3> QED BY <2>3, <3>1, <3>2
  <2> QED BY <2>1, <2>2, <2>3
<1>5. /\ results' \in [Calls -> Answers \cup {"none", "cancelled"}]
      /\ \A d \in Calls : d # c => results'[d] = results[d]
      /\ results'[c] = IF ~ closing /\ c \in cancelled THEN "cancelled" ELSE results[c]
  BY <1>2 DEF TakeJob, StillOpen, ServingInv
<1> HIDE DEF c, rest
<1>6. /\ lanes' \in [Lanes -> LaneRow] /\ lanes'[l] = lane
      /\ \A m \in Lanes : m # l => lanes'[m] = lanes[m]
  BY <1>4 DEF ServingInv
<1>7. \A d \in Calls : Queued(d)' => Queued(d)
  <2> SUFFICES ASSUME NEW d \in Calls, NEW m \in Lanes, NEW i \in 1..Len(lanes'[m].jobs),
                      lanes'[m].jobs[i] = d
               PROVE  Queued(d)
    BY DEF Queued
  <2>1. CASE m = l
    <3>1. i \in 1..Len(rest) /\ rest[i] = d
      BY <2>1, <1>4, <1>6
    <3> QED BY <3>1, <1>2 DEF Queued
  <2>2. CASE m # l
    BY <2>2, <1>6 DEF Queued
  <2> QED BY <2>1, <2>2
<1>8. \A d \in Calls : Started(d)' => Started(d) \/ (d = c /\ ~ closing /\ c \notin cancelled)
  BY <1>1, <1>4, <1>5, <1>6 DEF Started, Answers
<1>9. \A d \in Calls : Started(d) => Started(d)' \/ d \in cancelled
  <2>1. \A m \in Lanes, d \in Calls : d \in lanes[m].running => d \in lanes'[m].running
    BY <1>1, <1>6
  <2> QED BY <2>1, <1>5 DEF Started, Answers
<1>10. ASSUME NEW d \in Calls
       PROVE  /\ Queued(d)' => calls'[d].pc \in {"waiting", "answered"}
              /\ results'[d] = "cancelled" => d \in cancelled'
              /\ Queued(d)' /\ calls'[d].pc = "answered" => Started(d)' \/ closing' \/ d \in cancelled'
  <2>1. results'[d] = "cancelled" => d \in cancelled'
    BY <1>1, <1>5 DEF ServingInv
  <2> QED BY <2>1, <1>1, <1>7, <1>9 DEF ServingInv
<1>11. \A d \in Calls : Unstarted(d) => ~ Started(d)'
  BY <1>2, <1>3, <1>8 DEF Unstarted, ServingInv
<1>12. calls' \in [Calls -> CallRow]
  BY <1>1 DEF ServingInv
<1> QED BY <1>5, <1>6, <1>10, <1>11, <1>12 DEF ServingInv

LEMMA FinishJobStep ==
    ASSUME ServingInv, NEW l \in Lanes, NEW answer \in Answers, FinishJob(l, answer)
    PROVE  ServingInv' /\ \A d \in Calls : Unstarted(d) => ~ Started(d)'
<1> DEFINE lane == [lanes[l] EXCEPT !.running = {}]
<1>1. /\ UNCHANGED <<closing, cancelled, calls>> /\ lanes' = [lanes EXCEPT ![l] = lane]
      /\ results' = [c \in Calls |-> IF c \in lanes[l].running THEN answer ELSE results[c]]
  BY DEF FinishJob, ServingInv
<1>2. lane \in LaneRow /\ lane.jobs = lanes[l].jobs /\ lane.running = {}
  BY DEF ServingInv, LaneRow
<1> HIDE DEF lane
<1>3. /\ lanes' \in [Lanes -> LaneRow] /\ lanes'[l] = lane
      /\ \A m \in Lanes : m # l => lanes'[m] = lanes[m]
      /\ \A m \in Lanes : lanes'[m].jobs = lanes[m].jobs
  BY <1>1, <1>2 DEF ServingInv
<1>4. \A d \in Calls : Queued(d)' = Queued(d)
  BY <1>3 DEF Queued
<1>5. \A d \in Calls : Started(d)' = Started(d)
  BY <1>1, <1>2, <1>3 DEF Started
<1>6. results' \in [Calls -> Answers \cup {"none", "cancelled"}]
  BY <1>1 DEF ServingInv
<1>7. \A d \in Calls : results'[d] = "cancelled" => results[d] = "cancelled"
  BY <1>1 DEF Answers
<1>8. calls' \in [Calls -> CallRow]
  BY <1>1 DEF ServingInv
<1>9. ASSUME NEW d \in Calls
      PROVE  /\ Queued(d)' => calls'[d].pc \in {"waiting", "answered"}
             /\ results'[d] = "cancelled" => d \in cancelled'
             /\ Queued(d)' /\ calls'[d].pc = "answered" => Started(d)' \/ closing' \/ d \in cancelled'
  BY <1>1, <1>4, <1>5, <1>7 DEF ServingInv
<1> QED BY <1>3, <1>5, <1>6, <1>8, <1>9 DEF ServingInv, Unstarted

\* Steps that leave the jobs where they are.
LEMMA LanesKept ==
    ASSUME ServingInv, UNCHANGED <<calls, results>>, lanes' \in [Lanes -> LaneRow],
           \A m \in Lanes : /\ lanes'[m].jobs = lanes[m].jobs
                            /\ lanes'[m].running = lanes[m].running,
           closing => closing', cancelled \subseteq cancelled'
    PROVE  ServingInv' /\ \A d \in Calls : Started(d)' = Started(d)
<1>1. \A d \in Calls : Started(d)' = Started(d) /\ Queued(d)' = Queued(d)
  BY DEF Started, Queued
<1>2. ASSUME NEW d \in Calls
      PROVE  /\ Queued(d)' => calls'[d].pc \in {"waiting", "answered"}
             /\ results'[d] = "cancelled" => d \in cancelled'
             /\ Queued(d)' /\ calls'[d].pc = "answered" => Started(d)' \/ closing' \/ d \in cancelled'
  BY <1>1 DEF ServingInv
<1> QED BY <1>1, <1>2 DEF ServingInv

LEMMA ServingStep ==
    ASSUME ServingInv, [ServerNext \/ ClientNext]_servingVars
    PROVE  ServingInv' /\ \A d \in Calls : Unstarted(d) => ~ Started(d)'
<1>1. ASSUME NEW c \in Calls,
             CallStep(c) \/ \E t \in ServedTools : CallTool(c, t)
      PROVE  ServingInv' /\ \A d \in Calls : Unstarted(d) => ~ Started(d)'
  BY <1>1, CallSteps, EnqueueStep DEF CallStep, Unstarted
<1>2. ASSUME NEW l \in Lanes, LaneStep(l)
      PROVE  ServingInv' /\ \A d \in Calls : Unstarted(d) => ~ Started(d)'
  <2>1. CASE LaneEnds(l)
    <3> DEFINE lane == [lanes[l] EXCEPT !.up = FALSE]
    <3>1. lanes' = [lanes EXCEPT ![l] = lane] /\ UNCHANGED <<closing, cancelled, calls, results>>
      BY <2>1 DEF LaneEnds, ServingInv
    <3>2. lane \in LaneRow /\ lane.jobs = lanes[l].jobs /\ lane.running = lanes[l].running
      BY DEF ServingInv, LaneRow
    <3> HIDE DEF lane
    <3>3. lanes' \in [Lanes -> LaneRow]
          /\ \A m \in Lanes : /\ lanes'[m].jobs = lanes[m].jobs
                              /\ lanes'[m].running = lanes[m].running
      BY <3>1, <3>2 DEF ServingInv
    <3> QED BY <3>1, <3>3, LanesKept DEF Unstarted
  <2> QED BY <1>2, <2>1, TakeJobStep, FinishJobStep DEF LaneStep
<1>3. ASSUME NEW p \in {"intake", "source-claim-reviewer"}, NEW registry \in Registry,
             OpenServer(p, registry)
      PROVE  ServingInv' /\ \A d \in Calls : Unstarted(d) => ~ Started(d)'
  <2>1. UNCHANGED <<closing, cancelled, calls, results>>
        /\ lanes' = [l \in Lanes |-> [lanes[l] EXCEPT !.up = (p = "intake")]]
    BY <1>3 DEF OpenServer
  <2>2. \A l \in Lanes : lanes'[l] \in LaneRow /\ lanes'[l].jobs = lanes[l].jobs
                         /\ lanes'[l].running = lanes[l].running
    BY <2>1 DEF ServingInv, LaneRow
  <2>3. lanes' \in [Lanes -> LaneRow]
    BY <2>1, <2>2
  <2> QED BY <2>1, <2>2, <2>3, LanesKept DEF Unstarted
<1>4. CASE /\ UNCHANGED <<calls, lanes, results>>
           /\ closing => closing'
           /\ cancelled \subseteq cancelled'
  BY <1>4, LanesKept DEF Unstarted, ServingInv
<1>5. ClientNext => UNCHANGED <<calls, lanes, results, closing, cancelled>>
  BY DEF ClientNext, ClientStep, StartChild, ChildEnds, Initialized, Called, Normalized, Listed,
         Discovered, CallFails, KillChild, Step
<1>6. \/ \E c \in Calls : CallStep(c) \/ \E t \in ServedTools : CallTool(c, t)
      \/ \E l \in Lanes : LaneStep(l)
      \/ \E r \in Registry, p \in {"intake", "source-claim-reviewer"} : OpenServer(p, r)
      \/ UNCHANGED <<calls, lanes, results>> /\ (closing => closing') /\ cancelled \subseteq cancelled'
  BY <1>5 DEF ServerNext, OpenQueryServer, CancelCaller, Close, Closed, servingVars
<1> QED BY <1>1, <1>2, <1>3, <1>4, <1>6

\* A caller that was told its call is over, because the ingress closed or its
\* context ended, will not see the job start afterwards, for any number of calls,
\* lanes and buffers and whatever branch the selects take (the second look
\* of runLane).
THEOREM AbandonedJobsNeverStart == ServingSpec => AbandonedNeverStart
<1>1. ServingInv /\ [ServerNext \/ ClientNext]_servingVars => ServingInv'
  BY ServingStep
<1>2. ServingInv /\ [ServerNext \/ ClientNext]_servingVars =>
        [\A c \in Calls : calls[c].pc = "answered" /\ ~ Started(c) => ~ Started(c)']_servingVars
  BY ServingStep DEF Unstarted
<1> QED BY <1>1, <1>2, ServingStarts, PTL DEF ServingSpec, AbandonedNeverStart

=============================================================================

----------------------------- MODULE WorkQueue -----------------------------
(***************************************************************************)
(* What the repository extraction work queue promises for one stream, told *)
(* without tables, clocks, leases or audit rows: versions are submitted in *)
(* order, the newest one waiting replaces the one that waited before it,   *)
(* and one holder at a time works on a version under a token that is never *)
(* given out twice.                                                        *)
(***************************************************************************)
EXTENDS Naturals

CONSTANTS Versions,   \* numbers of the versions of the stream's source
          Tokens      \* what tells two holders of one version apart

VARIABLES
  waiting,   \* the version that waits, as a set of at most one
  held,      \* the <<version, token>> worked on, as a set of at most one
  taken,     \* every <<version, token>> that was ever held
  done,      \* versions completed
  failed,    \* versions whose holder reported failure, not yet given back
  dropped    \* versions replaced by a newer one

vars == <<waiting, held, taken, done, failed, dropped>>

HeldVersions == {h[1] : h \in held}
Submitted == waiting \cup HeldVersions \cup done \cup failed \cup dropped

Init ==
    /\ waiting = {} /\ held = {} /\ taken = {}
    /\ done = {} /\ failed = {} /\ dropped = {}

Submit(v) ==
    /\ \A u \in Submitted : u < v
    /\ dropped' = dropped \cup waiting
    /\ waiting' = {v}
    /\ UNCHANGED <<held, taken, done, failed>>

Take(v, n) ==
    /\ held = {}
    /\ v \in waiting
    /\ <<v, n>> \notin taken
    /\ waiting' = waiting \ {v}
    /\ held' = {<<v, n>>}
    /\ taken' = taken \cup {<<v, n>>}
    /\ UNCHANGED <<done, failed, dropped>>

Succeed(v, n) ==
    /\ <<v, n>> \in held
    /\ held' = held \ {<<v, n>>}
    /\ done' = done \cup {v}
    /\ UNCHANGED <<waiting, taken, failed, dropped>>

Fail(v, n) ==
    /\ <<v, n>> \in held
    /\ held' = held \ {<<v, n>>}
    /\ failed' = failed \cup {v}
    /\ UNCHANGED <<waiting, taken, done, dropped>>

\* A version its holder lost, or failed at, waits again, unless a newer
\* version waits: then it is dropped.
GiveBack(v) ==
    /\ v \in HeldVersions \cup failed
    /\ \A u \in waiting : v < u
    /\ IF waiting = {} THEN waiting' = {v} /\ dropped' = dropped
                       ELSE waiting' = waiting /\ dropped' = dropped \cup {v}
    /\ held' = {h \in held : h[1] # v}
    /\ failed' = failed \ {v}
    /\ UNCHANGED <<taken, done>>

Next ==
    \E v \in Versions :
        \/ Submit(v) \/ GiveBack(v)
        \/ \E n \in Tokens : Take(v, n) \/ Succeed(v, n) \/ Fail(v, n)

Spec == Init /\ [][Next]_vars

=============================================================================

----------------------- MODULE ExtractionControllers -----------------------
(***************************************************************************)
(* The two controllers of the extraction work queue: the tick that         *)
(* consumes due retry decisions and the tick that recovers expired claims. *)
(* A tick is ONE transaction over many streams.  Its statement lists the   *)
(* candidates as they stand in its snapshot, then locks the streams of the *)
(* candidates one by one, passing over those another transaction has       *)
(* locked, until it has Limit of them; each candidate is then released by  *)
(* the transition an operator would call, and the first conflict rolls     *)
(* the whole batch back.  Snapshot and batch are separate steps here.      *)
(*                                                                         *)
(* Time is left to ExtractionWork.  Here a lease elapses and a decision    *)
(* falls due at any moment, and the order in which they do is the order of *)
(* lease_expires_at and of retry_not_before.                               *)
(***************************************************************************)
EXTENDS Naturals, SequencesExt

CONSTANTS Streams,          \* rows of repository_source_streams
          MaxObservation,   \* bound: MaxObservation[s] observations of stream s
          MaxClaims,        \* bound: claim attempts per work item
          Ticks,            \* tick requests that may be in progress at once
          Limit,            \* the limit a tick is called with
          Operator,         \* who makes the calls that are not ticks
          Idle              \* no tick in progress

ASSUME ControllerAssumption ==
    /\ MaxObservation \in [Streams -> Nat] /\ MaxClaims \in Nat /\ Limit \in Nat \ {0}
    /\ Operator \notin Ticks

Works  == UNION {{s} \X (1..MaxObservation[s]) : s \in Streams}
Claims == Works \X (1..MaxClaims)
Kinds  == {"retry", "maintenance"}

StreamOf(w) == w[1]
ObsOf(w)    == w[2]

VARIABLES
  db,    \* the tables, see Database
  tick   \* tick[p]: the kind and the candidates of p's snapshot, or Idle

vars == <<db, tick>>

Status == {"absent", "pending", "running", "succeeded", "failed", "superseded"}

\* lapsed: claims whose lease has elapsed; due: claims with a retry decision
\* whose backoff has passed; both in the order in which that happened.
Database ==
    [status : [Works -> Status], tries : [Works -> 0..MaxClaims],
     lapsed : Seq(Claims), due : Seq(Claims),
     released : SUBSET [claim : Claims, by : Ticks \cup {Operator},
                        kind : {"recovery", "retry", "consumption"}]]

Snapshots == [kind : Kinds, claims : Seq(Claims)]

Init ==
    /\ db = [status |-> [w \in Works |-> "absent"], tries |-> [w \in Works |-> 0],
             lapsed |-> <<>>, due |-> <<>>, released |-> {}]
    /\ tick = [p \in Ticks |-> Idle]

-----------------------------------------------------------------------------

\* Claim c is the claim of its item, and the item has that status.
Holds(d, c, status) == d.status[c[1]] = status /\ d.tries[c[1]] = c[2]

InState(d, s, status) == {w \in Works : StreamOf(w) = s /\ d.status[w] = status}

Consumed(d, c) == \E e \in d.released : e.claim = c /\ e.kind = "consumption"

\* A released item goes back to pending or behind a pending newer one; an
\* older pending item is a conflict.
Frees(d, c) ==
    \A w \in InState(d, StreamOf(c[1]), "pending") : ObsOf(w) > ObsOf(c[1])

\* Wrong variant: what the snapshot said is not checked again.
MayTrustSnapshot(d, c, kind) == Frees(d, c)

\* What recovery, manual retry and consumption check once they hold the lock.
MayRelease(d, c, kind) ==
    /\ CASE kind = "recovery"    -> Holds(d, c, "running") /\ c \in ToSet(d.lapsed)
         [] kind = "retry"       -> Holds(d, c, "failed")
         [] kind = "consumption" -> /\ Holds(d, c, "failed")
                                    /\ c \in ToSet(d.due) /\ ~ Consumed(d, c)
    /\ Frees(d, c)

Release(d, c, kind, by) ==
    [d EXCEPT !.status[c[1]] = IF InState(d, StreamOf(c[1]), "pending") = {}
                                 THEN "pending" ELSE "superseded",
              !.released = @ \cup {[claim |-> c, by |-> by, kind |-> kind]}]

-----------------------------------------------------------------------------
(* One stream at a time: what schedulers, workers, time and operators do.   *)

Schedule(w) ==
    /\ \A o \in ObsOf(w)..MaxObservation[StreamOf(w)] : db.status[<<StreamOf(w), o>>] = "absent"
    /\ db' = [db EXCEPT !.status = [v \in Works |->
                CASE v = w -> "pending"
                  [] v \in InState(db, StreamOf(w), "pending") -> "superseded"
                  [] OTHER -> db.status[v]]]
    /\ UNCHANGED tick

Claim(w) ==
    /\ db.status[w] = "pending" /\ db.tries[w] < MaxClaims
    /\ InState(db, StreamOf(w), "running") = {}
    /\ db' = [db EXCEPT !.status[w] = "running", !.tries[w] = @ + 1]
    /\ UNCHANGED tick

\* A worker whose stamp precedes the end of the lease may commit after it.
Finish(c, status) ==
    /\ Holds(db, c, "running") /\ status \in {"succeeded", "failed"}
    /\ db' = [db EXCEPT !.status[c[1]] = status]
    /\ UNCHANGED tick

\* Before the lease elapses a renewal changes nothing here; a renewal whose
\* stamp precedes the end of the lease may commit after it.
Renew(c) ==
    /\ Holds(db, c, "running")
    /\ \E i \in DOMAIN db.lapsed :
         db.lapsed[i] = c /\ db' = [db EXCEPT !.lapsed = RemoveAt(@, i)]
    /\ UNCHANGED tick

LeaseElapses(c) ==
    /\ Holds(db, c, "running") /\ c \notin ToSet(db.lapsed)
    /\ db' = [db EXCEPT !.lapsed = Append(@, c)]
    /\ UNCHANGED tick

\* The failure is classified, the policy grants a retry, its backoff passes.
DecisionFallsDue(c) ==
    /\ Holds(db, c, "failed") /\ c \notin ToSet(db.due)
    /\ db' = [db EXCEPT !.due = Append(@, c)]
    /\ UNCHANGED tick

\* Recovery, manual retry or consumption of one exact claim, called by hand.
ReleaseByHand(c, kind) ==
    /\ MayRelease(db, c, kind)
    /\ db' = Release(db, c, kind, Operator)
    /\ UNCHANGED tick

-----------------------------------------------------------------------------
(* The ticks.                                                               *)

ExpiredClaims(d) == SelectSeq(d.lapsed, LAMBDA c : Holds(d, c, "running"))
DueDecisions(d)  == SelectSeq(d.due, LAMBDA c : Holds(d, c, "failed") /\ ~ Consumed(d, c))

\* Wrong variant: lists a claim whatever has been done about it since.
CandidatesEver(d, kind) == IF kind = "retry" THEN d.due ELSE d.lapsed

Candidates(d, kind) == IF kind = "retry" THEN DueDecisions(d) ELSE ExpiredClaims(d)

TakeSnapshot(p, kind) ==
    /\ tick[p] = Idle
    /\ Candidates(db, kind) # <<>>
    /\ tick' = [tick EXCEPT ![p] = [kind |-> kind, claims |-> Candidates(db, kind)]]
    /\ UNCHANGED db

TransitionOf(kind) == IF kind = "retry" THEN "consumption" ELSE "recovery"

\* FOR UPDATE SKIP LOCKED: the candidates whose streams this tick has locked.
Lockable(p, locked) == SelectSeq(tick[p].claims, LAMBDA c : StreamOf(c[1]) \in locked)

\* One candidate: a conflict leaves no database.
Advance(ds, c, kind, by) ==
    {Release(d, c, kind, by) : d \in {e \in ds : MayRelease(e, c, kind)}}

\* The database, in a set, after the first k of them: one transition after the
\* other, and none at all, the empty set, if one of them conflicts.
Done[k \in 0..Limit] ==
    [p \in Ticks |-> [locked \in SUBSET Streams |->
        IF k = 0 THEN {db}
        ELSE IF k \notin DOMAIN Lockable(p, locked) THEN Done[k - 1][p][locked]
        ELSE Advance(Done[k - 1][p][locked], Lockable(p, locked)[k],
                     TransitionOf(tick[p].kind), p)]]

AfterBatch(p, locked) == Done[Limit][p][locked]

\* The tick locks the streams in locked and passes over the others.
RunBatch(p, locked) ==
    /\ tick[p] # Idle
    /\ IF AfterBatch(p, locked) = {} THEN UNCHANGED db ELSE db' \in AfterBatch(p, locked)
    /\ tick' = [tick EXCEPT ![p] = Idle]

\* The process or its connection dies before the transaction commits.
Abort(p) ==
    /\ tick[p] # Idle
    /\ tick' = [tick EXCEPT ![p] = Idle]
    /\ UNCHANGED db

ByOthers ==
    \/ \E w \in Works : Schedule(w) \/ Claim(w)
    \/ \E c \in Claims :
         \/ \E status \in {"succeeded", "failed"} : Finish(c, status)
         \/ Renew(c) \/ LeaseElapses(c) \/ DecisionFallsDue(c)
         \/ \E kind \in {"recovery", "retry", "consumption"} : ReleaseByHand(c, kind)

Next ==
    \/ ByOthers
    \/ \E p \in Ticks :
         \/ \E kind \in Kinds : TakeSnapshot(p, kind)
         \/ \E locked \in SUBSET Streams : RunBatch(p, locked)
         \/ Abort(p)

Spec == Init /\ [][Next]_vars

RunWhole(p, kind) == tick[p] # Idle /\ tick[p].kind = kind /\ RunBatch(p, Streams)

\* Somebody keeps calling both ticks, and every now and then a tick finds no
\* stream locked and is not cut off: transactions are short.
FairTicks ==
    \A p \in Ticks, kind \in Kinds :
        /\ SF_vars(TakeSnapshot(p, kind))
        /\ SF_vars(RunWhole(p, kind))

FairSpec == Spec /\ FairTicks

-----------------------------------------------------------------------------
(* Properties.                                                              *)

\* Whatever a tick saw in its snapshot, it takes away only claims that are
\* lost or failed when its transaction commits: never an outcome a worker has
\* stored in between, nor a claim somebody else has already released.
StaleSnapshotHarmless ==
    [][\A e \in db'.released \ db.released :
         Holds(db, e.claim, IF e.kind = "recovery" THEN "running" ELSE "failed")]_vars

\* The stream has an item that a release of c would have to overtake, now or
\* when the items ahead of it in the same batch have been released.
Blocked(c) ==
    \E w \in Works : /\ StreamOf(w) = StreamOf(c[1]) /\ ObsOf(w) < ObsOf(c[1])
                     /\ db.status[w] \in {"pending", "failed"}

Lost(c) == c \in ToSet(ExpiredClaims(db))
DueNow(c) == c \in ToSet(DueDecisions(db))

\* Ticks that keep coming reach every lost claim of every stream, whatever the
\* limit, provided that none of them stays behind an older item.
LostClaimsReleased ==
    <>[](\A c \in Claims : Lost(c) => ~ Blocked(c))
        => \A c \in Claims : Lost(c) ~> ~ Lost(c)

\* Likewise for due retry decisions.
DueDecisionsConsumed ==
    <>[](\A c \in Claims : DueNow(c) => ~ Blocked(c))
        => \A c \in Claims : DueNow(c) ~> ~ DueNow(c)

\* What "consumes one bounded batch of due retry decisions" asks of a state: a
\* tick whose snapshot is up to date, and which finds nothing pending or running
\* in any stream, and no stream locked, can consume its batch.  The code does
\* not keep this.
DueBatchConsumable ==
    (\A s \in Streams : InState(db, s, "pending") \cup InState(db, s, "running") = {})
        => \A p \in Ticks :
             tick[p] = [kind |-> "retry", claims |-> DueDecisions(db)] => AfterBatch(p, Streams) # {}

=============================================================================

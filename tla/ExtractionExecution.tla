------------------------ MODULE ExtractionExecution ------------------------
(***************************************************************************)
(* The execution of a claimed work item: reservation of the claim by an    *)
(* execution request, extraction under a heartbeat that renews the lease,  *)
(* the finish, and the audit of a failure.  A call of                      *)
(* ExecuteClaimedRepositoryExtractionWork is a process that takes one      *)
(* transaction per step and may fail or die between any two; a call with a *)
(* request seen before is a replay, which waits for what the first call    *)
(* does and then repeats or completes it.  Worker ticks make such calls    *)
(* too, under a request derived from their own.                            *)
(*                                                                         *)
(* One work item.  Leases are a flag that is set when they elapse; what    *)
(* transactions that commit late under an old stamp can do to them is in   *)
(* ExtractionWork.                                                         *)
(***************************************************************************)
EXTENDS Naturals, FiniteSets

CONSTANTS Calls,        \* processes that may be executing at once
          Requests,     \* execution request ids
          MaxClaims,    \* bound: claims of the item
          ClaimOf,      \* ClaimOf[e]: the claim named in the payload of request e
          MaxBeats      \* bound: heartbeats of an execution

ASSUME ExecutionAssumption ==
    /\ MaxClaims \in Nat /\ MaxBeats \in Nat
    /\ ClaimOf \in [Requests -> 1..MaxClaims]

VARIABLES
  work,     \* the work item, its last claim, whether that claim's lease has elapsed
  exec,     \* the execution requests, with the rows that hang on their ids
  call      \* the calls in progress

vars == <<work, exec, call>>

WorkRow == [status : {"pending", "running", "succeeded", "failed"},
            claim : 0..MaxClaims, lapsed : BOOLEAN]

\* renewals: the sequence numbers of the heartbeat renewals stored; attempt:
\* the status of the extraction attempt; finished: the finish request is stored.
ExecRow == [reserved : BOOLEAN, renewals : SUBSET (1..MaxBeats), beats : 0..MaxBeats,
            failed : BOOLEAN, attempt : {"none", "started", "succeeded", "failed"},
            finished : BOOLEAN]

\* seen: the stored failure as the call last read it; heart: what the heartbeat
\* is doing, "due" if the call requires one and has not started it; behind: a
\* longer lease has been granted than the call knows of.
Call == [pc : {"wait", "refresh", "decide", "attempt", "extract", "stop", "finish",
               "failing"},
         req : Requests, owner : BOOLEAN, seen : BOOLEAN,
         heart : {"due", "on", "renewed", "conflict", "failed", "off"},
         beats : 0..MaxBeats, behind : BOOLEAN]

Idle == [pc |-> "idle"]

Init ==
    /\ work = [status |-> "pending", claim |-> 0, lapsed |-> FALSE]
    /\ exec = [e \in Requests |-> [reserved |-> FALSE, renewals |-> {}, beats |-> 0,
                                   failed |-> FALSE, attempt |-> "none", finished |-> FALSE]]
    /\ call = [p \in Calls |-> Idle]

-----------------------------------------------------------------------------

At(p, pc) == call[p].pc = pc
Req(p)    == call[p].req

\* The claim of request e is the item's claim, and the item has that status.
Claimed(e, status) == work.claim = ClaimOf[e] /\ work.status = status

Leased(e) == Claimed(e, "running") /\ ~ work.lapsed

Goto(p, pc) == call' = [call EXCEPT ![p].pc = pc]

Failing(p) == call' = [call EXCEPT ![p].pc = "failing", ![p].seen = FALSE]

Fail(p) == Failing(p) /\ UNCHANGED <<work, exec>>

Return(p) == call' = [call EXCEPT ![p] = Idle]

-----------------------------------------------------------------------------
(* Reservation, and what a replay does before it runs.  A call that is      *)
(* refused here changes nothing, so a refusal is no step.                   *)

MayOwn(e) ==
    /\ Leased(e)
    /\ \A f \in Requests : exec[f].reserved => ClaimOf[f] # ClaimOf[e]

\* The first call reserves the claim and starts its heartbeat.
Reserve(p, e) ==
    /\ call[p] = Idle /\ ~ exec[e].reserved /\ MayOwn(e)
    /\ exec' = [exec EXCEPT ![e].reserved = TRUE]
    /\ call' = [call EXCEPT ![p] = [pc |-> "attempt", req |-> e, owner |-> TRUE, seen |-> FALSE,
                                    heart |-> "on", beats |-> 0, behind |-> FALSE]]
    /\ UNCHANGED work

\* Wrong variant: a replay does not look at the lease.
BindsAlways(e) == Claimed(e, "running")

BindsRunning(e) == Leased(e)

BindsTo(e) == BindsRunning(e) \/ Claimed(e, "succeeded")

\* What a replay knows once it has read its request again and bound it to a
\* claim that is still leased, or that has succeeded.
Bound(e) == [pc |-> IF Claimed(e, "running") THEN "wait" ELSE "decide", req |-> e,
             owner |-> FALSE, seen |-> exec[e].failed,
             heart |-> IF Claimed(e, "running") THEN "due" ELSE "off",
             beats |-> exec[e].beats, behind |-> FALSE]

Replay(p, e) ==
    /\ call[p] = Idle /\ exec[e].reserved /\ BindsTo(e)
    /\ call' = [call EXCEPT ![p] = Bound(e)]
    /\ UNCHANGED <<work, exec>>

\* Each round of the wait binds the replay anew.
Refresh(p) ==
    /\ At(p, "refresh")
    /\ IF BindsTo(Req(p))
         THEN call' = [call EXCEPT ![p] = Bound(Req(p))] /\ UNCHANGED <<work, exec>>
         ELSE Fail(p)

\* Wrong variant: an attempt once started counts as an answer.
AnsweredOnceStarted(p) == exec[Req(p)].attempt # "none" \/ call[p].seen

Answered(p) == exec[Req(p)].attempt \in {"succeeded", "failed"} \/ call[p].seen

Wait(p) ==
    /\ At(p, "wait")
    /\ Goto(p, IF Answered(p) THEN "decide" ELSE "refresh")
    /\ UNCHANGED <<work, exec>>

\* A stored failure is repeated, unless the attempt has failed: running into
\* that attempt fails again.
RepeatsFailure(p) == At(p, "decide") /\ call[p].seen /\ exec[Req(p)].attempt # "failed"

Decide(p) ==
    /\ At(p, "decide")
    /\ IF RepeatsFailure(p)
         THEN Return(p)
         ELSE call' = [call EXCEPT ![p].pc = "attempt", ![p].seen = FALSE,
                                   ![p].heart = IF @ = "due" THEN "on" ELSE @]
    /\ UNCHANGED <<work, exec>>

-----------------------------------------------------------------------------
(* Running the extractor.                                                   *)

\* The attempt of the request's run is created unless it exists.
StartAttempt(p) ==
    LET attempt == exec[Req(p)].attempt IN
    /\ At(p, "attempt")
    /\ CASE attempt \in {"none", "started"} ->
              /\ exec' = [exec EXCEPT ![Req(p)].attempt = "started"]
              /\ Goto(p, "extract") /\ UNCHANGED work
         [] attempt = "succeeded" -> Goto(p, "stop") /\ UNCHANGED <<work, exec>>
         [] attempt = "failed"    -> Fail(p)

\* The result is stored with the attempt; a result stored in between is replayed.
Extract(p) ==
    /\ At(p, "extract")
    /\ IF exec[Req(p)].attempt = "failed"
         THEN Fail(p)
         ELSE /\ exec' = [exec EXCEPT ![Req(p)].attempt = "succeeded"]
              /\ Goto(p, "stop") /\ UNCHANGED work

\* The extractor's failure is stored unless the attempt has ended.
ExtractorFails(p) ==
    /\ At(p, "extract")
    /\ exec' = [exec EXCEPT ![Req(p)].attempt = IF @ = "started" THEN "failed" ELSE @]
    /\ Failing(p) /\ UNCHANGED work

Resting(p) == call[p].heart \notin {"renewed", "conflict"}

\* stop waits for the goroutine; a heartbeat that failed outweighs the result.
Stop(p) ==
    /\ At(p, "stop") /\ Resting(p)
    /\ call' = [call EXCEPT ![p].heart = "off",
                            ![p].pc = IF call[p].heart = "failed" THEN "failing" ELSE "finish"]
    /\ UNCHANGED <<work, exec>>

\* Wrong variant: any running claim will do.
MayFinishRunning(e) == work.status = "running" /\ ~ work.lapsed

MayFinish(e) == Leased(e)

Finish(p) ==
    LET e == Req(p) IN
    /\ At(p, "finish")
    /\ IF exec[e].finished \/ MayFinish(e)
         THEN /\ work' = IF exec[e].finished THEN work ELSE [work EXCEPT !.status = "succeeded"]
              /\ exec' = [exec EXCEPT ![e].finished = TRUE]
              /\ Return(p)
         ELSE Fail(p)

\* The call fails by itself: its context is cancelled, git or the database
\* reports an error, or the reply to a commit is lost.
Fails(p) ==
    /\ call[p] # Idle /\ ~ At(p, "failing")
    /\ Fail(p)

\* The owner stores its failure while the item still runs under its claim.
ReturnFailure(p) ==
    LET e == Req(p) IN
    /\ At(p, "failing") /\ Resting(p)
    /\ exec' = IF call[p].owner /\ Claimed(e, "running")
                 THEN [exec EXCEPT ![e].failed = TRUE] ELSE exec
    /\ Return(p)
    /\ UNCHANGED work

Dies(p) == call[p] # Idle /\ Return(p) /\ UNCHANGED <<work, exec>>

-----------------------------------------------------------------------------
(* The heartbeat goroutine: renewal and its record are two transactions.    *)

Heart(p, heart) == call' = [call EXCEPT ![p].heart = heart]

\* A renewal seen before is replayed.  A lease that has been extended beyond
\* what the renewal would reach is a conflict.
Renew(p) ==
    LET e == Req(p)  seq == call[p].beats + 1 IN
    /\ call[p] # Idle /\ call[p].heart = "on" /\ seq <= MaxBeats
    /\ \/ /\ seq \in exec[e].renewals \/ Leased(e)
          /\ exec' = [exec EXCEPT ![e].renewals = @ \cup {seq}]
          /\ Heart(p, "renewed")
       \/ /\ seq \notin exec[e].renewals /\ Leased(e) /\ call[p].behind
          /\ Heart(p, "conflict") /\ UNCHANGED exec
       \/ /\ seq \notin exec[e].renewals /\ ~ Leased(e)
          /\ Heart(p, "failed") /\ UNCHANGED exec
    /\ UNCHANGED work

\* After a conflict the lease and the count are read and adopted.
Inspect(p) ==
    /\ call[p] # Idle /\ call[p].heart = "conflict"
    /\ IF Leased(Req(p))
         THEN call' = [call EXCEPT ![p].heart = "on", ![p].behind = FALSE,
                                   ![p].beats = exec[Req(p)].beats]
         ELSE Heart(p, "failed")
    /\ UNCHANGED <<work, exec>>

\* The count after recording the renewal seq over the stored count.
Counted(stored, seq) == IF stored >= seq THEN stored ELSE seq

Record(p) ==
    LET e == Req(p)  seq == call[p].beats + 1  count == Counted(exec[e].beats, seq) IN
    /\ call[p] # Idle /\ call[p].heart = "renewed"
    /\ IF exec[e].beats >= seq - 1
         THEN /\ exec' = [exec EXCEPT ![e].beats = count]
              /\ call' = [call EXCEPT ![p].heart = "on", ![p].beats = count]
         ELSE Heart(p, "failed") /\ UNCHANGED exec
    /\ UNCHANGED work

HeartFails(p) ==
    /\ call[p] # Idle /\ call[p].heart \in {"on", "renewed", "conflict"}
    /\ Heart(p, "failed") /\ UNCHANGED <<work, exec>>

-----------------------------------------------------------------------------
(* What others do to the work item.                                         *)

Claim ==
    /\ work.status = "pending" /\ work.claim < MaxClaims
    /\ work' = [status |-> "running", claim |-> work.claim + 1, lapsed |-> FALSE]
    /\ UNCHANGED <<exec, call>>

LeaseElapses ==
    /\ work.status = "running" /\ ~ work.lapsed
    /\ work' = [work EXCEPT !.lapsed = TRUE]
    /\ UNCHANGED <<exec, call>>

\* An operator extends the lease beyond what the calls know.
RenewByHand ==
    /\ work.status = "running" /\ ~ work.lapsed
    /\ call' = [p \in Calls |->
                  IF call[p] # Idle /\ call[p].heart \in {"due", "on", "renewed", "conflict"}
                    THEN [call[p] EXCEPT !.behind = TRUE] ELSE call[p]]
    /\ UNCHANGED <<work, exec>>

FinishByHand(status) ==
    /\ work.status = "running" /\ ~ work.lapsed
    /\ work' = [work EXCEPT !.status = status]
    /\ UNCHANGED <<exec, call>>

\* Recovery of a lost claim, or repair when an execution owns it; manual retry
\* of a failed item.
Release ==
    /\ (work.status = "running" /\ work.lapsed) \/ work.status = "failed"
    /\ work' = [work EXCEPT !.status = "pending", !.lapsed = FALSE]
    /\ UNCHANGED <<exec, call>>

-----------------------------------------------------------------------------

\* What a call does by itself as long as it lives.
Step(p) ==
    \/ Wait(p) \/ Refresh(p) \/ Decide(p)
    \/ StartAttempt(p) \/ Extract(p) \/ Stop(p) \/ Finish(p) \/ ReturnFailure(p)

Beat(p) == Inspect(p) \/ Record(p)

Next ==
    \/ \E p \in Calls :
         \/ \E e \in Requests : Reserve(p, e) \/ Replay(p, e)
         \/ Step(p) \/ ExtractorFails(p) \/ Fails(p) \/ Dies(p)
         \/ Renew(p) \/ Beat(p) \/ HeartFails(p)
    \/ Claim \/ LeaseElapses \/ RenewByHand \/ Release
    \/ \E status \in {"succeeded", "failed"} : FinishByHand(status)

Spec == Init /\ [][Next]_vars

\* No heartbeat renews the lease.
Unattended == \A p \in Calls : call[p] # Idle => call[p].heart \in {"due", "off", "failed"}

\* A call that lives keeps running, its extractor and its database operations
\* end, and a lease that nobody renews elapses.  Stopping is strongly fair: the
\* goroutine's select, which meets the cancellation after every renewal, picks
\* at random when its timer has fired as well.
Fairness ==
    /\ \A p \in Calls : /\ WF_vars(Step(p)) /\ WF_vars(Beat(p))
                        /\ SF_vars(Stop(p) \/ ReturnFailure(p))
    /\ WF_vars(Unattended /\ LeaseElapses)

FairSpec == Spec /\ Fairness

-----------------------------------------------------------------------------
(* Properties.                                                              *)

\* While an item runs under a claim, at most one call extracts for that claim:
\* neither a replay, after whatever crash, nor a second request joins the
\* first.  (An item finished by hand is another matter: a replay then extracts,
\* and its finish is refused.)
OneExtractor ==
    \A p, q \in Calls :
        /\ At(p, "extract") /\ At(q, "extract")
        /\ Claimed(Req(p), "running") /\ Claimed(Req(q), "running")
        => p = q

\* A finish stored for an execution, which is what a call that returns success
\* has stored or found, is of the execution's own claim: the item succeeded under that
\* claim and from that request's extraction, whatever became of the lease
\* while the call was extracting, and stays so.
SuccessIsDurable ==
    \A e \in Requests : exec[e].finished =>
        Claimed(e, "succeeded") /\ exec[e].attempt = "succeeded"

\* Every call returns.  A replay that waits for a call that has died is not
\* left waiting: the lease elapses, and the replay is refused.
EveryCallReturns == \A p \in Calls : call[p] # Idle ~> call[p] = Idle

\* What an "idempotent execution request" asks: when an execution has
\* succeeded, no replay of its request is answered with a failure stored
\* earlier.  The code does not keep this.
SuccessIsReplayed == \A p \in Calls : RepeatsFailure(p) => ~ exec[Req(p)].finished

=============================================================================

---------------------- MODULE ExtractionExecutionProofs ----------------------
(* Theorems about the execution of a claimed work item, for any number of   *)
(* calls, requests and claims: whatever calls die and are repeated, one     *)
(* call at a time extracts for the item's claim, and a stored finish means  *)
(* that the item succeeded under that claim.                                *)
EXTENDS ExtractionExecution, TLAPS

\* A heartbeat that has renewed has a sequence number left to record.
LiveCall == {c \in Call : c.heart = "renewed" => c.beats < MaxBeats}

TypeOK ==
    /\ work \in WorkRow
    /\ exec \in [Requests -> ExecRow]
    /\ call \in [Calls -> LiveCall \cup {Idle}]

Live(p) == call[p] \in LiveCall

LEMMA LiveOrIdle ==
    ASSUME TypeOK, NEW p \in Calls
    PROVE  /\ call[p] # Idle <=> Live(p)
           /\ call[p].pc # "idle" <=> Live(p)
           /\ Live(p) => Req(p) \in Requests /\ call[p].pc # "idle"
<1>1. Idle.pc = "idle"
  BY DEF Idle
<1>2. \A c \in LiveCall : c.pc # "idle" /\ c.req \in Requests
  BY DEF LiveCall, Call
<1> QED BY <1>1, <1>2 DEF TypeOK, Live, Req

\* The shapes of the records the steps write.
LEMMA BoundIsCall ==
    ASSUME TypeOK, NEW e \in Requests
    PROVE  /\ Bound(e) \in LiveCall /\ Bound(e).req = e /\ Bound(e).owner = FALSE
           /\ Bound(e).pc \in {"wait", "decide"}
           /\ Bound(e).pc = "decide" => ~ Claimed(e, "running")
  BY DEF Bound, LiveCall, Call, TypeOK, ExecRow

\* Only a replay waits for an answer.
ReplaysWait ==
    \A p \in Calls : Live(p) /\ call[p].pc \in {"wait", "refresh", "decide"}
                        => call[p].owner = FALSE

\* What a step may do to a call: the transitions of its program counter, and
\* the state of the tables they depend on.
Moves(q) ==
    /\ call'[q].req = call[q].req /\ call'[q].owner = call[q].owner
    /\ \/ call'[q].pc = call[q].pc /\ call'[q].seen = call[q].seen
       \/ call'[q].pc = "failing"
       \/ call'[q].pc \in {"refresh", "wait"} /\ ~ call[q].owner
       \/ /\ call'[q].pc = "decide" /\ UNCHANGED <<work, exec>>
          /\ ~ Claimed(Req(q), "running") /\ ~ call[q].owner
       \/ /\ call[q].pc = "wait" /\ call'[q].pc = "decide" /\ UNCHANGED <<work, exec>>
          /\ Answered(q) /\ call'[q].seen = call[q].seen /\ ~ call[q].owner
       \/ /\ call[q].pc = "decide" /\ call'[q].pc = "attempt" /\ UNCHANGED <<work, exec>>
          /\ ~ RepeatsFailure(q)
       \/ /\ call[q].pc = "attempt" /\ call'[q].pc = "extract" /\ UNCHANGED work
          /\ exec[Req(q)].attempt \in {"none", "started"}
       \/ /\ call'[q].pc = "stop" /\ exec'[Req(q)].attempt = "succeeded"
       \/ /\ call[q].pc = "stop" /\ call'[q].pc = "finish"

\* A call begins as the owner of a request nobody has reserved, or as a replay.
Begins(q) ==
    \/ \E e \in Requests :
         /\ call'[q].req = e /\ call'[q].owner = TRUE /\ call'[q].pc = "attempt"
         /\ ~ exec[e].reserved /\ MayOwn(e)
         /\ exec' = [exec EXCEPT ![e].reserved = TRUE]
         /\ \A p \in Calls : p # q => call'[p] = call[p]
    \/ \E e \in Requests :
         /\ call'[q].req = e /\ call'[q].owner = FALSE
         /\ call'[q].pc \in {"wait", "decide"}
         /\ call'[q].pc = "decide" => ~ Claimed(e, "running")
         /\ exec[e].reserved /\ UNCHANGED <<work, exec>>

CallStep(q) ==
    \/ call'[q] = Idle
    \/ ~ Live(q) /\ call'[q] \in LiveCall /\ Begins(q)
    \/ Live(q) /\ call'[q] \in LiveCall /\ Moves(q)

-----------------------------------------------------------------------------
(* Each transaction, as a step of its own call; the other calls stay.       *)

LEMMA OthersStay ==
    ASSUME TypeOK, NEW p \in Calls, NEW c, call' = [call EXCEPT ![p] = c]
    PROVE  /\ call'[p] = c
           /\ \A q \in Calls : q # p => call'[q] = call[q]
  BY DEF TypeOK

LEMMA StaysPut ==
    ASSUME TypeOK, NEW q \in Calls, call'[q] = call[q] PROVE CallStep(q)
  BY LiveOrIdle DEF CallStep, Moves, Live

\* A step that rewrites the record of one live call.
LEMMA OwnStep ==
    ASSUME TypeOK, NEW p \in Calls, NEW c, call' = [call EXCEPT ![p] = c],
           c = Idle \/ (Live(p) /\ c \in LiveCall /\ Moves(p)), NEW q \in Calls
    PROVE  CallStep(q)
  BY OthersStay, StaysPut DEF CallStep

LEMMA FailMoves ==
    ASSUME TypeOK, NEW p \in Calls, Live(p), Failing(p), NEW q \in Calls PROVE CallStep(q)
<1> DEFINE c == [call[p] EXCEPT !.pc = "failing", !.seen = FALSE]
<1>1. call' = [call EXCEPT ![p] = c]
  BY DEF Failing, TypeOK
<1>2. c \in LiveCall /\ c.req = call[p].req /\ c.owner = call[p].owner /\ c.pc = "failing"
  BY DEF Live, LiveCall, Call
<1>3. call'[p] = c
  BY <1>1, OthersStay
<1> HIDE DEF c
<1> QED BY <1>1, <1>2, <1>3, OwnStep DEF Moves

LEMMA GotoMoves ==
    ASSUME TypeOK, NEW p \in Calls, Live(p), NEW pc, Goto(p, pc),
           pc \in {"refresh", "decide", "attempt", "extract", "stop"}
    PROVE  /\ call'[p] \in LiveCall /\ call'[p].pc = pc /\ call'[p].req = call[p].req
           /\ call'[p].owner = call[p].owner /\ call'[p].seen = call[p].seen
           /\ call' = [call EXCEPT ![p] = call'[p]]
<1> DEFINE c == [call[p] EXCEPT !.pc = pc]
<1>1. call' = [call EXCEPT ![p] = c]
  BY DEF Goto, TypeOK
<1>2. /\ c \in LiveCall /\ c.req = call[p].req /\ c.owner = call[p].owner /\ c.pc = pc
      /\ c.seen = call[p].seen
  BY DEF Live, LiveCall, Call
<1>3. call'[p] = c
  BY <1>1, OthersStay
<1> HIDE DEF c
<1> QED BY <1>1, <1>2, <1>3

LEMMA HeartMoves ==
    ASSUME TypeOK, NEW p \in Calls, Live(p), NEW c \in LiveCall,
           call' = [call EXCEPT ![p] = c], c.pc = call[p].pc, c.req = call[p].req,
           c.owner = call[p].owner, c.seen = call[p].seen, NEW q \in Calls
    PROVE  CallStep(q)
<1>1. call'[p] = c
  BY OthersStay
<1>2. Moves(p)
  BY <1>1 DEF Moves
<1> QED BY <1>2, OwnStep

LEMMA ReturnMoves ==
    ASSUME TypeOK, NEW p \in Calls, Return(p), NEW q \in Calls PROVE CallStep(q)
  BY OwnStep DEF Return

LEMMA ReserveMoves ==
    ASSUME TypeOK, NEW p \in Calls, NEW e \in Requests, Reserve(p, e), NEW q \in Calls
    PROVE  CallStep(q)
<1> DEFINE c == [pc |-> "attempt", req |-> e, owner |-> TRUE, seen |-> FALSE,
                 heart |-> "on", beats |-> 0, behind |-> FALSE]
<1>1. call' = [call EXCEPT ![p] = c]
  BY DEF Reserve
<1>2. c \in LiveCall /\ c.req = e /\ c.owner = TRUE /\ c.pc = "attempt"
  BY ExecutionAssumption DEF LiveCall, Call
<1> HIDE DEF c
<1>3. call'[p] = c /\ \A r \in Calls : r # p => call'[r] = call[r]
  BY <1>1, OthersStay
<1>4. ~ Live(p)
  BY LiveOrIdle DEF Reserve
<1>5. Begins(p)
  BY <1>2, <1>3 DEF Begins, Reserve
<1> QED BY <1>2, <1>3, <1>4, <1>5, StaysPut DEF CallStep

LEMMA ReplayMoves ==
    ASSUME TypeOK, NEW p \in Calls, NEW e \in Requests, Replay(p, e), NEW q \in Calls
    PROVE  CallStep(q)
<1>1. call' = [call EXCEPT ![p] = Bound(e)]
  BY DEF Replay
<1>2. call'[p] = Bound(e) /\ \A r \in Calls : r # p => call'[r] = call[r]
  BY <1>1, OthersStay
<1>3. ~ Live(p)
  BY LiveOrIdle DEF Replay
<1>4. Begins(p)
  <2>1. exec[e].reserved /\ BindsTo(e) /\ UNCHANGED <<work, exec>>
    BY DEF Replay
  <2>2. /\ call'[p].req = e /\ call'[p].owner = FALSE /\ call'[p].pc \in {"wait", "decide"}
        /\ call'[p].pc = "decide" => ~ Claimed(e, "running")
    BY <1>2, BoundIsCall
  <2> QED BY <1>2, <2>1, <2>2, BoundIsCall DEF Begins
<1> QED BY <1>2, <1>3, <1>4, BoundIsCall, StaysPut DEF CallStep

LEMMA RefreshMoves ==
    ASSUME TypeOK, ReplaysWait, NEW p \in Calls, Refresh(p), NEW q \in Calls PROVE CallStep(q)
<1>1. Live(p) /\ Req(p) \in Requests /\ ~ call[p].owner
  BY LiveOrIdle DEF Refresh, At, ReplaysWait
<1>2. CASE BindsTo(Req(p))
  <2>1. call' = [call EXCEPT ![p] = Bound(Req(p))] /\ UNCHANGED <<work, exec>>
    BY <1>2 DEF Refresh
  <2>2. call'[p] = Bound(Req(p))
    BY <2>1, OthersStay
  <2>3. call[p].owner = FALSE /\ call[p].req = Req(p)
    BY <1>1 DEF Live, LiveCall, Call, Req
  <2>4. Moves(p) /\ Bound(Req(p)) \in LiveCall
    BY <1>1, <2>1, <2>2, <2>3, BoundIsCall DEF Moves
  <2> QED BY <1>1, <2>1, <2>4, OwnStep
<1>3. CASE ~ BindsTo(Req(p))
  BY <1>1, <1>3, FailMoves DEF Refresh, Fail
<1> QED BY <1>2, <1>3

LEMMA WaitMoves ==
    ASSUME TypeOK, ReplaysWait, NEW p \in Calls, Wait(p), NEW q \in Calls PROVE CallStep(q)
<1>1. Live(p) /\ ~ call[p].owner /\ call[p].pc = "wait"
  BY LiveOrIdle DEF Wait, At, ReplaysWait
<1>2. CASE Answered(p)
  <2>1. Goto(p, "decide") /\ UNCHANGED <<work, exec>>
    BY <1>2 DEF Wait
  <2>2. Moves(p)
    BY <1>1, <1>2, <2>1, GotoMoves DEF Moves
  <2> QED BY <1>1, <2>1, <2>2, GotoMoves, OwnStep
<1>3. CASE ~ Answered(p)
  <2>1. Goto(p, "refresh")
    BY <1>3 DEF Wait
  <2>2. Moves(p)
    BY <1>1, <2>1, GotoMoves DEF Moves
  <2> QED BY <1>1, <2>1, <2>2, GotoMoves, OwnStep
<1> QED BY <1>2, <1>3

LEMMA DecideMoves ==
    ASSUME TypeOK, NEW p \in Calls, Decide(p), NEW q \in Calls PROVE CallStep(q)
<1>1. Live(p) /\ call[p].pc = "decide" /\ UNCHANGED <<work, exec>>
  BY LiveOrIdle DEF Decide, At
<1>2. CASE RepeatsFailure(p)
  BY <1>2, ReturnMoves DEF Decide
<1>3. CASE ~ RepeatsFailure(p)
  <2> DEFINE c == [call[p] EXCEPT !.pc = "attempt", !.seen = FALSE,
                                  !.heart = IF call[p].heart = "due" THEN "on" ELSE call[p].heart]
  <2>1. call' = [call EXCEPT ![p] = c]
    BY <1>3 DEF Decide, TypeOK
  <2>2. c \in LiveCall /\ c.pc = "attempt" /\ c.req = call[p].req /\ c.owner = call[p].owner
    BY <1>1 DEF Live, LiveCall, Call
  <2> HIDE DEF c
  <2>3. call'[p] = c
    BY <2>1, OthersStay
  <2>4. Moves(p)
    BY <1>1, <1>3, <2>2, <2>3 DEF Moves
  <2> QED BY <1>1, <2>1, <2>2, <2>4, OwnStep
<1> QED BY <1>2, <1>3

LEMMA StartAttemptMoves ==
    ASSUME TypeOK, NEW p \in Calls, StartAttempt(p), NEW q \in Calls PROVE CallStep(q)
<1>1. Live(p) /\ call[p].pc = "attempt" /\ Req(p) \in Requests
  BY LiveOrIdle DEF StartAttempt, At
<1>2. exec[Req(p)].attempt \in {"none", "started", "succeeded", "failed"}
  BY <1>1 DEF TypeOK, ExecRow
<1>3. CASE exec[Req(p)].attempt \in {"none", "started"}
  <2>1. Goto(p, "extract") /\ UNCHANGED work
    BY <1>3 DEF StartAttempt
  <2>2. Moves(p)
    BY <1>1, <1>3, <2>1, GotoMoves DEF Moves
  <2> QED BY <1>1, <2>1, <2>2, GotoMoves, OwnStep
<1>4. CASE exec[Req(p)].attempt = "succeeded"
  <2>1. Goto(p, "stop") /\ UNCHANGED exec
    BY <1>4 DEF StartAttempt
  <2>2. Moves(p)
    BY <1>4, <1>1, <2>1, GotoMoves DEF Moves
  <2> QED BY <1>1, <2>1, <2>2, GotoMoves, OwnStep
<1>5. CASE exec[Req(p)].attempt = "failed"
  <2>1. Failing(p)
    BY <1>5 DEF StartAttempt, Fail
  <2> QED BY <1>1, <2>1, FailMoves
<1> QED BY <1>2, <1>3, <1>4, <1>5

LEMMA ExtractMoves ==
    ASSUME TypeOK, NEW p \in Calls, Extract(p), NEW q \in Calls PROVE CallStep(q)
<1>1. Live(p) /\ call[p].pc = "extract" /\ Req(p) \in Requests
  BY LiveOrIdle DEF Extract, At
<1>2. CASE exec[Req(p)].attempt = "failed"
  BY <1>1, <1>2, FailMoves DEF Extract, Fail
<1>3. CASE exec[Req(p)].attempt # "failed"
  <2>1. Goto(p, "stop") /\ exec'[Req(p)].attempt = "succeeded"
    BY <1>1, <1>3 DEF Extract, TypeOK, ExecRow
  <2>2. Moves(p)
    BY <1>1, <2>1, GotoMoves DEF Moves
  <2> QED BY <1>1, <2>1, <2>2, GotoMoves, OwnStep
<1> QED BY <1>2, <1>3

LEMMA StopMoves ==
    ASSUME TypeOK, NEW p \in Calls, Stop(p), NEW q \in Calls PROVE CallStep(q)
<1>1. Live(p) /\ call[p].pc = "stop"
  BY LiveOrIdle DEF Stop, At
<1> DEFINE pc == IF call[p].heart = "failed" THEN "failing" ELSE "finish"
           c == [call[p] EXCEPT !.heart = "off", !.pc = pc]
<1>2. call' = [call EXCEPT ![p] = c]
  BY DEF Stop, TypeOK
<1>3. c \in LiveCall /\ c.pc = pc /\ c.req = call[p].req /\ c.owner = call[p].owner
  BY <1>1 DEF Live, LiveCall, Call
<1>4. c.pc \in {"failing", "finish"}
  BY <1>3
<1> HIDE DEF c, pc
<1>5. call'[p] = c
  BY <1>2, OthersStay
<1>6. Moves(p)
  BY <1>1, <1>3, <1>4, <1>5 DEF Moves
<1> QED BY <1>1, <1>2, <1>3, <1>6, OwnStep

LEMMA FinishMoves ==
    ASSUME TypeOK, NEW p \in Calls, Finish(p), NEW q \in Calls PROVE CallStep(q)
<1>1. Live(p)
  BY LiveOrIdle DEF Finish, At
<1> QED BY <1>1, ReturnMoves, FailMoves DEF Finish, Fail

LEMMA FailsMoves ==
    ASSUME TypeOK, NEW p \in Calls, Fails(p) \/ ExtractorFails(p), NEW q \in Calls
    PROVE  CallStep(q)
<1>1. Live(p) /\ Failing(p)
  BY LiveOrIdle DEF Fails, Fail, ExtractorFails, At
<1> QED BY <1>1, FailMoves

\* The heartbeat changes what it is doing and what the call knows of it.
LEMMA BeatMoves ==
    ASSUME TypeOK, NEW p \in Calls, Renew(p) \/ Beat(p) \/ HeartFails(p), NEW q \in Calls
    PROVE  CallStep(q)
<1>1. Live(p) /\ Req(p) \in Requests
  BY LiveOrIdle DEF Renew, Beat, Inspect, Record, HeartFails
<1>2. ASSUME NEW heart \in {"on", "conflict", "failed"}, Heart(p, heart)
      PROVE  CallStep(q)
  <2> DEFINE c == [call[p] EXCEPT !.heart = heart]
  <2>1. call' = [call EXCEPT ![p] = c]
    BY <1>2 DEF Heart, TypeOK
  <2>2. /\ c \in LiveCall /\ c.pc = call[p].pc /\ c.req = call[p].req
        /\ c.owner = call[p].owner /\ c.seen = call[p].seen
    BY <1>1 DEF Live, LiveCall, Call
  <2> HIDE DEF c
  <2> QED BY <1>1, <2>1, <2>2, HeartMoves
<1>3. CASE Inspect(p) /\ Leased(Req(p))
  <2> DEFINE c == [call[p] EXCEPT !.heart = "on", !.behind = FALSE, !.beats = exec[Req(p)].beats]
  <2>1. call' = [call EXCEPT ![p] = c]
    BY <1>3 DEF Inspect, TypeOK
  <2>2. exec[Req(p)].beats \in 0..MaxBeats
    BY <1>1 DEF TypeOK, ExecRow
  <2>3. /\ c \in LiveCall /\ c.pc = call[p].pc /\ c.req = call[p].req
        /\ c.owner = call[p].owner /\ c.seen = call[p].seen
    BY <1>1, <2>2 DEF Live, LiveCall, Call
  <2> HIDE DEF c
  <2> QED BY <1>1, <2>1, <2>3, HeartMoves
<1>4. CASE Record(p)
  <2> DEFINE seq == call[p].beats + 1
             count == Counted(exec[Req(p)].beats, seq)
             c == [call[p] EXCEPT !.heart = "on", !.beats = count]
  <2>1. CASE call' = [call EXCEPT ![p] = c]
    <3>1. seq \in 0..MaxBeats /\ exec[Req(p)].beats \in 0..MaxBeats
      BY <1>1, <1>4, ExecutionAssumption DEF Record, Live, LiveCall, Call, TypeOK, ExecRow
    <3>2. count \in 0..MaxBeats
      BY <3>1 DEF Counted
    <3> HIDE DEF count
    <3>3. /\ c \in LiveCall /\ c.pc = call[p].pc /\ c.req = call[p].req
          /\ c.owner = call[p].owner /\ c.seen = call[p].seen
      BY <1>1, <3>2 DEF Live, LiveCall, Call
    <3> HIDE DEF c
    <3> QED BY <1>1, <2>1, <3>3, HeartMoves
  <2>2. CASE Heart(p, "failed")
    BY <1>2, <2>2
  <2> QED BY <1>4, <2>1, <2>2 DEF Record, TypeOK
<1>5. CASE Renew(p)
  <2>1. CASE Heart(p, "renewed")
    <3> DEFINE c == [call[p] EXCEPT !.heart = "renewed"]
    <3>1. call' = [call EXCEPT ![p] = c]
      BY <2>1 DEF Heart, TypeOK
    <3>2. call[p].beats + 1 <= MaxBeats
      BY <1>5 DEF Renew
    <3>3. /\ c \in LiveCall /\ c.pc = call[p].pc /\ c.req = call[p].req
          /\ c.owner = call[p].owner /\ c.seen = call[p].seen
      BY <1>1, <3>2, ExecutionAssumption DEF Live, LiveCall, Call
    <3> HIDE DEF c
    <3> QED BY <1>1, <3>1, <3>3, HeartMoves
  <2> QED BY <1>2, <1>5, <2>1 DEF Renew
<1> QED BY <1>2, <1>3, <1>4, <1>5 DEF Beat, Inspect, HeartFails

LEMMA RenewByHandMoves ==
    ASSUME TypeOK, RenewByHand, NEW q \in Calls PROVE CallStep(q)
<1> DEFINE c == [call[q] EXCEPT !.behind = TRUE]
<1>1. CASE call'[q] = call[q]
  BY <1>1, StaysPut
<1>2. CASE call[q] # Idle /\ call'[q] = c
  <2>1. Live(q)
    BY <1>2, LiveOrIdle
  <2>2. /\ c \in LiveCall /\ c.pc = call[q].pc /\ c.req = call[q].req
        /\ c.owner = call[q].owner /\ c.seen = call[q].seen
    BY <2>1 DEF Live, LiveCall, Call
  <2> HIDE DEF c
  <2>3. Moves(q)
    BY <1>2, <2>2 DEF Moves
  <2> QED BY <1>2, <2>1, <2>2, <2>3 DEF CallStep
<1> QED BY <1>1, <1>2 DEF RenewByHand

LEMMA EveryCallStep ==
    ASSUME TypeOK, ReplaysWait, [Next]_vars, NEW q \in Calls PROVE CallStep(q)
<1>1. ASSUME NEW p \in Calls, Step(p) PROVE CallStep(q)
  <2>1. CASE ReturnFailure(p)
    BY <2>1, ReturnMoves DEF ReturnFailure
  <2> QED BY <1>1, <2>1, WaitMoves, RefreshMoves, DecideMoves, StartAttemptMoves, ExtractMoves,
             StopMoves, FinishMoves
          DEF Step
<1>2. ASSUME NEW p \in Calls, Dies(p) PROVE CallStep(q)
  BY <1>2, ReturnMoves DEF Dies
<1>3. CASE UNCHANGED call
  BY <1>3, StaysPut
<1> QED BY <1>1, <1>2, <1>3, ReserveMoves, ReplayMoves, FailsMoves, BeatMoves, RenewByHandMoves
        DEF Next, Claim, LeaseElapses, Release, FinishByHand, vars

-----------------------------------------------------------------------------
(* What a step may do to the work item and to a request's rows.             *)

WorkStep ==
    /\ work' \in WorkRow /\ work.claim <= work'.claim
    /\ work.status = "succeeded" => work'.status = "succeeded" /\ work'.claim = work.claim
    /\ work'.status = "running" /\ work'.claim = work.claim => work.status = "running"

ExecStep(e) ==
    /\ exec'[e] \in ExecRow
    /\ exec[e].reserved => exec'[e].reserved
    /\ exec[e].attempt \in {"succeeded", "failed"} => exec'[e].attempt = exec[e].attempt
    /\ exec[e].finished => exec'[e].finished
    /\ exec'[e].finished /\ ~ exec[e].finished =>
          /\ \E p \in Calls : Live(p) /\ call[p].pc = "finish" /\ Req(p) = e
          /\ Leased(e) /\ work'.status = "succeeded" /\ work'.claim = work.claim
    /\ exec'[e].reserved /\ ~ exec[e].reserved =>
          /\ MayOwn(e) /\ UNCHANGED work
          /\ \A f \in Requests : f # e => exec'[f] = exec[f]

LEMMA EveryWorkStep == ASSUME TypeOK, [Next]_vars PROVE WorkStep
<1>0. work.claim \in Nat
  BY ExecutionAssumption DEF TypeOK, WorkRow
<1>1. CASE UNCHANGED work
  BY <1>0, <1>1 DEF WorkStep, TypeOK, WorkRow
<1>2. ASSUME NEW p \in Calls, Finish(p) PROVE WorkStep
  <2>1. CASE work' = [work EXCEPT !.status = "succeeded"] /\ work.status = "running"
    BY <1>0, <2>1 DEF WorkStep, TypeOK, WorkRow
  <2> QED BY <1>1, <1>2, <2>1 DEF Finish, MayFinish, Leased, Claimed, Fail
<1>3. CASE Claim
  BY <1>0, <1>3, ExecutionAssumption DEF Claim, WorkStep, TypeOK, WorkRow
<1>4. CASE LeaseElapses
  <2> DEFINE row == [work EXCEPT !.lapsed = TRUE]
  <2>1. row \in WorkRow /\ row.status = work.status /\ row.claim = work.claim
    BY DEF TypeOK, WorkRow
  <2>2. work' = row /\ work.status = "running"
    BY <1>4 DEF LeaseElapses
  <2> HIDE DEF row
  <2> QED BY <1>0, <2>1, <2>2 DEF WorkStep
<1>5. CASE Release
  <2> DEFINE row == [work EXCEPT !.status = "pending", !.lapsed = FALSE]
  <2>1. row \in WorkRow /\ row.status = "pending" /\ row.claim = work.claim
    BY DEF TypeOK, WorkRow
  <2>2. work' = row /\ work.status # "succeeded"
    BY <1>5 DEF Release
  <2> HIDE DEF row
  <2> QED BY <1>0, <2>1, <2>2 DEF WorkStep
<1>6. ASSUME NEW status \in {"succeeded", "failed"}, FinishByHand(status) PROVE WorkStep
  BY <1>0, <1>6 DEF FinishByHand, WorkStep, TypeOK, WorkRow
<1>7. ASSUME NEW p \in Calls, Step(p), ~ Finish(p) PROVE UNCHANGED work
  <2>1. CASE StartAttempt(p)
    <3>1. exec[Req(p)].attempt \in {"none", "started", "succeeded", "failed"}
      BY <2>1, LiveOrIdle DEF StartAttempt, At, TypeOK, ExecRow
    <3> QED BY <2>1, <3>1 DEF StartAttempt, Fail
  <2> QED BY <1>7, <2>1 DEF Step, Wait, Refresh, Fail, Decide, Extract, Stop, ReturnFailure
<1>8. ASSUME NEW p \in Calls,
             \/ \E e \in Requests : Reserve(p, e) \/ Replay(p, e)
             \/ ExtractorFails(p) \/ Fails(p) \/ Dies(p)
             \/ Renew(p) \/ Beat(p) \/ HeartFails(p)
      PROVE  UNCHANGED work
  BY <1>8 DEF Reserve, Replay, ExtractorFails, Fails, Fail, Dies, Renew, Beat, Inspect, Record,
              HeartFails
<1> QED BY <1>1, <1>2, <1>3, <1>4, <1>5, <1>6, <1>7, <1>8 DEF Next, vars, RenewByHand

LEMMA RowsStay == ASSUME TypeOK, UNCHANGED exec, NEW e \in Requests PROVE ExecStep(e)
  BY DEF ExecStep, TypeOK

\* A step that rewrites one column of one request's row, without reserving or
\* finishing it.
LEMMA RowStep ==
    ASSUME TypeOK, NEW f \in Requests, NEW row \in ExecRow, exec' = [exec EXCEPT ![f] = row],
           row.reserved = exec[f].reserved, row.finished = exec[f].finished,
           exec[f].attempt \in {"succeeded", "failed"} => row.attempt = exec[f].attempt,
           NEW e \in Requests
    PROVE  ExecStep(e)
<1>1. CASE e = f
  <2>1. exec'[e] = row
    BY <1>1 DEF TypeOK
  <2> QED BY <1>1, <2>1 DEF ExecStep
<1>2. CASE e # f
  <2>1. exec'[e] = exec[e] /\ exec[e] \in ExecRow
    BY <1>2 DEF TypeOK
  <2> QED BY <2>1 DEF ExecStep
<1> QED BY <1>1, <1>2

LEMMA AttemptRows ==
    ASSUME TypeOK, NEW p \in Calls, NEW e \in Requests,
           StartAttempt(p) \/ Extract(p) \/ ExtractorFails(p) \/ ReturnFailure(p)
    PROVE  ExecStep(e)
<1> DEFINE f == Req(p)
<1>1. f \in Requests
  BY LiveOrIdle DEF StartAttempt, Extract, ExtractorFails, ReturnFailure, At
<1>2. exec[f] \in ExecRow
  BY <1>1 DEF TypeOK
<1>3. ASSUME NEW status \in {"started", "succeeded", "failed"},
             exec[f].attempt \in {"succeeded", "failed"} => status = exec[f].attempt,
             exec' = [exec EXCEPT ![f].attempt = status]
      PROVE  ExecStep(e)
  <2> DEFINE row == [exec[f] EXCEPT !.attempt = status]
  <2>1. exec' = [exec EXCEPT ![f] = row]
    BY <1>1, <1>3 DEF TypeOK
  <2>2. /\ row \in ExecRow /\ row.reserved = exec[f].reserved
        /\ row.finished = exec[f].finished /\ row.attempt = status
    BY <1>2 DEF ExecRow
  <2> HIDE DEF row
  <2> QED BY <1>1, <1>3, <2>1, <2>2, RowStep
<1>4. ASSUME exec' = [exec EXCEPT ![f].failed = TRUE] PROVE ExecStep(e)
  <2> DEFINE row == [exec[f] EXCEPT !.failed = TRUE]
  <2>1. exec' = [exec EXCEPT ![f] = row]
    BY <1>1, <1>4 DEF TypeOK
  <2>2. /\ row \in ExecRow /\ row.reserved = exec[f].reserved
        /\ row.finished = exec[f].finished /\ row.attempt = exec[f].attempt
    BY <1>2 DEF ExecRow
  <2> HIDE DEF row
  <2> QED BY <1>1, <2>1, <2>2, RowStep
<1>5. ASSUME exec' = [exec EXCEPT ![f].attempt = exec[f].attempt] PROVE exec' = exec
  BY <1>1, <1>2, <1>5 DEF TypeOK, ExecRow
<1>6. CASE StartAttempt(p)
  <2>1. exec[f].attempt \in {"none", "started", "succeeded", "failed"}
    BY <1>2 DEF ExecRow
  <2> QED BY <1>3, <1>6, <2>1, RowsStay DEF StartAttempt, Fail
<1>7. CASE Extract(p)
  BY <1>3, <1>7, RowsStay DEF Extract, Fail
<1>8. CASE ExtractorFails(p)
  <2>1. CASE exec[f].attempt = "started"
    BY <1>1, <1>3, <1>8, <2>1 DEF ExtractorFails, TypeOK
  <2>2. CASE exec[f].attempt # "started"
    BY <1>1, <1>5, <1>8, <2>2, RowsStay DEF ExtractorFails, TypeOK
  <2> QED BY <2>1, <2>2
<1>9. CASE ReturnFailure(p)
  BY <1>4, <1>9, RowsStay DEF ReturnFailure
<1> QED BY <1>6, <1>7, <1>8, <1>9

LEMMA HeartRows ==
    ASSUME TypeOK, NEW p \in Calls, NEW e \in Requests, Renew(p) \/ Beat(p) \/ HeartFails(p)
    PROVE  ExecStep(e)
<1> DEFINE f == Req(p)
           seq == call[p].beats + 1
<1>1. f \in Requests /\ Live(p)
  BY LiveOrIdle DEF Renew, Beat, Inspect, Record, HeartFails
<1>2. exec[f] \in ExecRow
  BY <1>1 DEF TypeOK
<1>3. ASSUME Renew(p), exec' # exec PROVE ExecStep(e)
  <2> DEFINE row == [exec[f] EXCEPT !.renewals = exec[f].renewals \cup {seq}]
  <2>1. exec' = [exec EXCEPT ![f] = row]
    BY <1>1, <1>3 DEF Renew, TypeOK
  <2>2. seq \in 1..MaxBeats
    BY <1>1, <1>3, ExecutionAssumption DEF Renew, Live, LiveCall, Call
  <2>3. /\ row \in ExecRow /\ row.reserved = exec[f].reserved
        /\ row.finished = exec[f].finished /\ row.attempt = exec[f].attempt
    BY <1>2, <2>2 DEF ExecRow
  <2> HIDE DEF row
  <2> QED BY <1>1, <2>1, <2>3, RowStep
<1>4. ASSUME Record(p), exec' # exec PROVE ExecStep(e)
  <2> DEFINE count == Counted(exec[f].beats, seq)
             row == [exec[f] EXCEPT !.beats = count]
  <2>1. exec' = [exec EXCEPT ![f] = row]
    BY <1>1, <1>4 DEF Record, TypeOK
  <2>2. seq \in 0..MaxBeats /\ exec[f].beats \in 0..MaxBeats
    BY <1>1, <1>2, <1>4, ExecutionAssumption DEF Record, Live, LiveCall, Call, ExecRow
  <2>3. count \in 0..MaxBeats
    BY <2>2 DEF Counted
  <2> HIDE DEF count
  <2>4. /\ row \in ExecRow /\ row.reserved = exec[f].reserved
        /\ row.finished = exec[f].finished /\ row.attempt = exec[f].attempt
    BY <1>2, <2>3 DEF ExecRow
  <2> HIDE DEF row
  <2> QED BY <1>1, <2>1, <2>4, RowStep
<1>5. CASE UNCHANGED exec
  BY <1>5, RowsStay
<1> QED BY <1>3, <1>4, <1>5 DEF Beat, Inspect, HeartFails

LEMMA FinishRows ==
    ASSUME TypeOK, NEW p \in Calls, NEW e \in Requests, Finish(p) PROVE ExecStep(e)
<1> DEFINE f == Req(p)
           row == [exec[f] EXCEPT !.finished = TRUE]
<1>1. f \in Requests /\ Live(p) /\ call[p].pc = "finish"
  BY LiveOrIdle DEF Finish, At
<1>2. exec[f] \in ExecRow
  BY <1>1 DEF TypeOK
<1>3. /\ row \in ExecRow /\ row.reserved = exec[f].reserved /\ row.attempt = exec[f].attempt
  BY <1>2 DEF ExecRow
<1>4. CASE exec' = [exec EXCEPT ![f] = row] /\ ~ exec[f].finished /\ MayFinish(f)
  <2>1. work'.status = "succeeded" /\ work'.claim = work.claim
    BY <1>4 DEF Finish, TypeOK, WorkRow
  <2>2. CASE e = f
    <3>1. exec'[e] = row
      BY <1>4, <2>2 DEF TypeOK
    <3> HIDE DEF row
    <3> QED BY <1>1, <1>3, <1>4, <2>1, <2>2, <3>1 DEF ExecStep, MayFinish
  <2>3. CASE e # f
    <3>1. exec'[e] = exec[e] /\ exec[e] \in ExecRow
      BY <1>4, <2>3 DEF TypeOK
    <3> QED BY <3>1 DEF ExecStep
  <2> QED BY <2>2, <2>3
<1>5. CASE exec' = [exec EXCEPT ![f] = row] /\ exec[f].finished
  <2>1. row.finished = exec[f].finished
    BY <1>2, <1>5 DEF ExecRow
  <2> HIDE DEF row
  <2> QED BY <1>1, <1>3, <1>5, <2>1, RowStep
<1>6. CASE UNCHANGED exec
  BY <1>6, RowsStay
<1> QED BY <1>1, <1>4, <1>5, <1>6 DEF Finish, Fail, TypeOK

LEMMA ReserveRows ==
    ASSUME TypeOK, NEW p \in Calls, NEW f \in Requests, Reserve(p, f), NEW e \in Requests
    PROVE  ExecStep(e)
<1> DEFINE row == [exec[f] EXCEPT !.reserved = TRUE]
<1>1. exec' = [exec EXCEPT ![f] = row]
  BY DEF Reserve, TypeOK
<1>2. /\ row \in ExecRow /\ row.reserved /\ row.attempt = exec[f].attempt
      /\ row.finished = exec[f].finished
  BY DEF TypeOK, ExecRow
<1> HIDE DEF row
<1>3. CASE e = f
  <2>1. exec'[e] = row
    BY <1>1, <1>3 DEF TypeOK
  <2>2. \A g \in Requests : g # e => exec'[g] = exec[g]
    BY <1>1, <1>3 DEF TypeOK
  <2> QED BY <1>2, <1>3, <2>1, <2>2 DEF ExecStep, Reserve
<1>4. CASE e # f
  <2>1. exec'[e] = exec[e] /\ exec[e] \in ExecRow
    BY <1>1, <1>4 DEF TypeOK
  <2> QED BY <2>1 DEF ExecStep
<1> QED BY <1>3, <1>4

LEMMA EveryExecStep == ASSUME TypeOK, [Next]_vars, NEW e \in Requests PROVE ExecStep(e)
<1>1. CASE UNCHANGED exec
  BY <1>1, RowsStay
<1>2. ASSUME NEW p \in Calls, Step(p) PROVE ExecStep(e)
  BY <1>1, <1>2, AttemptRows, FinishRows DEF Step, Wait, Refresh, Fail, Decide, Stop
<1> QED BY <1>1, <1>2, AttemptRows, HeartRows, ReserveRows
        DEF Next, vars, Replay, Fails, Fail, Dies, Claim, LeaseElapses, RenewByHand, Release,
            FinishByHand

-----------------------------------------------------------------------------
(* The invariants.  A claim is reserved by one request, for good; a request *)
(* has one owner, for good; a replay comes to the extraction only once the  *)
(* attempt has ended or the item no longer runs under the claim.            *)

ReservationsStand ==
    /\ \A e \in Requests : exec[e].reserved => ClaimOf[e] <= work.claim
    /\ \A e, f \in Requests :
          exec[e].reserved /\ exec[f].reserved /\ ClaimOf[e] = ClaimOf[f] => e = f
    /\ \A p \in Calls : Live(p) => exec[Req(p)].reserved

OneOwner ==
    \A p, q \in Calls :
        Live(p) /\ Live(q) /\ call[p].owner /\ call[q].owner /\ Req(p) = Req(q) => p = q

\* A replay whose claim the item runs under has an answer before it decides.
ReplaysAnswered ==
    \A p \in Calls : Live(p) /\ ~ call[p].owner /\ Claimed(Req(p), "running") =>
        /\ call[p].pc = "decide" => Answered(p)
        /\ call[p].pc = "attempt" => exec[Req(p)].attempt \in {"succeeded", "failed"}
        /\ call[p].pc # "extract"

\* A call on its way to the finish has a stored result.
ResultStored ==
    \A p \in Calls : Live(p) /\ call[p].pc \in {"stop", "finish"}
                        => exec[Req(p)].attempt = "succeeded"

ExecInv == /\ TypeOK /\ ReplaysWait /\ ReservationsStand /\ OneOwner /\ ReplaysAnswered
           /\ ResultStored /\ SuccessIsDurable

LEMMA ExecInit == Init => ExecInv
<1> SUFFICES ASSUME Init PROVE ExecInv
  OBVIOUS
<1>1. TypeOK
  BY ExecutionAssumption DEF Init, TypeOK, WorkRow, ExecRow
<1>2. \A p \in Calls : ~ Live(p)
  BY <1>1, LiveOrIdle DEF Init
<1>3. \A e \in Requests : ~ exec[e].reserved /\ ~ exec[e].finished
  BY DEF Init
<1> QED BY <1>1, <1>2, <1>3 DEF ExecInv, ReplaysWait, ReservationsStand, OneOwner,
                                ReplaysAnswered, ResultStored, SuccessIsDurable

\* The two tables of records stay functions of their keys.
LEMMA Shapes ==
    ASSUME TypeOK, [Next]_vars
    PROVE  /\ exec' = [e \in Requests |-> exec'[e]]
           /\ call' = [p \in Calls |-> call'[p]]
<1>1. ASSUME NEW f \in Requests, NEW row, exec' = [exec EXCEPT ![f] = row]
      PROVE  exec' = [e \in Requests |-> exec'[e]]
  BY <1>1 DEF TypeOK
<1>2. ASSUME NEW p \in Calls, NEW c, call' = [call EXCEPT ![p] = c]
      PROVE  call' = [q \in Calls |-> call'[q]]
  BY <1>2 DEF TypeOK
<1>3. ASSUME NEW p \in Calls, Step(p)
      PROVE  /\ exec' = [e \in Requests |-> exec'[e]]
             /\ call' = [q \in Calls |-> call'[q]]
  <2>1. CASE StartAttempt(p)
    <3>1. exec[Req(p)].attempt \in {"none", "started", "succeeded", "failed"}
      BY <2>1, LiveOrIdle DEF StartAttempt, At, TypeOK, ExecRow
    <3> QED BY <2>1, <3>1 DEF StartAttempt, Fail, Failing, Goto, TypeOK
  <2> QED BY <1>3, <2>1 DEF Step, Wait, Refresh, Fail, Failing, Goto, Return, Decide, Extract,
                            Stop, Finish, ReturnFailure, TypeOK
<1>4. ASSUME NEW p \in Calls,
             \/ \E e \in Requests : Reserve(p, e) \/ Replay(p, e)
             \/ ExtractorFails(p) \/ Fails(p) \/ Dies(p)
             \/ Renew(p) \/ Beat(p) \/ HeartFails(p)
      PROVE  /\ exec' = [e \in Requests |-> exec'[e]]
             /\ call' = [q \in Calls |-> call'[q]]
  BY <1>4 DEF Reserve, Replay, ExtractorFails, Fails, Fail, Failing, Dies, Return, Renew, Beat,
              Inspect, Record, HeartFails, Heart, TypeOK
<1> QED BY <1>3, <1>4 DEF Next, vars, Claim, LeaseElapses, RenewByHand, Release, FinishByHand,
                          TypeOK

LEMMA TypeStep == ASSUME TypeOK, ReplaysWait, [Next]_vars PROVE TypeOK'
<1>1. work' \in WorkRow
  BY EveryWorkStep DEF WorkStep
<1>2. \A e \in Requests : exec'[e] \in ExecRow
  BY EveryExecStep DEF ExecStep
<1>3. \A q \in Calls : call'[q] \in LiveCall \cup {Idle}
  BY EveryCallStep DEF CallStep
<1> QED BY <1>1, <1>2, <1>3, Shapes DEF TypeOK
\* Once the item has left a claim it has reached, it never runs under it again.
LEMMA NeverRunsAgain ==
    ASSUME TypeOK, [Next]_vars, NEW e \in Requests, ClaimOf[e] <= work.claim,
           Claimed(e, "running")'
    PROVE  Claimed(e, "running")
<1>1. work.claim \in Nat /\ work'.claim \in Nat /\ ClaimOf[e] \in Nat
  BY EveryWorkStep, ExecutionAssumption DEF WorkStep, TypeOK, WorkRow
<1> QED BY <1>1, EveryWorkStep DEF WorkStep, Claimed

LEMMA WaitStep == ASSUME TypeOK, ReplaysWait, [Next]_vars PROVE ReplaysWait'
<1> SUFFICES ASSUME NEW p \in Calls, Live(p)', call'[p].pc \in {"wait", "refresh", "decide"}
             PROVE  call'[p].owner = FALSE
  BY DEF ReplaysWait
<1>1. call'[p] # Idle
  BY TypeStep, LiveOrIdle DEF Live, Idle, LiveCall, Call
<1>2. CASE Begins(p)
  BY <1>2 DEF Begins
<1>3. CASE Live(p) /\ Moves(p)
  <2>1. call[p].owner \in BOOLEAN
    BY <1>3 DEF Live, LiveCall, Call
  <2> QED BY <1>3, <2>1 DEF Moves, ReplaysWait
<1> QED BY <1>1, <1>2, <1>3, EveryCallStep DEF CallStep

LEMMA ReservationStep ==
    ASSUME TypeOK, ReplaysWait, ReservationsStand, [Next]_vars PROVE ReservationsStand'
<1>1. work.claim \in Nat /\ work'.claim \in Nat /\ work.claim <= work'.claim
  BY EveryWorkStep, ExecutionAssumption DEF WorkStep, TypeOK, WorkRow
<1>2. ASSUME NEW e \in Requests, exec'[e].reserved PROVE ClaimOf[e] <= work'.claim
  <2>1. ClaimOf[e] \in Nat
    BY ExecutionAssumption
  <2>2. CASE exec[e].reserved
    BY <1>1, <2>1, <2>2 DEF ReservationsStand
  <2>3. CASE ~ exec[e].reserved
    BY <1>1, <1>2, <2>1, <2>3, EveryExecStep DEF ExecStep, MayOwn, Leased, Claimed
  <2> QED BY <2>2, <2>3
<1>3. ASSUME NEW e \in Requests, NEW f \in Requests,
             exec'[e].reserved, exec'[f].reserved, ClaimOf[e] = ClaimOf[f], e # f,
             ~ exec[e].reserved
      PROVE  FALSE
  <2>1. MayOwn(e) /\ exec'[f] = exec[f]
    BY <1>3, EveryExecStep DEF ExecStep
  <2> QED BY <1>3, <2>1 DEF MayOwn
<1>4. ASSUME NEW p \in Calls, Live(p)' PROVE exec'[Req(p)'].reserved
  <2>1. call'[p] # Idle
    BY <1>4 DEF Live, Idle, LiveCall, Call
  <2>2. CASE Begins(p)
    BY <2>2 DEF Begins, Req, TypeOK, ExecRow
  <2>3. CASE Live(p) /\ Moves(p)
    <3>1. Req(p)' = Req(p) /\ Req(p) \in Requests /\ exec[Req(p)].reserved
      BY <2>3, LiveOrIdle DEF Moves, Req, ReservationsStand
    <3> QED BY <3>1, EveryExecStep DEF ExecStep
  <2> QED BY <2>1, <2>2, <2>3, EveryCallStep DEF CallStep
<1> QED BY <1>2, <1>3, <1>4 DEF ReservationsStand

LEMMA OwnerStep ==
    ASSUME TypeOK, ReplaysWait, ReservationsStand, OneOwner, [Next]_vars PROVE OneOwner'
<1>1. ASSUME NEW p \in Calls, NEW q \in Calls, p # q, Live(p)', Live(q)',
             call'[p].owner, call'[q].owner, Req(p)' = Req(q)', Begins(p)
      PROVE  FALSE
  <2>1. PICK e \in Requests :
          /\ call'[p].req = e /\ ~ exec[e].reserved
          /\ \A r \in Calls : r # p => call'[r] = call[r]
    BY <1>1 DEF Begins
  <2>2. Live(q) /\ Req(q) = e
    BY <1>1, <2>1 DEF Live, Req
  <2> QED BY <2>1, <2>2 DEF ReservationsStand
<1>2. ASSUME NEW p \in Calls, Live(p)'
      PROVE  \/ Begins(p)
             \/ Live(p) /\ call'[p].owner = call[p].owner /\ Req(p)' = Req(p)
  <2>1. call'[p] # Idle
    BY <1>2 DEF Live, Idle, LiveCall, Call
  <2> QED BY <2>1, EveryCallStep DEF CallStep, Moves, Req
<1> SUFFICES ASSUME NEW p \in Calls, NEW q \in Calls, Live(p)', Live(q)',
                    call'[p].owner, call'[q].owner, Req(p)' = Req(q)'
             PROVE  p = q
  BY DEF OneOwner
<1>3. CASE Begins(p) \/ Begins(q)
  BY <1>1, <1>3
<1>4. CASE ~ Begins(p) /\ ~ Begins(q)
  BY <1>2, <1>4 DEF OneOwner
<1> QED BY <1>3, <1>4

LEMMA AnsweredStep ==
    ASSUME TypeOK, ReplaysWait, ReservationsStand, ReplaysAnswered, [Next]_vars
    PROVE  ReplaysAnswered'
<1> SUFFICES ASSUME NEW p \in Calls, Live(p)', ~ call'[p].owner, Claimed(Req(p), "running")'
             PROVE  /\ call'[p].pc = "decide" => Answered(p)'
                    /\ call'[p].pc = "attempt" =>
                          exec'[Req(p)'].attempt \in {"succeeded", "failed"}
                    /\ call'[p].pc # "extract"
  BY DEF ReplaysAnswered
<1>1. call'[p] # Idle
  BY DEF Live, Idle, LiveCall, Call
<1>2. CASE Begins(p)
  <2>1. PICK e \in Requests :
          /\ call'[p].req = e /\ call'[p].pc \in {"wait", "decide"}
          /\ call'[p].pc = "decide" => ~ Claimed(e, "running")
          /\ UNCHANGED <<work, exec>>
    BY <1>2 DEF Begins
  <2> QED BY <2>1 DEF Claimed, Req
<1>3. CASE Live(p) /\ Moves(p)
  <2> DEFINE e == Req(p)
  <2>1. e \in Requests /\ Req(p)' = e /\ ~ call[p].owner /\ ClaimOf[e] <= work.claim
    BY <1>3, LiveOrIdle DEF Moves, Req, ReservationsStand
  <2>2. Claimed(e, "running")
    BY <2>1, NeverRunsAgain DEF Claimed
  <2>3. /\ call[p].pc = "decide" => exec[e].attempt \in {"succeeded", "failed"} \/ call[p].seen
        /\ call[p].pc = "attempt" => exec[e].attempt \in {"succeeded", "failed"}
        /\ call[p].pc # "extract"
    BY <1>3, <2>1, <2>2 DEF ReplaysAnswered, Answered
  <2>4. exec[e].attempt \in {"succeeded", "failed"} => exec'[e].attempt = exec[e].attempt
    BY <2>1, EveryExecStep DEF ExecStep
  <2>5. Answered(p) <=> exec[e].attempt \in {"succeeded", "failed"} \/ call[p].seen
    BY DEF Answered
  <2>6. Answered(p)' <=> exec'[e].attempt \in {"succeeded", "failed"} \/ call'[p].seen
    BY <2>1 DEF Answered
  <2>7. CASE call'[p].pc = call[p].pc /\ call'[p].seen = call[p].seen
    BY <2>1, <2>3, <2>4, <2>6, <2>7
  <2>8. CASE call'[p].pc = "decide" /\ call[p].pc # "decide"
    BY <1>3, <2>2, <2>5, <2>6, <2>8 DEF Moves
  <2>9. CASE call'[p].pc = "attempt" /\ call[p].pc # "attempt"
    BY <1>3, <2>1, <2>3, <2>4, <2>9 DEF Moves, RepeatsFailure, At
  <2>10. CASE call'[p].pc = "extract" /\ call[p].pc # "extract"
    BY <1>3, <2>3, <2>10 DEF Moves
  <2> QED BY <1>3, <2>1, <2>2, <2>3, <2>7, <2>8, <2>9, <2>10 DEF Moves
<1> QED BY <1>1, <1>2, <1>3, EveryCallStep DEF CallStep

LEMMA ResultStep ==
    ASSUME TypeOK, ReplaysWait, ResultStored, [Next]_vars PROVE ResultStored'
<1> SUFFICES ASSUME NEW p \in Calls, Live(p)', call'[p].pc \in {"stop", "finish"}
             PROVE  exec'[Req(p)'].attempt = "succeeded"
  BY DEF ResultStored
<1>1. call'[p] # Idle
  BY DEF Live, Idle, LiveCall, Call
<1>2. ~ Begins(p)
  BY DEF Begins
<1>3. Live(p) /\ Moves(p)
  BY <1>1, <1>2, EveryCallStep DEF CallStep
<1>4. Req(p)' = Req(p) /\ Req(p) \in Requests
  BY <1>3, LiveOrIdle DEF Moves, Req
<1>5. CASE exec[Req(p)].attempt = "succeeded"
  BY <1>4, <1>5, EveryExecStep DEF ExecStep
<1>6. CASE call[p].pc \notin {"stop", "finish"}
  BY <1>3, <1>4, <1>6 DEF Moves
<1> QED BY <1>3, <1>5, <1>6 DEF ResultStored

LEMMA DurableStep ==
    ASSUME TypeOK, ResultStored, SuccessIsDurable, [Next]_vars PROVE SuccessIsDurable'
<1> SUFFICES ASSUME NEW e \in Requests, exec'[e].finished
             PROVE  Claimed(e, "succeeded")' /\ exec'[e].attempt = "succeeded"
  BY DEF SuccessIsDurable
<1>1. CASE exec[e].finished
  BY <1>1, EveryWorkStep, EveryExecStep DEF WorkStep, ExecStep, Claimed, SuccessIsDurable
<1>2. CASE ~ exec[e].finished
  BY <1>2, EveryExecStep DEF ExecStep, ResultStored, Leased, Claimed
<1> QED BY <1>1, <1>2

LEMMA ExecAlways == Spec => []ExecInv
<1>1. ExecInv /\ [Next]_vars => ExecInv'
  BY TypeStep, WaitStep, ReservationStep, OwnerStep, AnsweredStep, ResultStep, DurableStep
  DEF ExecInv
<1> QED BY <1>1, ExecInit, PTL DEF Spec

\* Neither a replay, after whatever crash, nor a second request runs the
\* extractor beside the call that runs it for the claim the item runs under.
THEOREM OneCallExtracts == Spec => []OneExtractor
<1>1. ExecInv => OneExtractor
  <2> SUFFICES ASSUME ExecInv, NEW p \in Calls, NEW q \in Calls,
                      At(p, "extract"), At(q, "extract"),
                      Claimed(Req(p), "running"), Claimed(Req(q), "running")
               PROVE  p = q
    BY DEF OneExtractor
  <2>1. Live(p) /\ Live(q) /\ Req(p) \in Requests /\ Req(q) \in Requests
    BY LiveOrIdle DEF ExecInv, At
  <2>2. call[p].owner /\ call[q].owner
    BY <2>1 DEF ExecInv, ReplaysAnswered, At
  <2>3. Req(p) = Req(q)
    BY <2>1 DEF ExecInv, ReservationsStand, Claimed
  <2> QED BY <2>1, <2>2, <2>3 DEF ExecInv, OneOwner
<1> QED BY <1>1, ExecAlways, PTL

\* A call that returns success has stored, or found, the finish of its own
\* claim, and nothing the others do to leases, items or requests undoes it.
THEOREM SuccessLasts == Spec => []SuccessIsDurable
<1>1. ExecInv => SuccessIsDurable
  BY DEF ExecInv
<1> QED BY <1>1, ExecAlways, PTL

=============================================================================

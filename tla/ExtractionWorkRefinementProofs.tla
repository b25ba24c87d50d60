------------------- MODULE ExtractionWorkRefinementProofs -------------------
(* The tables implement WorkQueue, stream by stream: each transaction is    *)
(* one step of the abstract queue of its stream, or none.                   *)
EXTENDS ExtractionWorkProofs

-----------------------------------------------------------------------------
(* No item is scheduled beyond the newest observation, and superseding      *)
(* points forward.                                                          *)

NotBeyondLatest == \A w \in Works : work[w].status # "absent" => ObsOf(w) <= latest[w[1]]

LEMMA WorkParts ==
    ASSUME NEW w \in Works
    PROVE  /\ w[1] \in Repos /\ w[2] \in Extractors /\ StreamOf(w) \in Streams
           /\ ObsOf(w) \in Observations /\ ObsOf(w) \in Nat
           /\ w = <<StreamOf(w)[1], StreamOf(w)[2], ObsOf(w)>>
  BY DEF Works, StreamOf, ObsOf, Streams, Observations

LEMMA ScheduleStatus ==
    ASSUME Typed, NEW r \in Repos, NEW x \in Extractors, Schedule(r, x)
    PROVE  LET w == <<r, x, latest[r]>> IN
           /\ w \in Works /\ ObsOf(w) = latest[r] /\ StreamOf(w) = <<r, x>>
           /\ work[w].status = "absent" /\ UNCHANGED <<latest, attempt>>
           /\ work'[w].status = "pending"
           /\ \A v \in Works : v # w =>
                IF StreamOf(v) = <<r, x>> /\ work[v].status = "pending"
                  THEN work'[v].status = "superseded" /\ work'[v].supersededBy = w
                  ELSE work'[v] = work[v]
<1> DEFINE w == <<r, x, latest[r]>>
<1>1. w \in Works /\ ObsOf(w) = latest[r] /\ StreamOf(w) = <<r, x>>
  BY ObservationAssumption DEF Schedule, Works, Observations, StreamOf, ObsOf
<1>2. [BlankWork EXCEPT !.status = "pending"].status = "pending"
  BY DEF BlankWork
<1>3. /\ [BlankWork EXCEPT !.status = "superseded", !.supersededBy = w].status = "superseded"
      /\ [BlankWork EXCEPT !.status = "superseded", !.supersededBy = w].supersededBy = w
  BY DEF BlankWork
<1>4. work[w].status = "absent" /\ UNCHANGED <<latest, attempt>>
  BY DEF Schedule, envVars
<1>5. w \notin Pending(work, <<r, x>>)
  BY <1>4 DEF Pending
<1>6. work'[w].status = "pending"
  BY <1>1, <1>2, <1>5 DEF Schedule
<1>7. ASSUME NEW v \in Works, v # w
      PROVE  IF StreamOf(v) = <<r, x>> /\ work[v].status = "pending"
               THEN work'[v].status = "superseded" /\ work'[v].supersededBy = w
               ELSE work'[v] = work[v]
  <2>1. v \in Pending(work, <<r, x>>) <=> StreamOf(v) = <<r, x>> /\ work[v].status = "pending"
    BY DEF Pending, InStream
  <2> QED BY <1>3, <1>7, <2>1 DEF Schedule
<1> QED BY <1>1, <1>4, <1>6, <1>7

\* Which item a step other than scheduling rewrites, and what was there.
Rewrites(w, from, to) ==
    /\ work' = [work EXCEPT ![w] = work'[w]]
    /\ work[w].status = from /\ work'[w].status = to

\* A step releases item w when it sends it where GoesBehind says.
Releases(w, next) ==
    /\ work[w].status \in {"running", "failed"}
    /\ GoesBehind(w, next)
    /\ work' = [work EXCEPT ![w] = ReleasedRow(next)]

LEMMA ItemStep ==
    ASSUME Typed, Typed', [Next]_vars
    PROVE  \/ UNCHANGED work /\ \A c \in Claims : attempt'[c].status = "absent"
                                                   <=> attempt[c].status = "absent"
           \/ \E r \in Repos, x \in Extractors : Schedule(r, x)
           \/ \E w \in Works, n \in AttemptNumbers :
                /\ Rewrites(w, "pending", "running") /\ work'[w].claim = n
                /\ Running(work, StreamOf(w)) = {}
                /\ attempt[<<w, n>>].status = "absent" /\ attempt'[<<w, n>>].status # "absent"
                /\ attempt' = [attempt EXCEPT ![<<w, n>>] = attempt'[<<w, n>>]]
           \/ /\ \A c \in Claims : attempt'[c].status = "absent" <=> attempt[c].status = "absent"
              /\ \E w \in Works :
                   \/ Rewrites(w, "running", "succeeded")
                   \/ Rewrites(w, "running", "failed")
                   \/ \E next \in Opt(Works) : Releases(w, next)
<1>1. ASSUME UNCHANGED attempt \/ \E t \in Stamps, c \in Claims : ClaimStep(c, t)
      PROVE  \A c \in Claims : attempt'[c].status = "absent" <=> attempt[c].status = "absent"
  BY <1>1, AttemptClaimStep DEF Continued
<1>2. ASSUME NEW t \in Stamps, NEW w \in Works, NEW n \in AttemptNumbers, NEW k \in Workers,
             NEW d \in LeaseDurations, Claim(w, n, k, d, t)
      PROVE  /\ Rewrites(w, "pending", "running") /\ work'[w].claim = n
             /\ Running(work, StreamOf(w)) = {}
             /\ attempt[<<w, n>>].status = "absent" /\ attempt'[<<w, n>>].status # "absent"
             /\ attempt' = [attempt EXCEPT ![<<w, n>>] = attempt'[<<w, n>>]]
  <2>1. work[w].status = "pending" /\ Running(work, StreamOf(w)) = {}
    BY <1>2 DEF Claim
  <2> QED BY <1>2, <2>1, ClaimRewrites DEF Rewrites
<1>3. ASSUME NEW t \in Stamps, NEW c \in Claims, NEW k \in Workers,
             \/ FinishSucceeded(c, k, t)
             \/ \E f \in FailureClasses : FinishFailed(c, k, f, t)
      PROVE  Rewrites(c[1], "running", "succeeded") \/ Rewrites(c[1], "running", "failed")
  <2>1. work[c[1]].status = "running"
    BY <1>3 DEF FinishSucceeded, FinishFailed, MayFinish, HoldsClaim
  <2> QED BY <1>3, <2>1, FinishRewrites DEF Rewrites
<1>4. ASSUME NEW t \in Stamps, NEW c \in Claims, NEW next \in Opt(Works), Recover(c, next, t)
      PROVE  Releases(c[1], next)
  BY <1>4 DEF Recover, HoldsClaim, Releases
<1>5. ASSUME NEW t \in Stamps, NEW c \in Claims, NEW next \in Opt(Works),
             \E kind \in {"retry", "consumption"} : ReleaseFailed(c, next, kind, t)
      PROVE  Releases(c[1], next) /\ UNCHANGED attempt
  BY <1>5 DEF ReleaseFailed, FailedClaim, Releases
<1>6. \A c \in Claims : c[1] \in Works
  BY ClaimPair
<1>7. ASSUME NEW t \in Stamps, NEW c \in Claims, ClaimStep(c, t)
      PROVE  \/ UNCHANGED work
             \/ Rewrites(c[1], "running", "succeeded")
             \/ Rewrites(c[1], "running", "failed")
             \/ \E next \in Opt(Works) : Releases(c[1], next)
  BY <1>3, <1>4, <1>5, <1>7 DEF ClaimStep, Renew, Retry, Classify
<1>8. ASSUME NEW t \in Stamps, NEW e \in decisions, NEW next \in Opt(Works),
             ConsumeDecision(e, next, t)
      PROVE  UNCHANGED attempt /\ e.claim[1] \in Works /\ Releases(e.claim[1], next)
  <2>1. e.claim \in Claims
    BY DEF Typed, TypeOK, Decision
  <2> QED BY <1>5, <1>6, <1>8, <2>1 DEF ConsumeDecision
<1> QED BY <1>1, <1>2, <1>6, <1>7, <1>8
        DEF Next, vars, Tick, ObserveChange, ObserveStable, CreateGeneration

LEMMA LatestGrows ==
    ASSUME Typed, [Next]_vars, NEW r \in Repos
    PROVE  latest[r] \in Nat /\ latest'[r] \in Nat /\ latest[r] <= latest'[r]
<1>1. latest[r] \in Nat
  BY BoundsAssumption DEF Typed, TypeOK
<1>2. CASE UNCHANGED latest
  BY <1>1, <1>2
<1>3. ASSUME NEW q \in Repos, ObserveChange(q) PROVE latest'[r] \in Nat /\ latest[r] <= latest'[r]
  BY <1>1, <1>3, BoundsAssumption DEF ObserveChange, Typed, TypeOK
<1>4. ASSUME NEW t \in Stamps, NEW c \in Claims, ClaimStep(c, t) PROVE UNCHANGED latest
  BY <1>4 DEF ClaimStep, Renew, FinishSucceeded, FinishFailed, Recover, Retry, ReleaseFailed,
              Classify, envVars
<1>5. ASSUME Tick \/ \E q \in Repos : ObserveStable(q) PROVE UNCHANGED latest
  BY <1>5 DEF Tick, ObserveStable
<1>6. ASSUME NEW q \in Repos, NEW x \in Extractors,
             Schedule(q, x) \/ \E o \in Observations : CreateGeneration(q, x, o)
      PROVE  UNCHANGED latest
  BY <1>6 DEF Schedule, CreateGeneration, envVars
<1>7. ASSUME NEW t \in Stamps, NEW w \in Works, NEW n \in AttemptNumbers, NEW k \in Workers,
             NEW d \in LeaseDurations, Claim(w, n, k, d, t)
      PROVE  UNCHANGED latest
  BY <1>7 DEF Claim, envVars
<1>8. ASSUME NEW t \in Stamps, NEW e \in decisions, NEW next \in Opt(Works),
             ConsumeDecision(e, next, t)
      PROVE  UNCHANGED latest
  BY <1>8 DEF ConsumeDecision, ReleaseFailed, envVars
<1>9. Next => UNCHANGED latest \/ \E q \in Repos : ObserveChange(q)
  BY <1>4, <1>5, <1>6, <1>7, <1>8 DEF Next
<1> QED BY <1>1, <1>2, <1>3, <1>9 DEF vars

LEMMA ReleasedStatus ==
    ASSUME Typed, NEW w \in Works, NEW next \in Opt(Works), Releases(w, next)
    PROVE  /\ work'[w] = ReleasedRow(next)
           /\ \A v \in Works : v # w => work'[v] = work[v]
  BY DEF Releases, Typed, TypeOK

LEMMA BeyondStep ==
    ASSUME Typed, Typed', [Next]_vars, NotBeyondLatest PROVE NotBeyondLatest'
<1> SUFFICES ASSUME NEW v \in Works, work'[v].status # "absent"
             PROVE  ObsOf(v) <= latest'[v[1]]
  BY DEF NotBeyondLatest
<1>1. v[1] \in Repos /\ ObsOf(v) \in Nat
  BY WorkParts
<1>2. CASE work[v].status # "absent"
  BY <1>1, <1>2, LatestGrows DEF NotBeyondLatest
<1>3. CASE work[v].status = "absent"
  <2>1. ASSUME NEW r \in Repos, NEW x \in Extractors, Schedule(r, x)
        PROVE  ObsOf(v) <= latest'[v[1]]
    <3>1. CASE v = <<r, x, latest[r]>>
      BY <1>1, <2>1, <3>1, ScheduleStatus, LatestGrows
    <3>2. CASE v # <<r, x, latest[r]>>
      BY <1>3, <2>1, <3>2, ScheduleStatus
    <3> QED BY <3>1, <3>2
  <2>2. ASSUME NEW w \in Works, work' = [work EXCEPT ![w] = work'[w]], work[w].status # "absent"
        PROVE  FALSE
    BY <1>3, <2>2 DEF Typed, TypeOK
  <2>3. ASSUME NEW w \in Works, NEW next \in Opt(Works), Releases(w, next) PROVE FALSE
    BY <1>3, <2>3, ReleasedStatus DEF Releases
  <2>4. ASSUME NEW w \in Works, NEW a, a # "absent", NEW b, Rewrites(w, a, b) PROVE FALSE
    BY <2>2, <2>4 DEF Rewrites
  <2>5. ASSUME NEW w \in Works,
               \/ Rewrites(w, "pending", "running")
               \/ Rewrites(w, "running", "succeeded")
               \/ Rewrites(w, "running", "failed")
        PROVE  FALSE
    BY <2>4, <2>5
  <2>6. ~ UNCHANGED work
    BY <1>3
  <2> QED BY <2>1, <2>3, <2>5, <2>6, ItemStep
<1> QED BY <1>2, <1>3

LEMMA BeyondAlways == Spec => []NotBeyondLatest
<1>1. Init => NotBeyondLatest
  BY DEF Init, NotBeyondLatest, BlankWork
<1> QED BY <1>1, BeyondStep, TypedAlways, PTL DEF Spec

\* The item a release goes behind is a newer one of the same stream.
LEMMA GoesBehindNewer ==
    ASSUME NEW w \in Works, NEW next \in Opt(Works), GoesBehind(w, next), next # Null
    PROVE  /\ next \in Works /\ StreamOf(next) = StreamOf(w) /\ ObsOf(next) > ObsOf(w)
           /\ work[next].status = "pending"
  BY DEF GoesBehind, Pending, InStream

\* Superseded items form chains that only lead to newer observations, so the
\* newest scheduled observation of a stream is never given up.
THEOREM SupersededPointsForward == Spec => []SupersededByNewer
<1>1. Init => SupersededByNewer
  BY DEF Init, SupersededByNewer, BlankWork
<1>2. ASSUME Typed, Typed', NotBeyondLatest, SupersededByNewer, [Next]_vars
      PROVE  SupersededByNewer'
  <2> SUFFICES ASSUME NEW v \in Works, work'[v].status = "superseded"
               PROVE  LET by == work'[v].supersededBy IN
                      /\ by \in Works /\ StreamOf(by) = StreamOf(v) /\ ObsOf(by) > ObsOf(v)
                      /\ work'[by].status # "absent"
    BY DEF SupersededByNewer
  <2> DEFINE by == work'[v].supersededBy
  <2>1. ASSUME NEW u \in Works, work[u].status # "absent" PROVE work'[u].status # "absent"
    <3>1. ASSUME NEW r \in Repos, NEW x \in Extractors, Schedule(r, x)
          PROVE  work'[u].status # "absent"
      BY <1>2, <2>1, <3>1, ScheduleStatus
    <3>2. ASSUME NEW w \in Works, NEW a, NEW b, b # "absent", Rewrites(w, a, b)
          PROVE  work'[u].status # "absent"
      BY <1>2, <2>1, <3>2 DEF Rewrites, Typed, TypeOK
    <3>3. ASSUME NEW w \in Works,
                 \/ Rewrites(w, "pending", "running")
                 \/ Rewrites(w, "running", "succeeded")
                 \/ Rewrites(w, "running", "failed")
          PROVE  work'[u].status # "absent"
      BY <3>2, <3>3
    <3>4. ASSUME NEW w \in Works, NEW next \in Opt(Works), Releases(w, next)
          PROVE  work'[u].status # "absent"
      BY <1>2, <2>1, <3>4, ReleasedStatus, ReleasedRowShape
    <3> QED BY <1>2, <2>1, <3>1, <3>3, <3>4, ItemStep
  <2>2. CASE work'[v] = work[v]
    BY <1>2, <2>1, <2>2 DEF SupersededByNewer
  <2>3. ASSUME NEW r \in Repos, NEW x \in Extractors, Schedule(r, x), work'[v] # work[v]
        PROVE  /\ by \in Works /\ StreamOf(by) = StreamOf(v) /\ ObsOf(by) > ObsOf(v)
               /\ work'[by].status # "absent"
    <3> DEFINE w == <<r, x, latest[r]>>
    <3>1. /\ w \in Works /\ ObsOf(w) = latest[r] /\ StreamOf(w) = <<r, x>>
          /\ work'[w].status = "pending"
      BY <1>2, <2>3, ScheduleStatus
    <3>2. v # w
      BY <3>1
    <3>3. StreamOf(v) = <<r, x>> /\ work[v].status = "pending" /\ by = w
      BY <1>2, <2>3, <3>2, ScheduleStatus
    <3>4. ObsOf(v) <= latest[r] /\ ObsOf(v) # latest[r] /\ ObsOf(v) \in Nat /\ latest[r] \in Nat
      <4>1. v[1] = r /\ v[2] = x /\ v = <<r, x, ObsOf(v)>>
        BY <3>3, WorkParts DEF StreamOf
      <4> QED BY <1>2, <3>2, <3>3, <4>1, WorkParts, LatestGrows DEF NotBeyondLatest
    <3> QED BY <3>1, <3>3, <3>4
  <2>4. ASSUME NEW w \in Works, NEW b, b # "superseded", NEW a, Rewrites(w, a, b)
        PROVE  work'[v] = work[v]
    BY <1>2, <2>4 DEF Rewrites, Typed, TypeOK
  <2>5. ASSUME NEW w \in Works,
               \/ Rewrites(w, "pending", "running")
               \/ Rewrites(w, "running", "succeeded")
               \/ Rewrites(w, "running", "failed")
        PROVE  work'[v] = work[v]
    BY <2>4, <2>5
  <2>6. ASSUME NEW w \in Works, NEW next \in Opt(Works), Releases(w, next), work'[v] # work[v]
        PROVE  /\ by \in Works /\ StreamOf(by) = StreamOf(v) /\ ObsOf(by) > ObsOf(v)
               /\ work'[by].status # "absent"
    <3>1. v = w /\ by = next /\ next # Null
      BY <1>2, <2>6, ReleasedStatus, ReleasedRowShape
    <3> QED BY <2>1, <2>6, <3>1, GoesBehindNewer DEF Releases
  <2> QED BY <1>2, <2>2, <2>3, <2>5, <2>6, ItemStep
<1> QED BY <1>1, <1>2, BeyondAlways, TypedAlways, PTL DEF Spec

LEMMA QueueInit == ASSUME Init, NEW s \in Streams PROVE Queue(s)!Init
<1>1. \A w \in Works : work[w].status = "absent"
  BY DEF Init, BlankWork
<1>2. \A status \in WorkStatus \ {"absent"} : ObservationsIn(work, s, status) = {}
  BY <1>1 DEF ObservationsIn, InStream
<1>3. HeldIn(work, s) = {}
  BY <1>1 DEF HeldIn, Running, InStream
<1>4. TakenIn(attempt, s) = {}
  BY DEF TakenIn, Init, BlankAttempt
<1> QED BY <1>2, <1>3, <1>4 DEF Queue!Init, WorkStatus

-----------------------------------------------------------------------------
(* What a rewritten item means to the abstract queue.                       *)

LEMMA MemberIn ==
    ASSUME NEW ws, NEW s \in Streams, NEW status, NEW o
    PROVE  o \in ObservationsIn(ws, s, status)
             <=> \E w \in Works : StreamOf(w) = s /\ ws[w].status = status /\ o = ObsOf(w)
  BY DEF ObservationsIn, InStream

LEMMA MemberHeld ==
    ASSUME NEW ws, NEW s \in Streams, NEW h
    PROVE  h \in HeldIn(ws, s)
             <=> \E w \in Works : /\ StreamOf(w) = s /\ ws[w].status = "running"
                                  /\ h = <<ObsOf(w), ws[w].claim>>
  BY DEF HeldIn, Running, InStream

LEMMA MemberTaken ==
    ASSUME NEW ats, NEW s \in Streams, NEW h
    PROVE  h \in TakenIn(ats, s)
             <=> \E c \in Claims : /\ StreamOf(c[1]) = s /\ ats[c].status # "absent"
                                  /\ h = <<ObsOf(c[1]), c[2]>>
  BY DEF TakenIn

\* An item is known by its stream and its observation.
LEMMA SameWork ==
    ASSUME NEW v \in Works, NEW w \in Works, StreamOf(v) = StreamOf(w), ObsOf(v) = ObsOf(w)
    PROVE  v = w
  BY WorkParts

\* Rewriting item w moves its observation to the set of its new status.
LEMMA Moved ==
    ASSUME Typed, NEW w \in Works, work' = [work EXCEPT ![w] = work'[w]], NEW status
    PROVE  ObservationsIn(work', StreamOf(w), status)
             = (ObservationsIn(work, StreamOf(w), status) \ {ObsOf(w)})
                 \cup (IF work'[w].status = status THEN {ObsOf(w)} ELSE {})
<1> DEFINE s == StreamOf(w)
<1>1. s \in Streams
  BY WorkParts
<1>2. \A v \in Works : v # w => work'[v] = work[v]
  BY DEF Typed, TypeOK
<1>3. ASSUME NEW o
      PROVE  o \in ObservationsIn(work', s, status)
               <=> o \in (ObservationsIn(work, s, status) \ {ObsOf(w)})
                            \cup (IF work'[w].status = status THEN {ObsOf(w)} ELSE {})
  <2>1. CASE o = ObsOf(w)
    <3>1. \A v \in Works : StreamOf(v) = s /\ o = ObsOf(v) => v = w
      BY <2>1, SameWork
    <3> QED BY <1>1, <2>1, <3>1, MemberIn
  <2>2. CASE o # ObsOf(w)
    BY <1>1, <1>2, <2>2, MemberIn
  <2> QED BY <2>1, <2>2
<1> QED BY <1>3

LEMMA MovedHeld ==
    ASSUME Typed, NEW w \in Works, work' = [work EXCEPT ![w] = work'[w]]
    PROVE  HeldIn(work', StreamOf(w))
             = {h \in HeldIn(work, StreamOf(w)) : h[1] # ObsOf(w)}
                 \cup (IF work'[w].status = "running" THEN {<<ObsOf(w), work'[w].claim>>} ELSE {})
<1> DEFINE s == StreamOf(w)
<1>1. s \in Streams
  BY WorkParts
<1>2. \A v \in Works : v # w => work'[v] = work[v]
  BY DEF Typed, TypeOK
<1>3. \A v \in Works : StreamOf(v) = s /\ ObsOf(v) = ObsOf(w) => v = w
  BY SameWork
<1>4. ASSUME NEW h
      PROVE  h \in HeldIn(work', s)
               <=> h \in {g \in HeldIn(work, s) : g[1] # ObsOf(w)}
                           \cup (IF work'[w].status = "running"
                                   THEN {<<ObsOf(w), work'[w].claim>>} ELSE {})
  <2>1. h \in HeldIn(work', s)
          <=> \E v \in Works : /\ StreamOf(v) = s /\ work'[v].status = "running"
                              /\ h = <<ObsOf(v), work'[v].claim>>
    BY <1>1, MemberHeld
  <2>2. h \in HeldIn(work, s)
          <=> \E v \in Works : /\ StreamOf(v) = s /\ work[v].status = "running"
                              /\ h = <<ObsOf(v), work[v].claim>>
    BY <1>1, MemberHeld
  <2>3. CASE h[1] = ObsOf(w)
    BY <1>3, <2>1, <2>3
  <2>4. CASE h[1] # ObsOf(w)
    BY <1>2, <2>1, <2>2, <2>4
  <2> QED BY <2>3, <2>4
<1> QED BY <1>4

LEMMA OtherStream ==
    ASSUME NEW s \in Streams,
           \A v \in Works : StreamOf(v) = s => work'[v] = work[v],
           \A c \in Claims : StreamOf(c[1]) = s =>
               (attempt'[c].status = "absent" <=> attempt[c].status = "absent")
    PROVE  UNCHANGED Queue(s)!vars
<1>1. \A status : ObservationsIn(work', s, status) = ObservationsIn(work, s, status)
  BY DEF ObservationsIn, InStream
<1>2. HeldIn(work', s) = HeldIn(work, s)
  BY DEF HeldIn, Running, InStream
<1>3. TakenIn(attempt', s) = TakenIn(attempt, s)
  BY DEF TakenIn
<1> QED BY <1>1, <1>2, <1>3 DEF Queue!vars

LEMMA SameTaken ==
    ASSUME NEW s \in Streams,
           \A c \in Claims : attempt'[c].status = "absent" <=> attempt[c].status = "absent"
    PROVE  TakenIn(attempt', s) = TakenIn(attempt, s)
  BY DEF TakenIn

-----------------------------------------------------------------------------
(* Every transaction is a step of the abstract queue.                       *)

\* What an item's status says about its observation.
LEMMA StatusOf ==
    ASSUME NEW ws, NEW w \in Works, NEW status
    PROVE  ObsOf(w) \in ObservationsIn(ws, StreamOf(w), status) <=> ws[w].status = status
<1>1. StreamOf(w) \in Streams
  BY WorkParts
<1>2. \A v \in Works : StreamOf(v) = StreamOf(w) /\ ObsOf(w) = ObsOf(v) => v = w
  BY SameWork
<1> QED BY <1>1, <1>2, MemberIn

\* The statuses an item neither leaves nor reaches are left alone.
LEMMA NotMoved ==
    ASSUME Typed, NEW w \in Works, work' = [work EXCEPT ![w] = work'[w]], NEW status,
           work[w].status # status, work'[w].status # status
    PROVE  ObservationsIn(work', StreamOf(w), status) = ObservationsIn(work, StreamOf(w), status)
<1>1. ObservationsIn(work', StreamOf(w), status)
        = (ObservationsIn(work, StreamOf(w), status) \ {ObsOf(w)}) \cup {}
  BY Moved
<1>2. ObsOf(w) \notin ObservationsIn(work, StreamOf(w), status)
  BY StatusOf
<1> QED BY <1>1, <1>2

LEMMA StepClaim ==
    ASSUME Typed, NEW w \in Works, NEW n \in AttemptNumbers, Rewrites(w, "pending", "running"),
           work'[w].claim = n, Running(work, StreamOf(w)) = {},
           attempt[<<w, n>>].status = "absent", attempt'[<<w, n>>].status # "absent",
           attempt' = [attempt EXCEPT ![<<w, n>>] = attempt'[<<w, n>>]]
    PROVE  Queue(StreamOf(w))!Take(ObsOf(w), n)
<1> DEFINE s == StreamOf(w)
           o == ObsOf(w)
<1>1. s \in Streams
  BY WorkParts
<1>2. /\ work' = [work EXCEPT ![w] = work'[w]]
      /\ work[w].status = "pending" /\ work'[w].status = "running"
  BY DEF Rewrites
<1>3. HeldIn(work, s) = {}
  BY DEF HeldIn
<1>4. o \in ObservationsIn(work, s, "pending")
  BY <1>2, StatusOf
<1>5. <<o, n>> \notin TakenIn(attempt, s)
  <2>1. ASSUME NEW c \in Claims, StreamOf(c[1]) = s, <<o, n>> = <<ObsOf(c[1]), c[2]>>
        PROVE  c = <<w, n>>
    BY <2>1, ClaimPair, SameWork
  <2> QED BY <1>1, <2>1, MemberTaken
<1>6. ObservationsIn(work', s, "pending") = ObservationsIn(work, s, "pending") \ {o}
  BY <1>2, Moved
<1>7. HeldIn(work', s) = {<<o, n>>}
  BY <1>2, <1>3, MovedHeld
<1>8. TakenIn(attempt', s) = TakenIn(attempt, s) \cup {<<o, n>>}
  <2>1. <<w, n>> \in Claims
    BY DEF Claims
  <2>2. \A c \in Claims : attempt'[c].status # "absent"
                           <=> attempt[c].status # "absent" \/ c = <<w, n>>
    BY <2>1 DEF Typed, TypeOK
  <2>3. ASSUME NEW h
        PROVE  h \in TakenIn(attempt', s) <=> h \in TakenIn(attempt, s) \cup {<<o, n>>}
    BY <1>1, <2>1, <2>2, MemberTaken
  <2> QED BY <2>3
<1>9. \A status \in {"succeeded", "failed", "superseded"} :
         ObservationsIn(work', s, status) = ObservationsIn(work, s, status)
  BY <1>2, NotMoved
<1> QED BY <1>3, <1>4, <1>5, <1>6, <1>7, <1>8, <1>9 DEF Queue!Take

LEMMA StepFinish ==
    ASSUME Typed, Typed', RowsAgree, NEW w \in Works,
           Rewrites(w, "running", "succeeded") \/ Rewrites(w, "running", "failed"),
           \A c \in Claims : attempt'[c].status = "absent" <=> attempt[c].status = "absent"
    PROVE  \E n \in AttemptNumbers : \/ Queue(StreamOf(w))!Succeed(ObsOf(w), n)
                                    \/ Queue(StreamOf(w))!Fail(ObsOf(w), n)
<1> DEFINE s == StreamOf(w)
           o == ObsOf(w)
           n == work[w].claim
<1>1. s \in Streams
  BY WorkParts
<1>2. /\ work' = [work EXCEPT ![w] = work'[w]] /\ work[w].status = "running"
      /\ work'[w].status \in {"succeeded", "failed"}
  BY DEF Rewrites
<1>3. n \in AttemptNumbers
  <2>1. PICK m \in AttemptNumbers : HoldsClaim(<<w, m>>, work[w].claimedBy)
    BY <1>2 DEF RowsAgree
  <2> QED BY <2>1 DEF HoldsClaim
<1>4. <<o, n>> \in HeldIn(work, s)
  BY <1>1, <1>2, MemberHeld
<1>5. \A h \in HeldIn(work, s) : h[1] = o <=> h = <<o, n>>
  <2>1. ASSUME NEW v \in Works, StreamOf(v) = s, ObsOf(v) = o PROVE v = w
    BY <2>1, SameWork
  <2> QED BY <1>1, <2>1, MemberHeld
<1>6. HeldIn(work', s) = HeldIn(work, s) \ {<<o, n>>}
  BY <1>2, <1>5, MovedHeld
<1>7. TakenIn(attempt', s) = TakenIn(attempt, s)
  BY <1>1, SameTaken
<1>8. \A status \in {"pending", "superseded"} :
         ObservationsIn(work', s, status) = ObservationsIn(work, s, status)
  BY <1>2, NotMoved
<1>9. CASE work'[w].status = "succeeded"
  <2>1. ObservationsIn(work', s, "succeeded") = ObservationsIn(work, s, "succeeded") \cup {o}
    BY <1>2, <1>9, Moved
  <2>2. ObservationsIn(work', s, "failed") = ObservationsIn(work, s, "failed")
    BY <1>2, <1>9, NotMoved
  <2> QED BY <1>3, <1>4, <1>6, <1>7, <1>8, <2>1, <2>2 DEF Queue!Succeed
<1>10. CASE work'[w].status = "failed"
  <2>1. ObservationsIn(work', s, "failed") = ObservationsIn(work, s, "failed") \cup {o}
    BY <1>2, <1>10, Moved
  <2>2. ObservationsIn(work', s, "succeeded") = ObservationsIn(work, s, "succeeded")
    BY <1>2, <1>10, NotMoved
  <2> QED BY <1>3, <1>4, <1>6, <1>7, <1>8, <2>1, <2>2 DEF Queue!Fail
<1> QED BY <1>2, <1>9, <1>10

LEMMA StepRelease ==
    ASSUME Typed, Typed', StreamExclusive, NEW w \in Works, NEW next \in Opt(Works),
           Releases(w, next),
           \A c \in Claims : attempt'[c].status = "absent" <=> attempt[c].status = "absent"
    PROVE  Queue(StreamOf(w))!GiveBack(ObsOf(w))
<1> DEFINE s == StreamOf(w)
           o == ObsOf(w)
<1>1. s \in Streams
  BY WorkParts
<1>2. /\ work' = [work EXCEPT ![w] = work'[w]] /\ work[w].status \in {"running", "failed"}
      /\ work'[w].status = IF next = Null THEN "pending" ELSE "superseded"
  <2>1. work'[w] = ReleasedRow(next)
    BY ReleasedStatus
  <2>2. work[w].status \in {"running", "failed"} /\ work' = [work EXCEPT ![w] = work'[w]]
    BY <2>1 DEF Releases
  <2>3. work'[w].status = IF next = Null THEN "pending" ELSE "superseded"
    BY <2>1, ReleasedRowShape
  <2> QED BY <2>2, <2>3
<1>3. o \in Queue(s)!HeldVersions \cup ObservationsIn(work, s, "failed")
  <2>1. CASE work[w].status = "running"
    <3>1. <<o, work[w].claim>> \in HeldIn(work, s)
      BY <1>1, <2>1, MemberHeld
    <3> QED BY <3>1 DEF Queue!HeldVersions
  <2>2. CASE work[w].status = "failed"
    BY <2>2, StatusOf
  <2> QED BY <1>2, <2>1, <2>2
<1>4. HeldIn(work', s) = {h \in HeldIn(work, s) : h[1] # o}
  BY <1>2, MovedHeld
<1>5. ObservationsIn(work', s, "failed") = ObservationsIn(work, s, "failed") \ {o}
  BY <1>2, Moved
<1>6. ObservationsIn(work', s, "succeeded") = ObservationsIn(work, s, "succeeded")
  BY <1>2, NotMoved
<1>7. TakenIn(attempt', s) = TakenIn(attempt, s)
  BY <1>1, SameTaken
<1>8. CASE next = Null
  <2>1. ObservationsIn(work, s, "pending") = {}
    <3>1. Pending(work, s) = {}
      BY <1>8, WorksNotNull DEF Releases, GoesBehind, Pending, InStream
    <3> QED BY <3>1 DEF Pending, ObservationsIn
  <2>2. ObservationsIn(work', s, "pending") = {o}
    BY <1>2, <1>8, <2>1, Moved
  <2>3. ObservationsIn(work', s, "superseded") = ObservationsIn(work, s, "superseded")
    BY <1>2, <1>8, NotMoved
  <2> QED BY <1>3, <1>4, <1>5, <1>6, <1>7, <2>1, <2>2, <2>3 DEF Queue!GiveBack
<1>9. CASE next # Null
  <2>1. /\ next \in Works /\ StreamOf(next) = s /\ ObsOf(next) > o
        /\ work[next].status = "pending"
    BY <1>9, GoesBehindNewer DEF Releases
  <2>2. ObservationsIn(work, s, "pending") = {ObsOf(next)}
    <3>1. \A v \in Works : StreamOf(v) = s /\ work[v].status = "pending" => v = next
      BY <2>1 DEF StreamExclusive
    <3> QED BY <1>1, <2>1, <3>1, MemberIn
  <2>3. ObservationsIn(work', s, "pending") = ObservationsIn(work, s, "pending")
    BY <1>2, <1>9, NotMoved
  <2>4. ObservationsIn(work', s, "superseded") = ObservationsIn(work, s, "superseded") \cup {o}
    BY <1>2, <1>9, Moved
  <2>5. \A u \in ObservationsIn(work, s, "pending") : o < u
    BY <2>1, <2>2, WorkParts
  <2> QED BY <1>3, <1>4, <1>5, <1>6, <1>7, <2>2, <2>3, <2>4, <2>5 DEF Queue!GiveBack
<1> QED BY <1>8, <1>9

LEMMA StepSchedule ==
    ASSUME Typed, Typed', NotBeyondLatest, NEW r \in Repos, NEW x \in Extractors, Schedule(r, x)
    PROVE  Queue(<<r, x>>)!Submit(latest[r])
<1> DEFINE s == <<r, x>>
           w == <<r, x, latest[r]>>
           v == latest[r]
<1>1. s \in Streams
  BY DEF Streams
<1>2. /\ w \in Works /\ ObsOf(w) = v /\ StreamOf(w) = s /\ work[w].status = "absent"
      /\ UNCHANGED attempt /\ work'[w].status = "pending"
  BY ScheduleStatus
<1>3. \A u \in Works : u # w =>
         IF StreamOf(u) = s /\ work[u].status = "pending" THEN work'[u].status = "superseded"
                                                          ELSE work'[u] = work[u]
  BY ScheduleStatus
<1>4. ASSUME NEW u \in Works, StreamOf(u) = s, work[u].status # "absent" PROVE ObsOf(u) < v
  <2>1. u[1] = r /\ ObsOf(u) <= v
    BY <1>4 DEF NotBeyondLatest, StreamOf
  <2>2. ObsOf(u) # v
    BY <1>2, <1>4, SameWork
  <2>3. ObsOf(u) \in Nat /\ v \in Nat
    BY <1>2, WorkParts
  <2> QED BY <2>1, <2>2, <2>3
<1>5. \A o \in Queue(s)!Submitted : o < v
  <2>1. ASSUME NEW status \in {"pending", "succeeded", "failed", "superseded"},
               NEW o \in ObservationsIn(work, s, status)
        PROVE  o < v
    BY <1>1, <1>4, MemberIn
  <2>2. ASSUME NEW h \in HeldIn(work, s) PROVE h[1] < v
    BY <1>1, <1>4, MemberHeld
  <2> QED BY <2>1, <2>2 DEF Queue!Submitted, Queue!HeldVersions
<1>6. ObservationsIn(work', s, "pending") = {v}
  <2>1. ASSUME NEW u \in Works, StreamOf(u) = s PROVE work'[u].status = "pending" <=> u = w
    BY <1>2, <1>3, <2>1
  <2> QED BY <1>1, <1>2, <2>1, MemberIn
<1>7. ObservationsIn(work', s, "superseded")
        = ObservationsIn(work, s, "superseded") \cup ObservationsIn(work, s, "pending")
  <2>1. ASSUME NEW u \in Works, StreamOf(u) = s
        PROVE  work'[u].status = "superseded" <=> work[u].status \in {"superseded", "pending"}
    BY <1>2, <1>3, <2>1
  <2>2. ASSUME NEW o
        PROVE  o \in ObservationsIn(work', s, "superseded")
                 <=> o \in ObservationsIn(work, s, "superseded")
                              \cup ObservationsIn(work, s, "pending")
    BY <1>1, <2>1, MemberIn
  <2> QED BY <2>2
<1>8. ASSUME NEW status \in {"succeeded", "failed", "running"}
      PROVE  \A u \in InStream(s) : /\ work'[u].status = status <=> work[u].status = status
                                    /\ work[u].status = status => work'[u] = work[u]
  BY <1>2, <1>3 DEF InStream
<1>9. \A status \in {"succeeded", "failed"} :
         ObservationsIn(work', s, status) = ObservationsIn(work, s, status)
  BY <1>8 DEF ObservationsIn
<1>10. HeldIn(work', s) = HeldIn(work, s)
  BY <1>8 DEF HeldIn, Running
<1> QED BY <1>2, <1>5, <1>6, <1>7, <1>9, <1>10 DEF Queue!Submit

\* A step that rewrites one item of another stream is no step of this one.
LEMMA NotThisStream ==
    ASSUME Typed, NEW s \in Streams, NEW w \in Works, StreamOf(w) # s,
           work' = [work EXCEPT ![w] = work'[w]],
           \A c \in Claims : c[1] # w =>
               (attempt'[c].status = "absent" <=> attempt[c].status = "absent")
    PROVE  UNCHANGED Queue(s)!vars
<1>1. \A v \in Works : StreamOf(v) = s => work'[v] = work[v]
  BY DEF Typed, TypeOK
<1>2. \A c \in Claims : StreamOf(c[1]) = s =>
         (attempt'[c].status = "absent" <=> attempt[c].status = "absent")
  OBVIOUS
<1> QED BY <1>1, <1>2, OtherStream

LEMMA QueueStep ==
    ASSUME Typed, Typed', RowsAgree, StreamExclusive, NotBeyondLatest, [Next]_vars,
           NEW s \in Streams
    PROVE  Queue(s)!Next \/ UNCHANGED Queue(s)!vars
<1>1. CASE UNCHANGED work /\ \A c \in Claims : attempt'[c].status = "absent"
                                                <=> attempt[c].status = "absent"
  BY <1>1, OtherStream
<1>2. ASSUME NEW r \in Repos, NEW x \in Extractors, Schedule(r, x)
      PROVE  Queue(s)!Next \/ UNCHANGED Queue(s)!vars
  <2>1. CASE s = <<r, x>>
    <3>1. latest[r] \in Observations
      BY <1>2, ObservationAssumption DEF Schedule, Observations
    <3>2. Queue(s)!Submit(latest[r])
      BY <1>2, <2>1, StepSchedule
    <3> QED BY <3>1, <3>2 DEF Queue!Next
  <2>2. CASE s # <<r, x>>
    <3>1. \A v \in Works : StreamOf(v) = s => work'[v] = work[v]
      BY <1>2, <2>2, ScheduleStatus
    <3>2. UNCHANGED attempt
      BY <1>2, ScheduleStatus
    <3> QED BY <3>1, <3>2, OtherStream
  <2> QED BY <2>1, <2>2
<1>3. ASSUME NEW w \in Works, NEW n \in AttemptNumbers, Rewrites(w, "pending", "running"),
             work'[w].claim = n, Running(work, StreamOf(w)) = {},
             attempt[<<w, n>>].status = "absent", attempt'[<<w, n>>].status # "absent",
             attempt' = [attempt EXCEPT ![<<w, n>>] = attempt'[<<w, n>>]]
      PROVE  Queue(s)!Next \/ UNCHANGED Queue(s)!vars
  <2>1. CASE StreamOf(w) = s
    <3>1. Queue(s)!Take(ObsOf(w), n)
      BY <1>3, <2>1, StepClaim
    <3> QED BY <3>1, WorkParts DEF Queue!Next
  <2>2. CASE StreamOf(w) # s
    <3>1. \A c \in Claims : c[1] # w => attempt'[c] = attempt[c]
      BY <1>3 DEF Typed, TypeOK, Claims
    <3> QED BY <1>3, <2>2, <3>1, NotThisStream DEF Rewrites
  <2> QED BY <2>1, <2>2
<1>4. ASSUME NEW w \in Works,
             \A c \in Claims : attempt'[c].status = "absent" <=> attempt[c].status = "absent",
             \/ Rewrites(w, "running", "succeeded")
             \/ Rewrites(w, "running", "failed")
             \/ \E next \in Opt(Works) : Releases(w, next)
      PROVE  Queue(s)!Next \/ UNCHANGED Queue(s)!vars
  <2>1. CASE StreamOf(w) = s
    <3>1. \/ Queue(s)!GiveBack(ObsOf(w))
          \/ \E n \in AttemptNumbers : Queue(s)!Succeed(ObsOf(w), n) \/ Queue(s)!Fail(ObsOf(w), n)
      BY <1>4, <2>1, StepFinish, StepRelease
    <3> QED BY <3>1, WorkParts DEF Queue!Next
  <2>2. CASE StreamOf(w) # s
    <3>1. work' = [work EXCEPT ![w] = work'[w]]
      BY <1>4, ReleasedStatus DEF Rewrites, Releases
    <3> QED BY <1>4, <2>2, <3>1, NotThisStream
  <2> QED BY <2>1, <2>2
<1> QED BY <1>1, <1>2, <1>3, <1>4, ItemStep

\* Each stream of the tables implements WorkQueue: one holder at a time, under
\* a token never used before; the newest version waits or has been taken; a
\* version given back never overtakes a newer one.
THEOREM TablesImplementQueue == Spec => ImplementsQueue
<1>1. Init => \A s \in Streams : Queue(s)!Init
  BY QueueInit
<1>2. Typed /\ Typed' /\ RowsAgree /\ StreamExclusive /\ NotBeyondLatest /\ [Next]_vars
        => [\A s \in Streams : Queue(s)!Next \/ UNCHANGED Queue(s)!vars]_vars
  BY QueueStep
<1> QED BY <1>1, <1>2, TypedAlways, TablesAgree, OneRunningOnePending, BeyondAlways, PTL
        DEF Spec, ImplementsQueue

=============================================================================

---------------------------- MODULE SourceIntake ----------------------------
(***************************************************************************)
(* Capture of manual and external sources and submission of extractor      *)
(* output about them (internal/evidenceingestion: postgres.go, spans.go,   *)
(* materialize.go, external_source.go, manual_review_profile*.go).         *)
(*                                                                         *)
(* A capture is one transaction and is refused as a whole.  A submission   *)
(* is not: the attempt is started, its status read, the output turned      *)
(* into proposals and the verdict stored in statements of their own, so    *)
(* two callers that share a request race, and a caller may die between any *)
(* two of them.                                                            *)
(***************************************************************************)
EXTENDS Naturals, FiniteSets

CONSTANTS Documents,       \* objects of a source system, at a version
          Contents,        \* raw contents
          Origins,         \* origin metadata of a capture
          Observers,       \* collector, connector and time of an observation
          IntakeRequests,  \* request_id of captures
          SubmitRequests,  \* request_id of submissions
          Submitters,      \* concurrent callers
          GoodOutputs,     \* outputs whose proposals ground in the view
          BadOutputs,      \* the others
          NoProfile        \* a capture without a manual review profile

ASSUME IntakeAssumption == GoodOutputs \cap BadOutputs = {}

VARIABLES snapshots,  \* table source_snapshots, with its review profile
          intakes,    \* table source_intake_requests
          receipts,   \* table external_source_intake_receipts
          attempts,   \* tables extraction_runs and extraction_attempts, by request
          batches,    \* table proposal_batches
          callers     \* what each caller is doing

intakeVars == <<snapshots, intakes, receipts, attempts, batches, callers>>

Outputs == GoodOutputs \cup BadOutputs
Systems == {"manual_text", "external_document"}
Profiles == {NoProfile, "profile"}

\* An external snapshot is identified without its content.
SnapshotId(in) == IF in.system = "manual_text"
                    THEN <<in.system, in.doc, in.content>> ELSE <<in.system, in.doc>>

Source == [system : Systems, doc : Documents, content : Contents, origin : Origins,
           profile : Profiles]

\* Only manual captures carry a profile, and only external ones an observer.
Capturable(in) == in.system = "external_document" => in.profile = NoProfile

SnapshotIds == {SnapshotId(in) : in \in Source}

NoOutput == "none"
Attempt == [snapshot : SnapshotIds, status : {"started", "failed"}, output : Outputs \cup {NoOutput}]
           \cup [snapshot : SnapshotIds, status : {"succeeded"}, output : GoodOutputs]

Answers == {"ok", "invalid", "failed", "reused"}
Waiting == [pc |-> "idle"]
Busy == [pc : {"start", "status", "replay", "work", "store"}, req : SubmitRequests,
         snapshot : SnapshotIds, output : Outputs]
Answered == [pc : {"answered"}, req : SubmitRequests, snapshot : SnapshotIds,
             output : Outputs, answer : Answers]

IntakeInit ==
    /\ snapshots = {} /\ intakes = {} /\ receipts = {}
    /\ attempts = [q \in {} |-> 0]
    /\ batches = {}
    /\ callers = [c \in Submitters |-> Waiting]

-----------------------------------------------------------------------------
(* Captures.                                                                *)

Stored(in) == {s \in snapshots : SnapshotId(s) = SnapshotId(in)}

\* What was captured before must agree: its content; the profile of a manual
\* source, which a later capture can neither change, omit nor add; the origin of
\* an external one.  The origin of a manual source is its first writer's.
SnapshotAgrees(in) ==
    \A s \in Stored(in) :
        /\ s.content = in.content
        /\ IF in.system = "manual_text" THEN s.profile = in.profile
                                        ELSE s.origin = in.origin

PersistSource(in) ==
    snapshots' = IF Stored(in) = {} THEN snapshots \cup {in} ELSE snapshots

\* The payload of a request covers the whole input.
RequestAgrees(req, in) == \A i \in intakes : i.req = req => i.source = in

CaptureManualSource(req, in) ==
    /\ in.system = "manual_text" /\ Capturable(in)
    /\ SnapshotAgrees(in) /\ RequestAgrees(req, in)
    /\ PersistSource(in)
    /\ intakes' = intakes \cup {[req |-> req, source |-> in]}
    /\ UNCHANGED <<receipts, attempts, batches, callers>>

ReceiptAgrees(req, in, observer) ==
    \A r \in receipts : r.req = req =>
        r = [req |-> req, snapshot |-> SnapshotId(in), observer |-> observer]

CaptureExternalSource(req, in, observer) ==
    /\ in.system = "external_document" /\ Capturable(in)
    /\ SnapshotAgrees(in) /\ RequestAgrees(req, in) /\ ReceiptAgrees(req, in, observer)
    /\ PersistSource(in)
    /\ intakes' = intakes \cup {[req |-> req, source |-> in]}
    /\ receipts' = receipts \cup
         {[req |-> req, snapshot |-> SnapshotId(in), observer |-> observer]}
    /\ UNCHANGED <<attempts, batches, callers>>

-----------------------------------------------------------------------------
(* Submissions.                                                             *)

AtPc(c, pc) == callers[c].pc = pc
Continue(c, pc) == callers' = [callers EXCEPT ![c].pc = pc]
Answer(c, answer) ==
    callers' = [callers EXCEPT ![c] =
        [pc |-> "answered", req |-> @.req, snapshot |-> @.snapshot, output |-> @.output,
         answer |-> answer]]

KnownAttempt(c) == callers[c].req \in DOMAIN attempts
AttemptOf(c) == attempts[callers[c].req]

\* The source must have been captured.
SubmitExtractorOutput(c, req, s, output) ==
    /\ callers[c].pc \in {"idle", "answered"}
    /\ callers' = [callers EXCEPT ![c] = [pc |-> "start", req |-> req,
                                          snapshot |-> SnapshotId(s), output |-> output]]
    /\ UNCHANGED <<snapshots, intakes, receipts, attempts, batches>>

\* The call that captures and submits at once persists the source without an
\* intake request, and takes no profile.
IngestManualText(c, req, in, output) ==
    /\ callers[c].pc \in {"idle", "answered"}
    /\ in.system = "manual_text" /\ in.profile = NoProfile
    /\ SnapshotAgrees(in) /\ PersistSource(in)
    /\ callers' = [callers EXCEPT ![c] = [pc |-> "start", req |-> req,
                                          snapshot |-> SnapshotId(in), output |-> output]]
    /\ UNCHANGED <<intakes, receipts, attempts, batches>>

\* A request is bound to its first inputs.
StartSubmission(c) ==
    /\ AtPc(c, "start")
    /\ IF ~ KnownAttempt(c)
         THEN /\ attempts' = [q \in DOMAIN attempts \cup {callers[c].req} |->
                    IF q \in DOMAIN attempts THEN attempts[q]
                    ELSE [snapshot |-> callers[c].snapshot, status |-> "started",
                          output |-> NoOutput]]
              /\ Continue(c, "status")
         ELSE /\ IF AttemptOf(c).snapshot = callers[c].snapshot
                   THEN Continue(c, "status") ELSE Answer(c, "reused")
              /\ UNCHANGED attempts
    /\ UNCHANGED <<snapshots, intakes, receipts, batches>>

\* An attempt left started by a caller that died is taken up again.
ReadAttemptStatus(c) ==
    /\ AtPc(c, "status")
    /\ CASE AttemptOf(c).status = "started"   -> Continue(c, "work")
         [] AttemptOf(c).status = "succeeded" -> Continue(c, "replay")
         [] AttemptOf(c).status = "failed"    -> Answer(c, "failed")
    /\ UNCHANGED <<snapshots, intakes, receipts, attempts, batches>>

ReplaySucceeded(c) ==
    /\ AtPc(c, "replay")
    /\ callers[c].req \in batches
    /\ Answer(c, IF AttemptOf(c).output = callers[c].output THEN "ok" ELSE "reused")
    /\ UNCHANGED <<snapshots, intakes, receipts, attempts, batches>>

\* Wrong variant: overwrites whatever verdict is there.
FailAnyhow(c) ==
    attempts' = [attempts EXCEPT ![callers[c].req] =
                     [@ EXCEPT !.status = "failed", !.output = callers[c].output]]

\* A failure is recorded only over a started attempt.
RecordFailure(c) ==
    attempts' = [attempts EXCEPT ![callers[c].req] =
        IF @.status = "started"
          THEN [@ EXCEPT !.status = "failed", !.output = callers[c].output] ELSE @]

\* Unique local ids, statements, references to known spans, code facts that the
\* source bears out: one proposal amiss fails the whole output.
MaterializeBatch(c) ==
    /\ AtPc(c, "work")
    /\ IF callers[c].output \in GoodOutputs
         THEN Continue(c, "store") /\ UNCHANGED attempts
         ELSE RecordFailure(c) /\ Answer(c, "invalid")
    /\ UNCHANGED <<snapshots, intakes, receipts, batches>>

PersistProposalSuccess(c) ==
    /\ AtPc(c, "store")
    /\ IF AttemptOf(c).status = "started"
         THEN /\ attempts' = [attempts EXCEPT ![callers[c].req] =
                    [@ EXCEPT !.status = "succeeded", !.output = callers[c].output]]
              /\ batches' = batches \cup {callers[c].req}
              /\ Answer(c, "ok")
         ELSE /\ CASE AttemptOf(c).status = "failed" -> Answer(c, "failed")
                   [] AttemptOf(c).status = "succeeded" ->
                        IF AttemptOf(c).output = callers[c].output
                          THEN Continue(c, "replay") ELSE Answer(c, "reused")
              /\ UNCHANGED <<attempts, batches>>
    /\ UNCHANGED <<snapshots, intakes, receipts>>

CallerDies(c) ==
    /\ callers[c].pc \notin {"idle", "answered"}
    /\ callers' = [callers EXCEPT ![c] = Waiting]
    /\ UNCHANGED <<snapshots, intakes, receipts, attempts, batches>>

Submission(c) ==
    \/ \E q \in SubmitRequests, o \in Outputs :
         \/ \E s \in snapshots : SubmitExtractorOutput(c, q, s, o)
         \/ \E in \in Source : IngestManualText(c, q, in, o)
    \/ StartSubmission(c) \/ ReadAttemptStatus(c) \/ ReplaySucceeded(c)
    \/ MaterializeBatch(c) \/ PersistProposalSuccess(c) \/ CallerDies(c)

IntakeNext ==
    \/ \E q \in IntakeRequests, in \in Source :
         CaptureManualSource(q, in) \/ \E o \in Observers : CaptureExternalSource(q, in, o)
    \/ \E c \in Submitters : Submission(c)

-----------------------------------------------------------------------------
(* Properties.                                                              *)

\* What a caller was told holds from then on, whoever raced with it: an accepted
\* output is the attempt's; an attempt reported failed never succeeds; a request
\* reported reused is bound to another source or to another output.
AnswersHold ==
    \A c \in Submitters : AtPc(c, "answered") =>
        CASE callers[c].answer = "ok" ->
               /\ AttemptOf(c).status = "succeeded" /\ callers[c].req \in batches
               /\ AttemptOf(c).output = callers[c].output
               /\ AttemptOf(c).snapshot = callers[c].snapshot
          [] callers[c].answer = "failed" -> AttemptOf(c).status = "failed"
          [] callers[c].answer = "reused" ->
               \/ AttemptOf(c).snapshot # callers[c].snapshot
               \/ AttemptOf(c).status = "succeeded" /\ AttemptOf(c).output # callers[c].output
          [] callers[c].answer = "invalid" -> AttemptOf(c).status # "started"

=============================================================================

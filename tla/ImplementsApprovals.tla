------------------------ MODULE ImplementsApprovals ------------------------
(***************************************************************************)
(* Approvals of "specification implements code" relations                 *)
(* (evidenceimplements/recursive_runtime_*.go, admission_postgres.go).  A *)
(* reviewer is shown a review and sends its receipt.  The approval reloads *)
(* the review and stores one authority, in a transaction that sees the    *)
(* authorities of the moment it began: the database's unique keys, not a  *)
(* lock, stop two approvals of one pair.                                   *)
(*                                                                         *)
(* What a review shows is the parameter "shown" of an action, nothing if  *)
(* it is refused: ImplementsReviews says what it is.                       *)
(***************************************************************************)
EXTENDS Naturals

CONSTANTS
    Approvers,       \* processes that call the approval tool
    ApprovalInputs,  \* the calls: [request, root, rules, assertion]
    ApprovalAttempts \* derivedAdmissionAttempts, 3 in the code

\* An approval that lost a race once can be tried again.
ASSUME ApprovalAssumption == ApprovalAttempts \in Nat \ {0, 1}

VARIABLES
    authorities, \* canonical_implements_admissions, each with the edge of its pair
    approvals    \* approvals[a]: the approval call of a in progress, or its answer
approvalVars == <<authorities, approvals>>

-----------------------------------------------------------------------------
(* A request id, a receipt and a pair are each used once.                   *)

NoCall == [phase |-> "idle"]
Reply(a, want, result, disturbed) ==
    approvals' = [approvals EXCEPT ![a] =
        [phase |-> "answered", want |-> want, result |-> result, disturbed |-> disturbed]]

\* The receipt is named by what was shown and asserted, not by the request; the
\* code claim of a pair is always the same here.
Receipt(input, shown) ==
    [root |-> input.root, shown |-> shown, rules |-> input.rules, assertion |-> input.assertion]
Authority(input, shown) ==
    [request |-> input.request, pair |-> input.root, receipt |-> Receipt(input, shown)]
ShareKey(x, y) == x.request = y.request \/ x.receipt = y.receipt \/ x.pair = y.pair
Twins(want, among) == {x \in among : ShareKey(x, want)}

ApprovalsInit ==
    /\ authorities = {}
    /\ approvals = [a \in Approvers |-> NoCall]

-----------------------------------------------------------------------------
(* Approvals.                                                               *)

\* The reviewer reads the review (its own transaction) and sends the receipt.
LoadReview(a, input, shown) ==
    /\ approvals[a].phase \in {"idle", "answered"}
    /\ LET want == Authority(input, shown)
       IN  IF shown = {} THEN Reply(a, want, "refused", FALSE)
           ELSE approvals' = [approvals EXCEPT ![a] =
                    [phase |-> "ready", want |-> want, attempt |-> 1, seen |-> {}, disturbed |-> FALSE]]
    /\ UNCHANGED authorities

\* Wrong variant: the retry goes on in the snapshot of the first attempt.
FirstSnapshot(call) == IF call.attempt = 1 THEN authorities ELSE call.seen

\* A repeatable-read transaction: everything later is read in this snapshot.
Snapshot(call) == authorities

BeginApproval(a, shown) ==
    LET call == approvals[a] IN
    /\ call.phase = "ready"
    /\ IF shown = call.want.receipt.shown
         THEN approvals' = [approvals EXCEPT ![a].phase = "open", ![a].seen = Snapshot(call)]
         ELSE Reply(a, call.want, "changed", call.disturbed)
    /\ UNCHANGED authorities

Retry(a, disturbed) ==
    LET call == approvals[a] IN
    IF call.attempt = ApprovalAttempts THEN Reply(a, call.want, "failed", disturbed)
    ELSE approvals' = [approvals EXCEPT ![a] =
            [call EXCEPT !.phase = "ready", !.attempt = @ + 1, !.disturbed = disturbed]]

\* A row the snapshot hides still holds its unique keys (23505).
CommitApproval(a) ==
    LET call  == approvals[a]
        found == Twins(call.want, call.seen)
    IN
    /\ call.phase = "open"
    /\ \/ /\ found # {}
          /\ Reply(a, call.want, IF found = {call.want} THEN "replayed" ELSE "conflict", call.disturbed)
          /\ UNCHANGED authorities
       \/ /\ found = {} /\ Twins(call.want, authorities) = {}
          /\ authorities' = authorities \cup {call.want}
          /\ Reply(a, call.want, "recorded", call.disturbed)
       \/ /\ found = {} /\ Twins(call.want, authorities) # {}
          /\ Retry(a, call.disturbed)
          /\ UNCHANGED authorities

\* A serialization failure or a deadlock with another writer (40001, 40P01).
DisturbApproval(a) ==
    /\ approvals[a].phase = "open"
    /\ Retry(a, TRUE)
    /\ UNCHANGED authorities

-----------------------------------------------------------------------------
\* No two authorities share a request, a receipt or a pair.  An approval that
\* was recorded or replayed has its own row there and no other twin; one told
\* of a conflict has a twin that differs; and one that failed was disturbed by
\* another writer, never merely late (persistReviewedImplementsInTx,
\* retryDerivedAdmission).
TwinsAgree ==
    /\ \A x, y \in authorities : ShareKey(x, y) => x = y
    /\ \A a \in Approvers : approvals[a].phase = "answered" =>
         LET twins  == Twins(approvals[a].want, authorities)
             result == approvals[a].result
         IN  /\ result \in {"recorded", "replayed"} => twins = {approvals[a].want}
             /\ result = "conflict" => twins \ {approvals[a].want} # {}
             /\ result = "failed" => approvals[a].disturbed

=============================================================================

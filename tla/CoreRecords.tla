---------------------------- MODULE CoreRecords ----------------------------
(***************************************************************************)
(* The core-records profile: bindings of canonical nodes to propositions   *)
(* declared outside, external checks and external representations          *)
(* (internal/mcpcorerecords, internal/evidenceingestion:                   *)
(* proposition_binding.go, external_check.go, external_representation.go). *)
(*                                                                         *)
(* Everything is appended.  A change of a binding is decided on what was   *)
(* read earlier and carries it along (revision, reference, proposition);   *)
(* the trigger of the table compares it with the head under the row lock   *)
(* of the node.  A check or representation is inserted without a lock: the *)
(* insert first looks for a conflicting row and then enters its own, and   *)
(* the same call may run twice at once.                                    *)
(***************************************************************************)
EXTENDS Naturals, Sequences

CONSTANTS Nodes,          \* admitted source and derived claims
          Propositions,   \* proposition keys
          Meanings,       \* definitions supplied with a key
          BindRequests, ChangeRequests, RecordRequests,  \* request_id values
          Subjects,       \* immutable subjects of text proposals
          Reports,        \* what a check or representation says
          Recorders,      \* concurrent callers
          NoProposition, NoRecord

ASSUME RecordAssumption == NoProposition \notin Propositions

VARIABLES propositions,  \* table canonical_propositions
          bindings0,     \* table canonical_proposition_bindings, by node
          changes,       \* table canonical_proposition_binding_events, by node
          history,       \* the binding history each recorder read last
          records,       \* tables external_check_records, external_representation_records
          inserts        \* inserts in progress, and the answer of the last one

recordVars == <<propositions, bindings0, changes, history, records, inserts>>

RecordInit ==
    /\ propositions = [p \in {} |-> 0]
    /\ bindings0 = [n \in {} |-> 0]
    /\ changes = [n \in Nodes |-> <<>>]
    /\ history = [r \in Recorders |-> NoRecord]
    /\ records = {}
    /\ inserts = [r \in Recorders |-> [pc |-> "idle"]]

-----------------------------------------------------------------------------
(* Bindings.                                                                *)

\* A key keeps the definition it was first recorded with.
Declarable(p, meaning) == p \in DOMAIN propositions => propositions[p] = meaning
Declare(p, meaning) ==
    propositions' = [q \in DOMAIN propositions \cup {p} |->
                        IF q = p THEN meaning ELSE propositions[q]]

UsedBinding(req) == \E n \in DOMAIN bindings0 : bindings0[n].req = req

\* A node has one initial binding.  A known request answers its receipt, and
\* never brings a withdrawn binding back.
BindCanonicalProposition(req, n, p, meaning) ==
    /\ ~ UsedBinding(req) /\ n \notin DOMAIN bindings0 /\ Declarable(p, meaning)
    /\ Declare(p, meaning)
    /\ bindings0' = [m \in DOMAIN bindings0 \cup {n} |->
                        IF m = n THEN [req |-> req, proposition |-> p] ELSE bindings0[m]]
    /\ UNCHANGED <<changes, history, records, inserts>>

LastChange(n) == changes[n][Len(changes[n])]

\* The head: the last change, or the membership itself.
BindingHead(n) ==
    IF changes[n] = <<>>
      THEN [revision |-> 0, ref |-> bindings0[n].req, active |-> bindings0[n].proposition]
      ELSE [revision |-> Len(changes[n]), ref |-> LastChange(n).req,
            active |-> LastChange(n).target]

ReadPropositionBindingHistory(r, n) ==
    /\ n \in DOMAIN bindings0
    /\ history' = [history EXCEPT ![r] = [node |-> n, head |-> BindingHead(n)]]
    /\ UNCHANGED <<propositions, bindings0, changes, records, inserts>>

LegalChange(n, operation, target) ==
    LET active == BindingHead(n).active IN
    CASE operation = "correct"  -> active # NoProposition /\ target \notin {NoProposition, active}
      [] operation = "withdraw" -> active # NoProposition /\ target = NoProposition
      [] operation = "restore"  -> /\ active = NoProposition /\ target # NoProposition
                                   /\ LastChange(n).operation = "withdraw"
                                   /\ target = LastChange(n).from

\* Wrong variant: only the proposition is compared.
SameProposition(n, head) == BindingHead(n).active = head.active

\* The revision, the reference and the proposition are those of the head.
SameHead(n, head) == BindingHead(n) = head

ChangePropositionBinding(r, req, operation, target, meaning) ==
    /\ history[r] # NoRecord
    /\ LET n == history[r].node  head == history[r].head IN
       /\ \A m \in Nodes : \A i \in DOMAIN changes[m] : changes[m][i].req # req
       /\ SameHead(n, head)
       /\ LegalChange(n, operation, target)
       /\ IF target = NoProposition THEN UNCHANGED propositions
          ELSE Declarable(target, meaning) /\ Declare(target, meaning)
       /\ changes' = [changes EXCEPT ![n] = Append(@,
             [req |-> req, revision |-> head.revision + 1, previous |-> head.ref,
              from |-> head.active, operation |-> operation, target |-> target])]
    /\ UNCHANGED <<bindings0, history, records, inserts>>

-----------------------------------------------------------------------------
(* External checks and representations.                                     *)

Kinds == {"check", "representation"}

\* The whole body, request included, is digested into the primary key.
Body(req, subject, report, previous) ==
    [req |-> req, subject |-> subject, report |-> report, previous |-> previous]

SameRequest(kind, body) == {x \in records : x.kind = kind /\ x.body.req = body.req}

\* A revision names a record of the same subject.
Revisable(kind, body) ==
    \/ body.previous = NoRecord
    \/ \E x \in records : x.kind = kind /\ x.body = body.previous /\ x.body.subject = body.subject

\* The insert has looked for a conflicting row and found none.
BeginRecord(r, kind, body) ==
    /\ inserts[r].pc \in {"idle", "answered"}
    /\ Revisable(kind, body)
    /\ inserts' = [inserts EXCEPT ![r] =
           [pc |-> IF SameRequest(kind, body) = {} THEN "insert" ELSE "read",
            kind |-> kind, body |-> body]]
    /\ UNCHANGED <<propositions, bindings0, changes, history, records>>

\* A representation: only a conflict on the request is skipped.  The same body
\* entered meanwhile conflicts on the digest first and raises a violation.
ArbitrateRequest(r) ==
    IF [kind |-> inserts[r].kind, body |-> inserts[r].body] \in records THEN "error" ELSE "read"

\* A check: a conflict on either key skips the insert.
ArbitrateCheck(r) == "read"

\* The row goes in, or another one is there by now.
InsertRecord(r) ==
    /\ inserts[r].pc = "insert"
    /\ IF SameRequest(inserts[r].kind, inserts[r].body) = {}
         THEN /\ records' = records \cup {[kind |-> inserts[r].kind, body |-> inserts[r].body]}
              /\ inserts' = [inserts EXCEPT ![r].pc = "read"]
         ELSE /\ LET next == IF inserts[r].kind = "check" THEN ArbitrateCheck(r) ELSE ArbitrateRequest(r)
                 IN  inserts' = [inserts EXCEPT ![r] =
                        IF next = "read" THEN [@ EXCEPT !.pc = "read"]
                        ELSE [pc |-> "answered", kind |-> @.kind, body |-> @.body, answer |-> next]]
              /\ UNCHANGED records
    /\ UNCHANGED <<propositions, bindings0, changes, history>>

\* The stored row is compared with the whole body.
AnswerRecord(r) ==
    /\ inserts[r].pc = "read"
    /\ inserts' = [inserts EXCEPT ![r] =
           [pc |-> "answered", kind |-> @.kind, body |-> @.body,
            answer |-> IF [kind |-> @.kind, body |-> @.body] \in records THEN "recorded" ELSE "reused"]]
    /\ UNCHANGED <<propositions, bindings0, changes, history, records>>

BindingNext ==
    \/ \E req \in BindRequests, n \in Nodes, p \in Propositions, m \in Meanings :
         BindCanonicalProposition(req, n, p, m)
    \/ \E r \in Recorders :
         \/ \E n \in Nodes : ReadPropositionBindingHistory(r, n)
         \/ \E req \in ChangeRequests, o \in {"correct", "withdraw", "restore"},
               p \in Propositions \cup {NoProposition}, m \in Meanings :
              ChangePropositionBinding(r, req, o, p, m)

ReportNext ==
    \E r \in Recorders :
        \/ \E kind \in Kinds, req \in RecordRequests, s \in Subjects, t \in Reports,
              previous \in {NoRecord} \cup {x.body : x \in {y \in records : y.body.previous = NoRecord}} :
             BeginRecord(r, kind, Body(req, s, t, previous))
        \/ InsertRecord(r) \/ AnswerRecord(r)

-----------------------------------------------------------------------------
(* Properties.                                                              *)

\* A change was decided on the state it was applied to, even when a withdrawal and
\* a restoration came in between and left the same proposition bound; and only the
\* proposition that was withdrawn last can come back.
DecisionsOnCurrentHead ==
    \A n \in DOMAIN bindings0 : \A i \in DOMAIN changes[n] :
        LET before == IF i = 1 THEN [ref |-> bindings0[n].req, target |-> bindings0[n].proposition]
                      ELSE [ref |-> changes[n][i - 1].req, target |-> changes[n][i - 1].target]
        IN  /\ changes[n][i].revision = i
            /\ changes[n][i].previous = before.ref /\ changes[n][i].from = before.target
            /\ changes[n][i].operation = "restore" =>
                 changes[n][i].target = changes[n][i - 1].from

\* The same check recorded twice at once is recorded once, and both calls are told
\* so; a call is refused only when its request carries something else.
RetriesReplay ==
    \A r \in Recorders :
        inserts[r].pc = "answered" /\ inserts[r].kind = "check" =>
            LET stored == SameRequest("check", inserts[r].body) IN
            /\ \E x \in stored : stored = {x}
            /\ inserts[r].answer = (IF [kind |-> "check", body |-> inserts[r].body] \in stored
                                      THEN "recorded" ELSE "reused")

=============================================================================

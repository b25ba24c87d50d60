---------------------------- MODULE RecordsProofs ----------------------------
(* Theorems about source intake, source generations, lineages and core      *)
(* records.  They share no variable: each part states the specification of  *)
(* its own component first.                                                 *)
EXTENDS SourceIntake, SupersessionLineages, SourceGenerations, CoreRecords,
        FiniteSetTheorems, WellFoundedInduction, TLAPS

-----------------------------------------------------------------------------
(* Bindings of canonical nodes.                                             *)

RecordSpec == RecordInit /\ [][BindingNext \/ ReportNext]_recordVars

Operations == {"correct", "withdraw", "restore"}
Refs == BindRequests \cup ChangeRequests
Targets == Propositions \cup {NoProposition}
ChangeRow == [req : ChangeRequests, revision : Nat, previous : Refs, from : Targets,
              operation : Operations, target : Targets]
BindingRow == [req : BindRequests, proposition : Propositions]
HeadRow == [revision : Nat, ref : Refs, active : Targets]
HistoryRow == {NoRecord} \cup [node : Nodes, head : HeadRow]

\* The change at position i was decided on what the one before it left.
ChangeFollows(initial, events, i) ==
    /\ events[i].revision = i
    /\ i = 1 => /\ events[i].previous = initial.req /\ events[i].from = initial.proposition
                /\ events[i].operation # "restore"
    /\ i # 1 => /\ events[i].previous = events[i - 1].req /\ events[i].from = events[i - 1].target
                /\ events[i].operation = "restore" => events[i].target = events[i - 1].from

Chained(initial, events) == \A i \in DOMAIN events : ChangeFollows(initial, events, i)

BindingInv ==
    /\ bindings0 = [n \in DOMAIN bindings0 |-> bindings0[n]]
    /\ DOMAIN bindings0 \subseteq Nodes
    /\ \A n \in DOMAIN bindings0 : bindings0[n] \in BindingRow
    /\ changes \in [Nodes -> Seq(ChangeRow)]
    /\ history \in [Recorders -> HistoryRow]
    /\ \A r \in Recorders : history[r] # NoRecord => history[r].node \in DOMAIN bindings0
    /\ \A n \in Nodes : n \in DOMAIN bindings0 \/ changes[n] = <<>>
    /\ \A n \in DOMAIN bindings0 : Chained(bindings0[n], changes[n])

LEMMA HeadTyped ==
    ASSUME BindingInv, NEW n \in DOMAIN bindings0
    PROVE  /\ n \in Nodes /\ BindingHead(n) \in HeadRow
           /\ BindingHead(n).revision = Len(changes[n])
           /\ changes[n] = <<>> => /\ BindingHead(n).ref = bindings0[n].req
                                   /\ BindingHead(n).active = bindings0[n].proposition
           /\ changes[n] # <<>> => /\ BindingHead(n).ref = changes[n][Len(changes[n])].req
                                   /\ BindingHead(n).active = changes[n][Len(changes[n])].target
<1>1. n \in Nodes /\ bindings0[n] \in BindingRow /\ changes[n] \in Seq(ChangeRow)
  BY DEF BindingInv
<1>2. CASE changes[n] = <<>>
  <2>1. BindingHead(n) = [revision |-> 0, ref |-> bindings0[n].req,
                          active |-> bindings0[n].proposition]
    BY <1>2 DEF BindingHead
  <2> QED BY <1>1, <1>2, <2>1 DEF HeadRow, BindingRow, Refs, Targets
<1>3. CASE changes[n] # <<>>
  <2>1. LastChange(n) \in ChangeRow /\ Len(changes[n]) \in Nat
    BY <1>1, <1>3 DEF LastChange
  <2>2. BindingHead(n) = [revision |-> Len(changes[n]), ref |-> LastChange(n).req,
                          active |-> LastChange(n).target]
    BY <1>3 DEF BindingHead
  <2> QED BY <1>1, <1>3, <2>1, <2>2 DEF HeadRow, ChangeRow, LastChange, Refs
<1> QED BY <1>1, <1>2, <1>3

LEMMA BindStep ==
    ASSUME BindingInv, NEW req \in BindRequests, NEW n \in Nodes, NEW p \in Propositions,
           NEW m, BindCanonicalProposition(req, n, p, m)
    PROVE  BindingInv'
<1> DEFINE row == [req |-> req, proposition |-> p]
<1>1. /\ bindings0' = [x \in DOMAIN bindings0 \cup {n} |-> IF x = n THEN row ELSE bindings0[x]]
      /\ n \notin DOMAIN bindings0 /\ UNCHANGED <<changes, history>>
  BY DEF BindCanonicalProposition
<1>2. row \in BindingRow
  BY DEF BindingRow
<1> HIDE DEF row
<1>3. /\ DOMAIN bindings0' = DOMAIN bindings0 \cup {n} /\ bindings0'[n] = row
      /\ \A x \in DOMAIN bindings0 : bindings0'[x] = bindings0[x]
      /\ bindings0' = [x \in DOMAIN bindings0' |-> bindings0'[x]]
  BY <1>1
<1>4. Chained(row, changes[n])
  BY <1>1 DEF BindingInv, Chained
<1> QED BY <1>1, <1>2, <1>3, <1>4 DEF BindingInv

LEMMA ReadHistoryStep ==
    ASSUME BindingInv, NEW r \in Recorders, NEW n \in Nodes, ReadPropositionBindingHistory(r, n)
    PROVE  BindingInv'
<1> DEFINE row == [node |-> n, head |-> BindingHead(n)]
<1>1. /\ n \in DOMAIN bindings0 /\ history' = [history EXCEPT ![r] = row]
      /\ UNCHANGED <<bindings0, changes>>
  BY DEF ReadPropositionBindingHistory
<1>2. row \in HistoryRow /\ row.node = n
  BY <1>1, HeadTyped DEF HistoryRow
<1> HIDE DEF row
<1>3. /\ history' \in [Recorders -> HistoryRow]
      /\ \A q \in Recorders : history'[q] # NoRecord => history'[q].node \in DOMAIN bindings0
  BY <1>1, <1>2 DEF BindingInv
<1> QED BY <1>1, <1>3 DEF BindingInv

LEMMA ChangeStep ==
    ASSUME BindingInv, NEW r \in Recorders, NEW req \in ChangeRequests, NEW operation \in Operations,
           NEW target \in Targets, NEW m, ChangePropositionBinding(r, req, operation, target, m)
    PROVE  BindingInv'
<1> DEFINE n == history[r].node  head0 == history[r].head
           row == [req |-> req, revision |-> head0.revision + 1, previous |-> head0.ref,
                   from |-> head0.active, operation |-> operation, target |-> target]
           len == Len(changes[n])
<1>1. /\ head0 = BindingHead(n) /\ LegalChange(n, operation, target) /\ history[r] # NoRecord
      /\ changes' = [changes EXCEPT ![n] = Append(@, row)]
      /\ UNCHANGED <<bindings0, history>>
  BY DEF ChangePropositionBinding, SameHead
<1>2. n \in DOMAIN bindings0 /\ n \in Nodes /\ changes[n] \in Seq(ChangeRow)
      /\ bindings0[n] \in BindingRow /\ len \in Nat
  BY <1>1 DEF BindingInv
<1>3. /\ head0 \in HeadRow /\ head0.revision = len
      /\ changes[n] = <<>> => /\ head0.ref = bindings0[n].req
                              /\ head0.active = bindings0[n].proposition
      /\ changes[n] # <<>> => /\ head0.ref = changes[n][len].req
                              /\ head0.active = changes[n][len].target
  BY <1>1, <1>2, HeadTyped
<1>4. operation = "restore" => changes[n] # <<>> /\ target = changes[n][len].from
  <2>1. ASSUME operation = "restore"
        PROVE  head0.active = NoProposition /\ target = LastChange(n).from
    BY <1>1, <2>1 DEF LegalChange
  <2>2. operation = "restore" => changes[n] # <<>>
    BY <2>1, <1>2, <1>3, RecordAssumption DEF BindingRow
  <2> QED BY <2>1, <2>2 DEF LastChange
<1>5. /\ row \in ChangeRow /\ row.revision = len + 1 /\ row.previous = head0.ref
      /\ row.from = head0.active /\ row.operation = operation /\ row.target = target
  BY <1>2, <1>3 DEF ChangeRow, HeadRow
<1> HIDE DEF n, head0, row, len
<1> DEFINE more == Append(changes[n], row)
<1>6. /\ more \in Seq(ChangeRow) /\ DOMAIN more = 1..(len + 1) /\ more[len + 1] = row
      /\ \A i \in 1..len : more[i] = changes[n][i]
      /\ DOMAIN changes[n] = 1..len
      /\ changes[n] = <<>> => len = 0
      /\ changes[n] # <<>> => len # 0
  BY <1>2, <1>5 DEF len
<1>7. /\ changes' \in [Nodes -> Seq(ChangeRow)] /\ changes'[n] = more
      /\ \A x \in Nodes : x # n => changes'[x] = changes[x]
  BY <1>1, <1>2, <1>6 DEF BindingInv
<1> HIDE DEF more
<1>8. Chained(bindings0[n], more)
  <2>1. ASSUME NEW i \in 1..len PROVE ChangeFollows(bindings0[n], more, i)
    <3>1. /\ more[i] = changes[n][i] /\ i \in DOMAIN changes[n]
          /\ i # 1 => more[i - 1] = changes[n][i - 1]
      BY <1>2, <1>6
    <3>2. ChangeFollows(bindings0[n], changes[n], i)
      BY <1>2, <3>1 DEF BindingInv, Chained
    <3> QED BY <3>1, <3>2 DEF ChangeFollows
  <2>2. ChangeFollows(bindings0[n], more, len + 1)
    <3>1. CASE changes[n] = <<>>
      BY <3>1, <1>3, <1>4, <1>5, <1>6 DEF ChangeFollows
    <3>2. CASE changes[n] # <<>>
      <4>1. len + 1 # 1 /\ (len + 1) - 1 = len /\ len \in 1..len
        BY <3>2, <1>2, <1>6
      <4>2. more[len] = changes[n][len]
        BY <4>1, <1>6
      <4> QED BY <3>2, <4>1, <4>2, <1>3, <1>4, <1>5, <1>6 DEF ChangeFollows
    <3> QED BY <3>1, <3>2
  <2>3. \A i \in DOMAIN more : i \in 1..len \/ i = len + 1
    BY <1>2, <1>6
  <2> QED BY <2>1, <2>2, <2>3 DEF Chained
<1> QED BY <1>1, <1>2, <1>7, <1>8 DEF BindingInv

LEMMA BindingInvariant == RecordSpec => []BindingInv
<1>1. RecordInit => BindingInv
  BY DEF RecordInit, BindingInv, HistoryRow
<1>2. BindingInv /\ [BindingNext \/ ReportNext]_recordVars => BindingInv'
  <2> SUFFICES ASSUME BindingInv, [BindingNext \/ ReportNext]_recordVars PROVE BindingInv'
    OBVIOUS
  <2>1. CASE BindingNext
    BY <2>1, BindStep, ReadHistoryStep, ChangeStep DEF BindingNext, Operations, Targets
  <2>2. CASE UNCHANGED <<bindings0, changes, history>>
    BY <2>2 DEF BindingInv
  <2>3. ReportNext \/ UNCHANGED recordVars => UNCHANGED <<bindings0, changes, history>>
    <3>1. \A r \in Recorders : \A kind, b : BeginRecord(r, kind, b) => UNCHANGED <<bindings0, changes, history>>
      BY DEF BeginRecord
    <3>2. \A r \in Recorders : InsertRecord(r) => UNCHANGED <<bindings0, changes, history>>
      BY DEF InsertRecord
    <3>3. \A r \in Recorders : AnswerRecord(r) => UNCHANGED <<bindings0, changes, history>>
      BY DEF AnswerRecord
    <3>4. UNCHANGED recordVars => UNCHANGED <<bindings0, changes, history>>
      BY DEF recordVars
    <3> QED BY <3>1, <3>2, <3>3, <3>4 DEF ReportNext
  <2> QED BY <2>1, <2>2, <2>3
<1> QED BY <1>1, <1>2, PTL DEF RecordSpec

\* A change of a binding was decided on the head it was applied to, for any number
\* of callers with histories as old as they like, and a restoration brings back
\* what was withdrawn last (ChangePropositionBinding and the trigger of its table).
THEOREM ChangesFollowTheHead == RecordSpec => []DecisionsOnCurrentHead
<1>1. BindingInv => DecisionsOnCurrentHead
  <2> SUFFICES ASSUME BindingInv, NEW n \in DOMAIN bindings0, NEW i \in DOMAIN changes[n]
               PROVE  LET before == IF i = 1 THEN [ref |-> bindings0[n].req, target |-> bindings0[n].proposition]
                                    ELSE [ref |-> changes[n][i - 1].req, target |-> changes[n][i - 1].target]
                      IN  /\ changes[n][i].revision = i
                          /\ changes[n][i].previous = before.ref /\ changes[n][i].from = before.target
                          /\ changes[n][i].operation = "restore" =>
                               changes[n][i].target = changes[n][i - 1].from
    BY DEF DecisionsOnCurrentHead
  <2>1. ChangeFollows(bindings0[n], changes[n], i)
    BY DEF BindingInv, Chained
  <2> QED BY <2>1 DEF ChangeFollows
<1> QED BY <1>1, BindingInvariant, PTL

-----------------------------------------------------------------------------
(* External checks and representations.                                     *)

FirstBodies == [req : RecordRequests, subject : Subjects, report : Reports, previous : {NoRecord}]
Bodies == [req : RecordRequests, subject : Subjects, report : Reports,
           previous : {NoRecord} \cup FirstBodies]
RecordRow == [kind : Kinds, body : Bodies]
InsertRow == [pc : {"idle"}] \cup [pc : {"insert", "read"}, kind : Kinds, body : Bodies]
             \cup [pc : {"answered"}, kind : Kinds, body : Bodies,
                   answer : {"recorded", "reused", "error"}]

\* The answer is about the one stored row of the request.
InsertAgrees(r) ==
    /\ inserts[r].pc \in {"read", "answered"} =>
         SameRequest(inserts[r].kind, inserts[r].body) # {}
    /\ inserts[r].pc = "answered" /\ inserts[r].kind = "check" =>
         inserts[r].answer = (IF [kind |-> "check", body |-> inserts[r].body] \in records
                                THEN "recorded" ELSE "reused")

ReportInv ==
    /\ records \subseteq RecordRow
    /\ \A x, y \in records : x.kind = y.kind /\ x.body.req = y.body.req => x = y
    /\ inserts \in [Recorders -> InsertRow]
    /\ \A r \in Recorders : InsertAgrees(r)

\* A step of one call that stores nothing.
LEMMA InsertMoves ==
    ASSUME ReportInv, NEW r \in Recorders, NEW row \in InsertRow, UNCHANGED records,
           inserts' = [inserts EXCEPT ![r] = row],
           row.pc \in {"read", "answered"} => SameRequest(row.kind, row.body) # {},
           row.pc = "answered" /\ row.kind = "check" =>
             row.answer = (IF [kind |-> "check", body |-> row.body] \in records
                             THEN "recorded" ELSE "reused")
    PROVE  ReportInv'
<1>1. /\ inserts' \in [Recorders -> InsertRow] /\ inserts'[r] = row
      /\ \A q \in Recorders : q # r => inserts'[q] = inserts[q]
  BY DEF ReportInv
<1>2. \A kind, body : SameRequest(kind, body)' = SameRequest(kind, body)
  BY DEF SameRequest
<1>3. ASSUME NEW q \in Recorders PROVE InsertAgrees(q)'
  <2>1. CASE q = r
    BY <2>1, <1>1, <1>2 DEF InsertAgrees
  <2>2. CASE q # r
    BY <2>2, <1>1, <1>2 DEF InsertAgrees, ReportInv
  <2> QED BY <2>1, <2>2
<1> QED BY <1>1, <1>3 DEF ReportInv

LEMMA BeginRecordStep ==
    ASSUME ReportInv, NEW r \in Recorders, NEW kind \in Kinds, NEW body \in Bodies,
           BeginRecord(r, kind, body)
    PROVE  ReportInv'
<1> DEFINE row == [pc |-> IF SameRequest(kind, body) = {} THEN "insert" ELSE "read",
                   kind |-> kind, body |-> body]
<1>1. inserts' = [inserts EXCEPT ![r] = row] /\ UNCHANGED records
  BY DEF BeginRecord
<1>2. row \in InsertRow /\ row.kind = kind /\ row.body = body
      /\ row.pc = IF SameRequest(kind, body) = {} THEN "insert" ELSE "read"
  BY DEF InsertRow
<1> HIDE DEF row
<1> QED BY <1>1, <1>2, InsertMoves

LEMMA InsertRecordStep ==
    ASSUME ReportInv, NEW r \in Recorders, InsertRecord(r)
    PROVE  ReportInv'
<1> DEFINE kind == inserts[r].kind  body == inserts[r].body
           x == [kind |-> kind, body |-> body]
           next == [inserts[r] EXCEPT !.pc = "read"]
<1>1. kind \in Kinds /\ body \in Bodies /\ inserts[r] \in InsertRow /\ inserts[r].pc = "insert"
  BY DEF InsertRecord, ReportInv, InsertRow
<1>2. next \in InsertRow /\ next.pc = "read" /\ next.kind = kind /\ next.body = body
  BY <1>1 DEF InsertRow
<1>3. CASE SameRequest(kind, body) = {}
  <2>1. records' = records \cup {x} /\ inserts' = [inserts EXCEPT ![r] = next]
    BY <1>3 DEF InsertRecord, ReportInv
  <2>2. x \in RecordRow /\ x.kind = kind /\ x.body = body
    BY <1>1 DEF RecordRow
  <2> HIDE DEF x, next
  <2>3. \A y \in records : ~ (y.kind = kind /\ y.body.req = body.req)
    BY <1>3 DEF SameRequest
  <2>4. \A y, z \in records' : y.kind = z.kind /\ y.body.req = z.body.req => y = z
    BY <2>1, <2>2, <2>3 DEF ReportInv
  <2>5. /\ inserts' \in [Recorders -> InsertRow] /\ inserts'[r] = next
        /\ \A q \in Recorders : q # r => inserts'[q] = inserts[q]
    BY <1>2, <2>1 DEF ReportInv
  <2>6. ASSUME NEW q \in Recorders PROVE InsertAgrees(q)'
    <3>1. CASE q = r
      <4>1. \E y \in records' : y.kind = kind /\ y.body.req = body.req
        BY <2>1, <2>2
      <4>2. inserts'[q].pc = "read" /\ inserts'[q].kind = kind /\ inserts'[q].body = body
        BY <3>1, <2>5, <1>2
      <4>3. SameRequest(inserts[q].kind, inserts[q].body)' # {}
        BY <4>1, <4>2 DEF SameRequest
      <4> QED BY <4>2, <4>3 DEF InsertAgrees
    <3>2. CASE q # r
      <4>1. \A k, b : SameRequest(k, b) \subseteq SameRequest(k, b)'
        BY <2>1 DEF SameRequest
      <4>2. inserts'[q] = inserts[q] /\ InsertAgrees(q)
        BY <2>5, <3>2 DEF ReportInv
      <4>3. ASSUME inserts[q].pc = "answered", inserts[q].kind = "check"
            PROVE  [kind |-> "check", body |-> inserts[q].body] \in records' =>
                     [kind |-> "check", body |-> inserts[q].body] \in records
        <5> DEFINE y == [kind |-> "check", body |-> inserts[q].body]
        <5>1. PICK z \in records : z.kind = "check" /\ z.body.req = inserts[q].body.req
          BY <4>2, <4>3 DEF InsertAgrees, SameRequest
        <5>2. y.kind = "check" /\ y.body = inserts[q].body
          OBVIOUS
        <5> HIDE DEF y
        <5>3. y # x
          BY <5>1, <5>2, <2>2, <2>3
        <5>4. y \in records' => y \in records
          BY <5>3, <2>1
        <5> QED BY <5>4 DEF y
      <4>4. records \subseteq records'
        BY <2>1
      <4> QED BY <4>1, <4>2, <4>3, <4>4 DEF InsertAgrees
    <3> QED BY <3>1, <3>2
  <2>7. records' \subseteq RecordRow
    BY <2>1, <2>2 DEF ReportInv
  <2> QED BY <2>4, <2>5, <2>6, <2>7 DEF ReportInv
<1>4. CASE SameRequest(kind, body) # {}
  <2>1. UNCHANGED records
    BY <1>4 DEF InsertRecord
  <2>2. CASE inserts' = [inserts EXCEPT ![r] = next]
    <3> HIDE DEF next
    <3> QED BY <1>2, <1>4, <2>1, <2>2, InsertMoves
  <2>3. CASE inserts' # [inserts EXCEPT ![r] = next]
    <3> DEFINE row == [pc |-> "answered", kind |-> kind, body |-> body, answer |-> "error"]
    <3>1. kind = "representation" /\ inserts' = [inserts EXCEPT ![r] = row]
      BY <1>1, <1>4, <2>3 DEF InsertRecord, ArbitrateCheck, ArbitrateRequest, ReportInv, Kinds
    <3>2. row \in InsertRow /\ row.kind = kind /\ row.body = body
      BY <1>1 DEF InsertRow
    <3> HIDE DEF row
    <3> QED BY <1>4, <2>1, <3>1, <3>2, InsertMoves
  <2> QED BY <2>2, <2>3
<1> QED BY <1>3, <1>4

LEMMA AnswerRecordStep ==
    ASSUME ReportInv, NEW r \in Recorders, AnswerRecord(r)
    PROVE  ReportInv'
<1> DEFINE kind == inserts[r].kind  body == inserts[r].body
           row == [pc |-> "answered", kind |-> kind, body |-> body,
                   answer |-> IF [kind |-> kind, body |-> body] \in records
                                THEN "recorded" ELSE "reused"]
<1>1. /\ kind \in Kinds /\ body \in Bodies /\ inserts[r].pc = "read" /\ InsertAgrees(r)
      /\ inserts' = [inserts EXCEPT ![r] = row] /\ UNCHANGED records
  BY DEF AnswerRecord, ReportInv, InsertRow
<1>2. row \in InsertRow /\ row.kind = kind /\ row.body = body
      /\ row.answer = IF [kind |-> kind, body |-> body] \in records THEN "recorded" ELSE "reused"
  BY <1>1 DEF InsertRow
<1>3. SameRequest(kind, body) # {}
  BY <1>1 DEF InsertAgrees
<1> HIDE DEF row, kind, body
<1> QED BY <1>1, <1>2, <1>3, InsertMoves

LEMMA ReportInvariant == RecordSpec => []ReportInv
<1>1. RecordInit => ReportInv
  BY DEF RecordInit, ReportInv, InsertRow, InsertAgrees
<1>2. ReportInv /\ [BindingNext \/ ReportNext]_recordVars => ReportInv'
  <2> SUFFICES ASSUME ReportInv, [BindingNext \/ ReportNext]_recordVars PROVE ReportInv'
    OBVIOUS
  <2>1. ASSUME NEW r \in Recorders, NEW kind \in Kinds, NEW req \in RecordRequests,
               NEW s \in Subjects, NEW t \in Reports,
               NEW previous \in {NoRecord} \cup {x.body : x \in {y \in records : y.body.previous = NoRecord}},
               BeginRecord(r, kind, Body(req, s, t, previous))
        PROVE  ReportInv'
    <3>1. previous \in {NoRecord} \cup FirstBodies
      BY DEF ReportInv, RecordRow, Bodies, FirstBodies
    <3>2. Body(req, s, t, previous) \in Bodies
      BY <3>1 DEF Body, Bodies
    <3> QED BY <2>1, <3>2, BeginRecordStep
  <2>2. ASSUME NEW r \in Recorders, InsertRecord(r) \/ AnswerRecord(r) PROVE ReportInv'
    BY <2>2, InsertRecordStep, AnswerRecordStep
  <2>3. CASE UNCHANGED <<records, inserts>>
    BY <2>3 DEF ReportInv, InsertAgrees, SameRequest
  <2>4. BindingNext \/ UNCHANGED recordVars => UNCHANGED <<records, inserts>>
    <3>1. \A req, n, p, m : BindCanonicalProposition(req, n, p, m) => UNCHANGED <<records, inserts>>
      BY DEF BindCanonicalProposition
    <3>2. \A r, n : ReadPropositionBindingHistory(r, n) => UNCHANGED <<records, inserts>>
      BY DEF ReadPropositionBindingHistory
    <3>3. \A r, req, o, p, m : ChangePropositionBinding(r, req, o, p, m) => UNCHANGED <<records, inserts>>
      BY DEF ChangePropositionBinding
    <3>4. UNCHANGED recordVars => UNCHANGED <<records, inserts>>
      BY DEF recordVars
    <3> QED BY <3>1, <3>2, <3>3, <3>4 DEF BindingNext
  <2> QED BY <2>1, <2>2, <2>3, <2>4 DEF ReportNext
<1> QED BY <1>1, <1>2, PTL DEF RecordSpec

\* The same external check recorded by any number of calls at once is one row, and
\* each call that carries it is told so; a call is refused only when its request
\* stands for another body (RecordExternalCheck, whose insert skips a conflict on
\* either key).
THEOREM ChecksReplay == RecordSpec => []RetriesReplay
<1>1. ReportInv => RetriesReplay
  <2> SUFFICES ASSUME ReportInv, NEW r \in Recorders,
                      inserts[r].pc = "answered", inserts[r].kind = "check"
               PROVE  LET stored == SameRequest("check", inserts[r].body) IN
                      /\ \E x \in stored : stored = {x}
                      /\ inserts[r].answer = (IF [kind |-> "check", body |-> inserts[r].body] \in stored
                                                THEN "recorded" ELSE "reused")
    BY DEF RetriesReplay
  <2> DEFINE stored == SameRequest("check", inserts[r].body)
             row == [kind |-> "check", body |-> inserts[r].body]
  <2>1. InsertAgrees(r)
    BY DEF ReportInv
  <2>2. PICK x : x \in stored
    BY <2>1 DEF InsertAgrees
  <2>3. \A y \in stored : y = x
    BY <2>2 DEF ReportInv, SameRequest
  <2>4. row \in records <=> row \in stored
    BY DEF SameRequest
  <2> QED BY <2>1, <2>2, <2>3, <2>4 DEF InsertAgrees
<1> QED BY <1>1, ReportInvariant, PTL

-----------------------------------------------------------------------------
(* Captures and submissions.                                                *)

IntakeSpec == IntakeInit /\ [][IntakeNext]_intakeVars

CallerRow == [pc : {"idle"}] \cup Busy \cup Answered

\* What a caller knows of its attempt while it works, and what it was told.
CallerAgrees(c) ==
    /\ callers[c].pc \in {"status", "replay", "work", "store"} =>
         KnownAttempt(c) /\ AttemptOf(c).snapshot = callers[c].snapshot
    /\ callers[c].pc = "replay" => AttemptOf(c).status = "succeeded"
    /\ callers[c].pc = "store" => callers[c].output \in GoodOutputs
    /\ callers[c].pc = "answered" =>
         /\ KnownAttempt(c)
         /\ callers[c].answer = "ok" =>
              /\ AttemptOf(c).status = "succeeded" /\ callers[c].req \in batches
              /\ AttemptOf(c).output = callers[c].output
              /\ AttemptOf(c).snapshot = callers[c].snapshot
         /\ callers[c].answer = "failed" => AttemptOf(c).status = "failed"
         /\ callers[c].answer = "reused" =>
              \/ AttemptOf(c).snapshot # callers[c].snapshot
              \/ AttemptOf(c).status = "succeeded" /\ AttemptOf(c).output # callers[c].output
         /\ callers[c].answer = "invalid" => AttemptOf(c).status # "started"

IntakeTyped ==
    /\ snapshots \subseteq Source
    /\ attempts = [q \in DOMAIN attempts |-> attempts[q]]
    /\ DOMAIN attempts \subseteq SubmitRequests
    /\ \A q \in DOMAIN attempts : attempts[q] \in Attempt
    /\ callers \in [Submitters -> CallerRow]

IntakeInv == IntakeTyped /\ \A c \in Submitters : CallerAgrees(c)

\* An attempt keeps its snapshot and, once ended, everything.
AttemptsEvolve ==
    /\ batches \subseteq batches'
    /\ \A q \in DOMAIN attempts :
         /\ q \in DOMAIN attempts' /\ attempts'[q].snapshot = attempts[q].snapshot
         /\ attempts[q].status # "started" => attempts'[q] = attempts[q]

LEMMA CallerKept ==
    ASSUME IntakeInv, AttemptsEvolve, NEW c \in Submitters, callers'[c] = callers[c]
    PROVE  CallerAgrees(c)'
<1>1. CallerAgrees(c)
  BY DEF IntakeInv
<1>2. KnownAttempt(c) =>
        /\ KnownAttempt(c)' /\ AttemptOf(c)'.snapshot = AttemptOf(c).snapshot
        /\ AttemptOf(c).status # "started" => AttemptOf(c)' = AttemptOf(c)
  BY DEF KnownAttempt, AttemptOf, AttemptsEvolve
<1>3. \A q : q \in batches => q \in batches'
  BY DEF AttemptsEvolve
<1> QED BY <1>1, <1>2, <1>3 DEF CallerAgrees

\* A step of one caller.
LEMMA CallerMoves ==
    ASSUME IntakeInv, AttemptsEvolve, NEW c \in Submitters, NEW row \in CallerRow,
           callers' = [callers EXCEPT ![c] = row], snapshots' \subseteq Source,
           attempts' = [q \in DOMAIN attempts' |-> attempts'[q]],
           DOMAIN attempts' \subseteq SubmitRequests,
           \A q \in DOMAIN attempts' : attempts'[q] \in Attempt,
           callers'[c] = row => CallerAgrees(c)'
    PROVE  IntakeInv'
<1>1. /\ callers' \in [Submitters -> CallerRow] /\ callers'[c] = row
      /\ \A d \in Submitters : d # c => callers'[d] = callers[d]
  BY DEF IntakeInv, IntakeTyped
<1>2. \A d \in Submitters : CallerAgrees(d)'
  BY <1>1, CallerKept
<1> QED BY <1>1, <1>2 DEF IntakeInv, IntakeTyped

LEMMA CallerFacts ==
    ASSUME IntakeInv, NEW c \in Submitters
    PROVE  /\ callers[c] \in CallerRow /\ CallerAgrees(c)
           /\ callers[c].pc \notin {"idle", "answered"} =>
                /\ callers[c] \in Busy /\ callers[c].req \in SubmitRequests
                /\ callers[c].snapshot \in SnapshotIds /\ callers[c].output \in Outputs
           /\ KnownAttempt(c) => AttemptOf(c) \in Attempt
  BY DEF IntakeInv, IntakeTyped, CallerRow, Busy, Answered, KnownAttempt, AttemptOf

LEMMA AttemptsKept ==
    ASSUME IntakeInv, UNCHANGED attempts, batches \subseteq batches'
    PROVE  /\ AttemptsEvolve
           /\ attempts' = [q \in DOMAIN attempts' |-> attempts'[q]]
           /\ DOMAIN attempts' \subseteq SubmitRequests
           /\ \A q \in DOMAIN attempts' : attempts'[q] \in Attempt
  BY DEF IntakeInv, IntakeTyped, AttemptsEvolve

\* One attempt is entered or rewritten.
LEMMA AttemptWritten ==
    ASSUME IntakeInv, NEW q \in SubmitRequests, NEW a \in Attempt, batches \subseteq batches',
           attempts' = [x \in DOMAIN attempts \cup {q} |-> IF x = q THEN a ELSE attempts[x]],
           q \in DOMAIN attempts => attempts[q].status = "started" /\ a.snapshot = attempts[q].snapshot
    PROVE  /\ AttemptsEvolve
           /\ attempts' = [x \in DOMAIN attempts' |-> attempts'[x]]
           /\ DOMAIN attempts' \subseteq SubmitRequests
           /\ \A x \in DOMAIN attempts' : attempts'[x] \in Attempt
           /\ q \in DOMAIN attempts' /\ attempts'[q] = a
  BY DEF IntakeInv, IntakeTyped, AttemptsEvolve

\* A caller goes on to a later statement.
LEMMA ContinueRow ==
    ASSUME IntakeInv, NEW c \in Submitters, callers[c].pc \notin {"idle", "answered"},
           NEW pc \in {"status", "replay", "work", "store"}, Continue(c, pc)
    PROVE  \E row \in CallerRow : /\ callers' = [callers EXCEPT ![c] = row] /\ row.pc = pc
                                  /\ row.req = callers[c].req /\ row.output = callers[c].output
                                  /\ row.snapshot = callers[c].snapshot
<1> DEFINE row == [callers[c] EXCEPT !.pc = pc]
<1>1. callers[c] \in Busy
  BY CallerFacts
<1>2. /\ row \in CallerRow /\ row.pc = pc /\ row.req = callers[c].req
      /\ row.output = callers[c].output /\ row.snapshot = callers[c].snapshot
  BY <1>1 DEF Busy, CallerRow
<1>3. callers' = [callers EXCEPT ![c] = row]
  BY DEF Continue, IntakeInv, IntakeTyped
<1> HIDE DEF row
<1> QED BY <1>2, <1>3

LEMMA AnswerCallerRow ==
    ASSUME IntakeInv, NEW c \in Submitters, callers[c].pc \notin {"idle", "answered"},
           NEW answer \in {"ok", "invalid", "failed", "reused"},
           Answer(c, answer)
    PROVE  \E row \in CallerRow : /\ callers' = [callers EXCEPT ![c] = row] /\ row.pc = "answered"
                                  /\ row.req = callers[c].req /\ row.output = callers[c].output
                                  /\ row.snapshot = callers[c].snapshot /\ row.answer = answer
<1> DEFINE row == [pc |-> "answered", req |-> callers[c].req, snapshot |-> callers[c].snapshot,
                   output |-> callers[c].output, answer |-> answer]
<1>1. row \in CallerRow /\ row.pc = "answered" /\ row.req = callers[c].req
      /\ row.output = callers[c].output /\ row.snapshot = callers[c].snapshot
      /\ row.answer = answer
  BY CallerFacts DEF CallerRow, Answered, Answers
<1>2. callers' = [callers EXCEPT ![c] = row]
  BY DEF Answer, IntakeInv, IntakeTyped
<1> HIDE DEF row
<1> QED BY <1>1, <1>2

LEMMA BeginSubmission ==
    ASSUME IntakeInv, NEW c \in Submitters, NEW q \in SubmitRequests, NEW s \in Source,
           NEW o \in Outputs, snapshots' \subseteq Source, UNCHANGED <<attempts, batches>>,
           callers' = [callers EXCEPT ![c] = [pc |-> "start", req |-> q,
                                              snapshot |-> SnapshotId(s), output |-> o]]
    PROVE  IntakeInv'
<1> DEFINE row == [pc |-> "start", req |-> q, snapshot |-> SnapshotId(s), output |-> o]
<1>1. row \in CallerRow /\ row.pc = "start"
  BY DEF CallerRow, Busy, SnapshotIds
<1>2. callers' = [callers EXCEPT ![c] = row]
  OBVIOUS
<1> HIDE DEF row
<1>3. callers'[c] = row => CallerAgrees(c)'
  BY <1>1 DEF CallerAgrees
<1> QED BY <1>1, <1>2, <1>3, AttemptsKept, CallerMoves

LEMMA StartSubmissionStep ==
    ASSUME IntakeInv, NEW c \in Submitters, StartSubmission(c)
    PROVE  IntakeInv'
<1> DEFINE q == callers[c].req
<1>1. /\ callers[c].pc = "start" /\ q \in SubmitRequests /\ callers[c].snapshot \in SnapshotIds
      /\ UNCHANGED <<snapshots, batches>> /\ snapshots' \subseteq Source
  BY CallerFacts DEF StartSubmission, AtPc, IntakeInv, IntakeTyped
<1>2. CASE ~ KnownAttempt(c)
  <2> DEFINE a == [snapshot |-> callers[c].snapshot, status |-> "started", output |-> NoOutput]
  <2>1. a \in Attempt /\ a.snapshot = callers[c].snapshot
    BY <1>1 DEF Attempt
  <2>2. /\ attempts' = [x \in DOMAIN attempts \cup {q} |-> IF x \in DOMAIN attempts THEN attempts[x] ELSE a]
        /\ Continue(c, "status") /\ q \notin DOMAIN attempts
    BY <1>2 DEF StartSubmission, KnownAttempt
  <2> HIDE DEF a
  <2>3. attempts' = [x \in DOMAIN attempts \cup {q} |-> IF x = q THEN a ELSE attempts[x]]
    BY <2>2
  <2>4. PICK row \in CallerRow : /\ callers' = [callers EXCEPT ![c] = row] /\ row.pc = "status"
                                 /\ row.req = q /\ row.snapshot = callers[c].snapshot
    BY <1>1, <2>2, ContinueRow
  <2>5. /\ AttemptsEvolve /\ attempts' = [x \in DOMAIN attempts' |-> attempts'[x]]
        /\ DOMAIN attempts' \subseteq SubmitRequests
        /\ \A x \in DOMAIN attempts' : attempts'[x] \in Attempt
        /\ q \in DOMAIN attempts' /\ attempts'[q] = a
    BY <1>1, <2>1, <2>2, <2>3, AttemptWritten
  <2>6. callers'[c] = row => CallerAgrees(c)'
    BY <2>1, <2>4, <2>5 DEF CallerAgrees, KnownAttempt, AttemptOf
  <2> QED BY <1>1, <2>4, <2>5, <2>6, CallerMoves
<1>3. CASE KnownAttempt(c)
  <2>1. UNCHANGED attempts
    BY <1>3 DEF StartSubmission
  <2>2. CASE AttemptOf(c).snapshot = callers[c].snapshot
    <3>1. Continue(c, "status")
      BY <1>3, <2>2 DEF StartSubmission
    <3>2. PICK row \in CallerRow : /\ callers' = [callers EXCEPT ![c] = row] /\ row.pc = "status"
                                   /\ row.req = q /\ row.snapshot = callers[c].snapshot
      BY <1>1, <3>1, ContinueRow
    <3>3. callers'[c] = row => CallerAgrees(c)'
      BY <1>3, <2>1, <2>2, <3>2 DEF CallerAgrees, KnownAttempt, AttemptOf
    <3> QED BY <1>1, <2>1, <3>2, <3>3, AttemptsKept, CallerMoves
  <2>3. CASE AttemptOf(c).snapshot # callers[c].snapshot
    <3>1. Answer(c, "reused")
      BY <1>3, <2>3 DEF StartSubmission
    <3>2. PICK row \in CallerRow : /\ callers' = [callers EXCEPT ![c] = row] /\ row.pc = "answered"
                                   /\ row.req = q /\ row.snapshot = callers[c].snapshot
                                   /\ row.answer = "reused"
      BY <1>1, <3>1, AnswerCallerRow
    <3>3. callers'[c] = row => CallerAgrees(c)'
      BY <1>3, <2>1, <2>3, <3>2 DEF CallerAgrees, KnownAttempt, AttemptOf
    <3> QED BY <1>1, <2>1, <3>2, <3>3, AttemptsKept, CallerMoves
  <2> QED BY <2>2, <2>3
<1> QED BY <1>2, <1>3

LEMMA ReadStatusStep ==
    ASSUME IntakeInv, NEW c \in Submitters, ReadAttemptStatus(c)
    PROVE  IntakeInv'
<1>1. /\ callers[c].pc = "status" /\ KnownAttempt(c) /\ AttemptOf(c).snapshot = callers[c].snapshot
      /\ UNCHANGED <<snapshots, attempts, batches>> /\ snapshots' \subseteq Source
  BY CallerFacts DEF ReadAttemptStatus, AtPc, IntakeInv, IntakeTyped, CallerAgrees
<1>2. AttemptOf(c).status \in {"started", "succeeded", "failed"}
  BY <1>1, CallerFacts DEF Attempt
<1>3. \/ AttemptOf(c).status = "started" /\ Continue(c, "work")
      \/ AttemptOf(c).status = "succeeded" /\ Continue(c, "replay")
      \/ AttemptOf(c).status = "failed" /\ Answer(c, "failed")
  BY <1>2 DEF ReadAttemptStatus
<1>4. ASSUME NEW pc \in {"work", "replay"}, Continue(c, pc),
             pc = "replay" => AttemptOf(c).status = "succeeded"
      PROVE  IntakeInv'
  <2>1. PICK row \in CallerRow : /\ callers' = [callers EXCEPT ![c] = row] /\ row.pc = pc
                                 /\ row.req = callers[c].req /\ row.snapshot = callers[c].snapshot
    BY <1>1, <1>4, ContinueRow
  <2>2. callers'[c] = row => CallerAgrees(c)'
    BY <1>1, <1>4, <2>1 DEF CallerAgrees, KnownAttempt, AttemptOf
  <2> QED BY <1>1, <2>1, <2>2, AttemptsKept, CallerMoves
<1>5. CASE AttemptOf(c).status = "failed" /\ Answer(c, "failed")
  <2>1. PICK row \in CallerRow : /\ callers' = [callers EXCEPT ![c] = row] /\ row.pc = "answered"
                                 /\ row.req = callers[c].req /\ row.answer = "failed"
    BY <1>1, <1>5, AnswerCallerRow
  <2>2. callers'[c] = row => CallerAgrees(c)'
    BY <1>1, <1>5, <2>1 DEF CallerAgrees, KnownAttempt, AttemptOf
  <2> QED BY <1>1, <2>1, <2>2, AttemptsKept, CallerMoves
<1> QED BY <1>3, <1>4, <1>5

LEMMA ReplayStep ==
    ASSUME IntakeInv, NEW c \in Submitters, ReplaySucceeded(c)
    PROVE  IntakeInv'
<1>1. /\ callers[c].pc = "replay" /\ KnownAttempt(c) /\ AttemptOf(c).snapshot = callers[c].snapshot
      /\ AttemptOf(c).status = "succeeded" /\ callers[c].req \in batches
      /\ UNCHANGED <<snapshots, attempts, batches>> /\ snapshots' \subseteq Source
  BY CallerFacts DEF ReplaySucceeded, AtPc, IntakeInv, IntakeTyped, CallerAgrees
<1>2. PICK answer \in {"ok", "reused"} :
        /\ Answer(c, answer)
        /\ answer = "ok" => AttemptOf(c).output = callers[c].output
        /\ answer = "reused" => AttemptOf(c).output # callers[c].output
  <2>1. CASE AttemptOf(c).output = callers[c].output
    BY <2>1 DEF ReplaySucceeded
  <2>2. CASE AttemptOf(c).output # callers[c].output
    BY <2>2 DEF ReplaySucceeded
  <2> QED BY <2>1, <2>2
<1>3. PICK row \in CallerRow : /\ callers' = [callers EXCEPT ![c] = row] /\ row.pc = "answered"
                               /\ row.req = callers[c].req /\ row.snapshot = callers[c].snapshot
                               /\ row.output = callers[c].output /\ row.answer = answer
  BY <1>1, <1>2, AnswerCallerRow
<1>4. callers'[c] = row => CallerAgrees(c)'
  BY <1>1, <1>2, <1>3 DEF CallerAgrees, KnownAttempt, AttemptOf
<1> QED BY <1>1, <1>3, <1>4, AttemptsKept, CallerMoves

LEMMA MaterializeStep ==
    ASSUME IntakeInv, NEW c \in Submitters, MaterializeBatch(c)
    PROVE  IntakeInv'
<1> DEFINE q == callers[c].req  a == attempts[q]
           failed == [a EXCEPT !.status = "failed", !.output = callers[c].output]
<1>1. /\ callers[c].pc = "work" /\ q \in DOMAIN attempts /\ a.snapshot = callers[c].snapshot
      /\ a \in Attempt /\ q \in SubmitRequests /\ callers[c].output \in Outputs
      /\ UNCHANGED <<snapshots, batches>> /\ snapshots' \subseteq Source
  BY CallerFacts DEF MaterializeBatch, AtPc, IntakeInv, IntakeTyped, CallerAgrees, KnownAttempt,
                     AttemptOf
<1>2. CASE callers[c].output \in GoodOutputs
  <2>1. Continue(c, "store") /\ UNCHANGED attempts
    BY <1>2 DEF MaterializeBatch
  <2>2. PICK row \in CallerRow : /\ callers' = [callers EXCEPT ![c] = row] /\ row.pc = "store"
                                 /\ row.req = q /\ row.snapshot = callers[c].snapshot
                                 /\ row.output = callers[c].output
    BY <1>1, <2>1, ContinueRow
  <2>3. callers'[c] = row => CallerAgrees(c)'
    BY <1>1, <1>2, <2>1, <2>2 DEF CallerAgrees, KnownAttempt, AttemptOf
  <2> QED BY <1>1, <2>1, <2>2, <2>3, AttemptsKept, CallerMoves
<1>3. CASE callers[c].output \notin GoodOutputs
  <2>1. RecordFailure(c) /\ Answer(c, "invalid")
    BY <1>3 DEF MaterializeBatch
  <2>2. PICK row \in CallerRow : /\ callers' = [callers EXCEPT ![c] = row] /\ row.pc = "answered"
                                 /\ row.req = q /\ row.answer = "invalid"
    BY <1>1, <2>1, AnswerCallerRow
  <2>3. attempts = [x \in DOMAIN attempts |-> attempts[x]]
    BY DEF IntakeInv, IntakeTyped
  <2>4. CASE a.status = "started"
    <3>1. failed \in Attempt /\ failed.snapshot = a.snapshot /\ failed.status = "failed"
      BY <1>1, <2>4 DEF Attempt
    <3>2. attempts' = [attempts EXCEPT ![q] = failed]
      BY <2>1, <2>4 DEF RecordFailure
    <3> HIDE DEF failed
    <3>3. attempts' = [x \in DOMAIN attempts \cup {q} |-> IF x = q THEN failed ELSE attempts[x]]
      BY <1>1, <2>3, <3>2
    <3>4. /\ AttemptsEvolve /\ attempts' = [x \in DOMAIN attempts' |-> attempts'[x]]
          /\ DOMAIN attempts' \subseteq SubmitRequests
          /\ \A x \in DOMAIN attempts' : attempts'[x] \in Attempt
          /\ q \in DOMAIN attempts' /\ attempts'[q] = failed
      BY <1>1, <2>4, <3>1, <3>3, AttemptWritten
    <3>5. callers'[c] = row => CallerAgrees(c)'
      BY <2>2, <3>1, <3>4 DEF CallerAgrees, KnownAttempt, AttemptOf
    <3> QED BY <1>1, <2>2, <3>4, <3>5, CallerMoves
  <2>5. CASE a.status # "started"
    <3>1. attempts' = [attempts EXCEPT ![q] = a]
      BY <2>1, <2>5 DEF RecordFailure
    <3>2. UNCHANGED attempts
      BY <1>1, <2>3, <3>1
    <3>3. callers'[c] = row => CallerAgrees(c)'
      BY <1>1, <2>2, <2>5, <3>2 DEF CallerAgrees, KnownAttempt, AttemptOf
    <3> QED BY <1>1, <2>2, <3>2, <3>3, AttemptsKept, CallerMoves
  <2> QED BY <2>4, <2>5
<1> QED BY <1>2, <1>3

LEMMA PersistStep ==
    ASSUME IntakeInv, NEW c \in Submitters, PersistProposalSuccess(c)
    PROVE  IntakeInv'
<1> DEFINE q == callers[c].req  a == attempts[q]
           done == [a EXCEPT !.status = "succeeded", !.output = callers[c].output]
<1>1. /\ callers[c].pc = "store" /\ q \in DOMAIN attempts /\ a.snapshot = callers[c].snapshot
      /\ a \in Attempt /\ q \in SubmitRequests /\ callers[c].output \in GoodOutputs
      /\ UNCHANGED snapshots /\ snapshots' \subseteq Source
  BY CallerFacts DEF PersistProposalSuccess, AtPc, IntakeInv, IntakeTyped, CallerAgrees,
                     KnownAttempt, AttemptOf
<1>2. a.status \in {"started", "succeeded", "failed"}
  BY <1>1 DEF Attempt
<1>3. CASE a.status = "started"
  <2>1. /\ attempts' = [attempts EXCEPT ![q] = done]
        /\ batches' = batches \cup {q} /\ Answer(c, "ok")
    BY <1>3 DEF PersistProposalSuccess, AttemptOf
  <2>2. PICK row \in CallerRow : /\ callers' = [callers EXCEPT ![c] = row] /\ row.pc = "answered"
                                 /\ row.req = q /\ row.snapshot = callers[c].snapshot
                                 /\ row.output = callers[c].output /\ row.answer = "ok"
    BY <1>1, <2>1, AnswerCallerRow
  <2>3. /\ done \in Attempt /\ done.snapshot = a.snapshot /\ done.status = "succeeded"
        /\ done.output = callers[c].output
    BY <1>1, <1>3 DEF Attempt
  <2>4. attempts = [x \in DOMAIN attempts |-> attempts[x]]
    BY DEF IntakeInv, IntakeTyped
  <2> HIDE DEF done
  <2>5. attempts' = [x \in DOMAIN attempts \cup {q} |-> IF x = q THEN done ELSE attempts[x]]
    BY <1>1, <2>1, <2>4
  <2>6. /\ AttemptsEvolve /\ attempts' = [x \in DOMAIN attempts' |-> attempts'[x]]
        /\ DOMAIN attempts' \subseteq SubmitRequests
        /\ \A x \in DOMAIN attempts' : attempts'[x] \in Attempt
        /\ q \in DOMAIN attempts' /\ attempts'[q] = done
    <3>1. batches \subseteq batches'
      BY <2>1
    <3>2. attempts[q].status = "started" /\ done.snapshot = attempts[q].snapshot
      BY <1>3, <2>3
    <3> HIDE DEF q
    <3> QED BY <1>1, <2>3, <2>5, <3>1, <3>2, AttemptWritten
  <2>7. callers'[c] = row => CallerAgrees(c)'
    BY <1>1, <2>1, <2>2, <2>3, <2>6 DEF CallerAgrees, KnownAttempt, AttemptOf
  <2> QED BY <1>1, <2>2, <2>6, <2>7, CallerMoves
<1>4. CASE a.status # "started"
  <2>1. UNCHANGED <<attempts, batches>>
    BY <1>4 DEF PersistProposalSuccess, AttemptOf
  <2>2. \/ a.status = "failed" /\ Answer(c, "failed")
        \/ a.status = "succeeded" /\ a.output # callers[c].output /\ Answer(c, "reused")
        \/ a.status = "succeeded" /\ Continue(c, "replay")
    <3>1. CASE a.status = "failed"
      BY <1>4, <3>1 DEF PersistProposalSuccess, AttemptOf
    <3>2. CASE a.status = "succeeded"
      BY <1>4, <3>2 DEF PersistProposalSuccess, AttemptOf
    <3> QED BY <1>2, <1>4, <3>1, <3>2
  <2>3. CASE a.status = "failed" /\ Answer(c, "failed")
    <3>1. PICK row \in CallerRow : /\ callers' = [callers EXCEPT ![c] = row] /\ row.pc = "answered"
                                   /\ row.req = q /\ row.answer = "failed"
      BY <1>1, <2>3, AnswerCallerRow
    <3>2. callers'[c] = row => CallerAgrees(c)'
      BY <1>1, <2>1, <2>3, <3>1 DEF CallerAgrees, KnownAttempt, AttemptOf
    <3> QED BY <1>1, <2>1, <3>1, <3>2, AttemptsKept, CallerMoves
  <2>4. CASE a.status = "succeeded" /\ a.output # callers[c].output /\ Answer(c, "reused")
    <3>1. PICK row \in CallerRow : /\ callers' = [callers EXCEPT ![c] = row] /\ row.pc = "answered"
                                   /\ row.req = q /\ row.answer = "reused"
                                   /\ row.output = callers[c].output
      BY <1>1, <2>4, AnswerCallerRow
    <3>2. callers'[c] = row => CallerAgrees(c)'
      BY <1>1, <2>1, <2>4, <3>1 DEF CallerAgrees, KnownAttempt, AttemptOf
    <3> QED BY <1>1, <2>1, <3>1, <3>2, AttemptsKept, CallerMoves
  <2>5. CASE a.status = "succeeded" /\ Continue(c, "replay")
    <3>1. PICK row \in CallerRow : /\ callers' = [callers EXCEPT ![c] = row] /\ row.pc = "replay"
                                   /\ row.req = q /\ row.snapshot = callers[c].snapshot
      BY <1>1, <2>5, ContinueRow
    <3>2. callers'[c] = row => CallerAgrees(c)'
      BY <1>1, <2>1, <2>5, <3>1 DEF CallerAgrees, KnownAttempt, AttemptOf
    <3> QED BY <1>1, <2>1, <3>1, <3>2, AttemptsKept, CallerMoves
  <2> QED BY <2>2, <2>3, <2>4, <2>5
<1> QED BY <1>3, <1>4

LEMMA CallerDiesStep ==
    ASSUME IntakeInv, NEW c \in Submitters, CallerDies(c)
    PROVE  IntakeInv'
<1>1. /\ UNCHANGED <<snapshots, attempts, batches>> /\ snapshots' \subseteq Source
      /\ callers' = [callers EXCEPT ![c] = Waiting]
  BY DEF CallerDies, IntakeInv, IntakeTyped
<1>2. Waiting \in CallerRow
  BY DEF Waiting, CallerRow
<1>3. callers'[c] = Waiting => CallerAgrees(c)'
  BY DEF Waiting, CallerAgrees
<1> QED BY <1>1, <1>2, <1>3, AttemptsKept, CallerMoves

LEMMA IntakeInvariant == IntakeSpec => []IntakeInv
<1>1. IntakeInit => IntakeInv
  BY DEF IntakeInit, IntakeInv, IntakeTyped, Waiting, CallerRow, CallerAgrees
<1>2. IntakeInv /\ [IntakeNext]_intakeVars => IntakeInv'
  <2> SUFFICES ASSUME IntakeInv, [IntakeNext]_intakeVars PROVE IntakeInv'
    OBVIOUS
  <2>1. ASSUME NEW in \in Source, PersistSource(in) PROVE snapshots' \subseteq Source
    BY <2>1 DEF PersistSource, IntakeInv, IntakeTyped
  <2>2. ASSUME NEW q \in IntakeRequests, NEW in \in Source,
               \/ CaptureManualSource(q, in)
               \/ \E o \in Observers : CaptureExternalSource(q, in, o)
        PROVE  IntakeInv'
    <3>1. snapshots' \subseteq Source /\ UNCHANGED <<attempts, batches, callers>>
      BY <2>1, <2>2 DEF CaptureManualSource, CaptureExternalSource
    <3> QED BY <3>1 DEF IntakeInv, IntakeTyped, CallerAgrees, KnownAttempt, AttemptOf
  <2>3. ASSUME NEW c \in Submitters, NEW q \in SubmitRequests, NEW o \in Outputs,
               \/ \E s \in snapshots : SubmitExtractorOutput(c, q, s, o)
               \/ \E in \in Source : IngestManualText(c, q, in, o)
        PROVE  IntakeInv'
    <3>1. CASE \E s \in snapshots : SubmitExtractorOutput(c, q, s, o)
      <4>1. PICK s \in Source : SubmitExtractorOutput(c, q, s, o)
        BY <3>1 DEF IntakeInv, IntakeTyped
      <4>2. snapshots' \subseteq Source
        BY <4>1 DEF SubmitExtractorOutput, IntakeInv, IntakeTyped
      <4> QED BY <4>1, <4>2, BeginSubmission DEF SubmitExtractorOutput
    <3>2. CASE \E in \in Source : IngestManualText(c, q, in, o)
      <4>1. PICK in \in Source : IngestManualText(c, q, in, o)
        BY <3>2
      <4>2. snapshots' \subseteq Source
        BY <2>1, <4>1 DEF IngestManualText
      <4> QED BY <4>1, <4>2, BeginSubmission DEF IngestManualText
    <3> QED BY <2>3, <3>1, <3>2
  <2>4. ASSUME NEW c \in Submitters, Submission(c) PROVE IntakeInv'
    BY <2>3, <2>4, StartSubmissionStep, ReadStatusStep, ReplayStep, MaterializeStep, PersistStep,
       CallerDiesStep DEF Submission
  <2>5. CASE UNCHANGED intakeVars
    BY <2>5 DEF intakeVars, IntakeInv, IntakeTyped, CallerAgrees, KnownAttempt, AttemptOf
  <2> QED BY <2>2, <2>4, <2>5 DEF IntakeNext
<1> QED BY <1>1, <1>2, PTL DEF IntakeSpec

\* What a submitter was told stays true, for any number of callers that share
\* requests, race and die between statements: an accepted output is the attempt's
\* for good, a failed attempt never succeeds, and a request is reported reused only
\* when another source or output holds it (SubmitExtractorOutput and the two
\* persist functions).
THEOREM SubmittersToldTheTruth == IntakeSpec => []AnswersHold
<1>1. IntakeInv => AnswersHold
  <2> SUFFICES ASSUME IntakeInv, NEW c \in Submitters, AtPc(c, "answered")
               PROVE  CASE callers[c].answer = "ok" ->
                             /\ AttemptOf(c).status = "succeeded" /\ callers[c].req \in batches
                             /\ AttemptOf(c).output = callers[c].output
                             /\ AttemptOf(c).snapshot = callers[c].snapshot
                        [] callers[c].answer = "failed" -> AttemptOf(c).status = "failed"
                        [] callers[c].answer = "reused" ->
                             \/ AttemptOf(c).snapshot # callers[c].snapshot
                             \/ AttemptOf(c).status = "succeeded" /\ AttemptOf(c).output # callers[c].output
                        [] callers[c].answer = "invalid" -> AttemptOf(c).status # "started"
    BY DEF AnswersHold
  <2>1. callers[c].answer \in {"ok", "failed", "reused", "invalid"}
    BY CallerFacts DEF AtPc, CallerRow, Busy, Answered, Answers
  <2>2. CallerAgrees(c) /\ callers[c].pc = "answered"
    BY CallerFacts DEF AtPc
  <2> QED BY <2>1, <2>2 DEF CallerAgrees
<1> QED BY <1>1, IntakeInvariant, PTL

-----------------------------------------------------------------------------
(* Source generations and delta extraction.                                 *)

GenerationSpec == GenerationInit /\ [][GenerationNext]_generationVars

ParsedOutputs == {ExtractRepository(c) : c \in Commits} \cup {{}}
RunRow == [commit : Commits, definition : Definitions,
           status : {"started", "succeeded", "failed"}, output : ParsedOutputs]
ParsingRow == [delta : BOOLEAN, base : Nat \cup {NoGeneration}]
GenerationRow == [commit : Commits, definition : Definitions, output : ParsedOutputs,
                  run : RunRequests]

\* A verdict is what a parse of the snapshot gives, whenever it was stored.
RunTells(q) == /\ runs[q] \in RunRow
               /\ runs[q].commit \in captured
               /\ runs[q].status = "succeeded" => runs[q].output = ExtractRepository(runs[q].commit)

\* A call in progress holds an attempt still started, and a base that is there.
ParseTells(q) == /\ q \in DOMAIN runs /\ runs[q].status = "started"
                 /\ parsing[q] \in ParsingRow
                 /\ parsing[q].base = NoGeneration \/ parsing[q].base \in DOMAIN generations

GenerationTells(n) ==
    /\ generations[n].run \in DOMAIN runs
    /\ runs[generations[n].run].status = "succeeded"
    /\ generations[n].commit = runs[generations[n].run].commit
    /\ generations[n].output = runs[generations[n].run].output

GenerationInv ==
    /\ captured \subseteq Commits
    /\ generations \in Seq(GenerationRow)
    /\ DOMAIN runs \subseteq RunRequests
    /\ \A q \in DOMAIN runs : RunTells(q)
    /\ \A q \in DOMAIN parsing : ParseTells(q)
    /\ \A n \in DOMAIN generations : GenerationTells(n)
    /\ DeltaAgrees

\* A set of positions has a greatest one.
LEMMA GreatestPosition ==
    ASSUME NEW k \in Nat, NEW S \in SUBSET (1..k), S # {}
    PROVE  \E n \in S : \A m \in S : m <= n
<1> DEFINE T == {k - n : n \in S}
<1>1. T \subseteq Nat /\ T # {}
  <2>1. \A n \in S : k - n \in Nat
    OBVIOUS
  <2> QED BY <2>1
<1>2. PICK x \in T : \A y \in T : ~ (<<y, x>> \in OpToRel(<, Nat))
  <2> HIDE DEF T
  <2> QED BY <1>1, NatLessThanWellFounded, WFMin
<1>3. PICK n \in S : x = k - n
  BY <1>2
<1>4. ASSUME NEW m \in S PROVE m <= n
  <2>1. k - m \in T /\ k - m \in Nat /\ k - n \in Nat /\ m \in Nat /\ n \in Nat
    BY <1>1, <1>3
  <2>2. ~ (k - m < k - n)
    <3> HIDE DEF T
    <3> QED BY <1>2, <1>3, <2>1 DEF OpToRel
  <2> QED BY <2>1, <2>2
<1> QED BY <1>4

\* The base a delta run reads is a generation.
LEMMA BaseIsThere ==
    ASSUME NEW c, NEW d, generations \in Seq(GenerationRow)
    PROVE  DeltaBase(c, d) = NoGeneration \/ DeltaBase(c, d) \in DOMAIN generations
<1> DEFINE S == BaseGenerations(c, d)
<1>1. CASE S = {}
  BY <1>1 DEF DeltaBase
<1>2. CASE S # {}
  <2>1. S \subseteq DOMAIN generations
    BY DEF BaseGenerations
  <2>2. DOMAIN generations = 1..Len(generations) /\ Len(generations) \in Nat
    OBVIOUS
  <2>3. \E n \in S : \A m \in S : m <= n
    <3> HIDE DEF S
    <3> QED BY <1>2, <2>1, <2>2, GreatestPosition
  <2>4. DeltaBase(c, d) = CHOOSE n \in S : \A m \in S : m <= n
    BY <1>2 DEF DeltaBase
  <2>5. DeltaBase(c, d) \in S
    <3> HIDE DEF S
    <3> QED BY <2>3, <2>4
  <2> QED BY <2>1, <2>5
<1> QED BY <1>1, <1>2

\* Put together file by file from any other snapshot, the output is the full one.
LEMMA AssemblyIsExact ==
    ASSUME NEW b \in Commits, NEW c \in Commits
    PROVE  AssembleDelta(b, ExtractRepository(b), c) = ExtractRepository(c)
<1> DEFINE same == {path \in Paths(c) : FileDelta(b, c)[path] = "unchanged"}
           kept == {Fact(c, f.path, f.declaration) :
                      f \in {g \in ExtractRepository(b) : g.path \in same}}
           parsed == UNION {ParseFile(c, path) : path \in Paths(c) \ same}
<1>1. AssembleDelta(b, ExtractRepository(b), c) = kept \cup parsed
  BY DEF AssembleDelta
<1>2. ASSUME NEW path \in same
      PROVE  path \in Paths(c) /\ path \in Paths(b) /\ TreeOf[b][path] = TreeOf[c][path]
  <2>1. path \in Paths(c) /\ FileDelta(b, c)[path] = "unchanged"
    OBVIOUS
  <2>2. FileDelta(b, c)[path] = CASE path \notin Paths(b) -> "added"
                                  [] path \notin Paths(c) -> "deleted"
                                  [] OTHER -> IF TreeOf[b][path] = TreeOf[c][path]
                                                THEN "unchanged" ELSE "modified"
    BY <2>1 DEF FileDelta
  <2>3. path \in Paths(b)
    BY <2>1, <2>2
  <2> QED BY <2>1, <2>2, <2>3
<1>3. \A f \in ExtractRepository(b) :
        \E path \in Paths(b) : \E d \in FactsOf[TreeOf[b][path]] : f = Fact(b, path, d)
  BY DEF ExtractRepository, ParseFile
<1>4. \A path \in Paths(c) : ParseFile(c, path) \subseteq ExtractRepository(c)
  BY DEF ExtractRepository
<1> HIDE DEF same
<1>5. kept \subseteq ExtractRepository(c)
  <2> SUFFICES ASSUME NEW f \in ExtractRepository(b), f.path \in same
               PROVE  Fact(c, f.path, f.declaration) \in ExtractRepository(c)
    OBVIOUS
  <2>1. PICK path \in Paths(b) : \E d \in FactsOf[TreeOf[b][path]] : f = Fact(b, path, d)
    BY <1>3
  <2> PICK d \in FactsOf[TreeOf[b][path]] : f = Fact(b, path, d)
    BY <2>1
  <2>2. f.path = path /\ f.declaration = d
    BY DEF Fact
  <2>3. Fact(c, path, d) \in ParseFile(c, path)
    BY <1>2, <2>1, <2>2 DEF ParseFile
  <2> QED BY <1>2, <1>4, <2>2, <2>3
<1>6. parsed \subseteq ExtractRepository(c)
  BY <1>4
<1>7. ExtractRepository(c) \subseteq kept \cup parsed
  <2> SUFFICES ASSUME NEW path \in Paths(c), NEW f \in ParseFile(c, path)
               PROVE  f \in kept \cup parsed
    BY DEF ExtractRepository
  <2>1. CASE path \notin same
    BY <2>1
  <2>2. CASE path \in same
    <3>1. PICK d \in FactsOf[TreeOf[c][path]] : f = Fact(c, path, d)
      BY DEF ParseFile
    <3> DEFINE g == Fact(b, path, d)
    <3>2. path \in Paths(b) /\ d \in FactsOf[TreeOf[b][path]]
      BY <1>2, <2>2, <3>1
    <3>3. g \in ExtractRepository(b)
      BY <3>2 DEF ExtractRepository, ParseFile
    <3>4. g.path = path /\ g.declaration = d
      BY DEF Fact
    <3>5. f = Fact(c, g.path, g.declaration)
      BY <3>1, <3>4
    <3> HIDE DEF g
    <3> QED BY <2>2, <3>3, <3>4, <3>5
  <2> QED BY <2>1, <2>2
<1> QED BY <1>1, <1>5, <1>6, <1>7

\* A run's verdict, and the generations made of it, keep a base good for ever.
LEMMA BaseStaysGood ==
    ASSUME GenerationInv, NEW n \in DOMAIN generations
    PROVE  /\ BaseAuthority(n)
           /\ generations[n].commit \in Commits
           /\ generations[n].output = ExtractRepository(generations[n].commit)
<1>1. GenerationTells(n) /\ RunTells(generations[n].run)
  BY DEF GenerationInv, GenerationTells
<1>2. generations[n] \in GenerationRow
  BY DEF GenerationInv
<1> QED BY <1>1, <1>2 DEF GenerationTells, RunTells, RunRow, GenerationRow, BaseAuthority

LEMMA DecisionHolds ==
    ASSUME GenerationInv, NEW c \in Commits, NEW n, n = NoGeneration \/ n \in DOMAIN generations
    PROVE  \/ DeltaDecision(n, c) = Fallback("no_base_generation")
           \/ DeltaDecision(n, c).decision = "delta_verified"
<1>1. CASE n = NoGeneration
  BY <1>1 DEF DeltaDecision
<1>2. CASE n # NoGeneration
  <2>1. n \in DOMAIN generations
    BY <1>2
  <2>2. AssembleDelta(generations[n].commit, generations[n].output, c) = ExtractRepository(c)
    BY <2>1, BaseStaysGood, AssemblyIsExact
  <2>3. DeltaDecision(n, c) = [decision |-> "delta_verified", base |-> n]
    BY <1>2, <2>1, <2>2, BaseStaysGood DEF DeltaDecision
  <2> QED BY <2>3
<1> QED BY <1>1, <1>2

LEMMA BeginExtractionStep ==
    ASSUME GenerationInv, NEW q \in RunRequests, NEW c \in Commits, NEW d \in Definitions,
           NEW delta \in BOOLEAN, BeginExtraction(q, c, d, delta)
    PROVE  GenerationInv'
<1> DEFINE row == [commit |-> c, definition |-> d, status |-> "started", output |-> {}]
<1>1. /\ UNCHANGED <<captured, audits, generations>> /\ c \in captured
      /\ \/ q \in DOMAIN runs /\ runs' = runs
         \/ q \notin DOMAIN runs /\ runs' = With(runs, q, row)
      /\ parsing' = With(parsing, q, [delta |-> delta,
                              base |-> IF delta THEN DeltaBase(c, d) ELSE NoGeneration])
  BY DEF BeginExtraction
<1>2. row \in RunRow
  BY DEF RunRow, ParsedOutputs
<1>3. /\ DOMAIN runs' \subseteq RunRequests /\ q \in DOMAIN runs'
      /\ \A x \in DOMAIN runs : x \in DOMAIN runs' /\ runs'[x] = runs[x]
      /\ \A x \in DOMAIN runs' : x \in DOMAIN runs \/ runs'[x] = row
  BY <1>1 DEF GenerationInv, With
<1>4. \A x \in DOMAIN runs' : RunTells(x)'
  <2> SUFFICES ASSUME NEW x \in DOMAIN runs' PROVE RunTells(x)'
    OBVIOUS
  <2>1. CASE x \in DOMAIN runs
    BY <1>1, <1>3, <2>1 DEF GenerationInv, RunTells
  <2>2. CASE x \notin DOMAIN runs
    <3>1. runs'[x] = row
      BY <1>3, <2>2
    <3> QED BY <1>1, <1>2, <3>1 DEF RunTells
  <2> QED BY <2>1, <2>2
<1>5. \A x \in DOMAIN parsing' : ParseTells(x)'
  <2> SUFFICES ASSUME NEW x \in DOMAIN parsing' PROVE ParseTells(x)'
    OBVIOUS
  <2>1. CASE x # q
    <3>1. x \in DOMAIN parsing /\ parsing'[x] = parsing[x]
      BY <1>1, <2>1 DEF With
    <3> QED BY <1>1, <1>3, <3>1 DEF GenerationInv, ParseTells
  <2>2. CASE x = q
    <3> DEFINE base == IF delta THEN DeltaBase(c, d) ELSE NoGeneration
    <3>1. base = NoGeneration \/ base \in DOMAIN generations
      BY BaseIsThere DEF GenerationInv
    <3>2. DOMAIN generations \subseteq Nat
      BY DEF GenerationInv
    <3>3. parsing'[x] = [delta |-> delta, base |-> base]
      BY <1>1, <2>2 DEF With
    <3> HIDE DEF base
    <3>4. runs'[q].status = "started"
      BY <1>1, <1>3 DEF BeginExtraction
    <3> QED BY <1>1, <1>3, <2>2, <3>1, <3>2, <3>3, <3>4 DEF ParseTells, ParsingRow
  <2> QED BY <2>1, <2>2
<1>6. \A n \in DOMAIN generations' : GenerationTells(n)'
  BY <1>1, <1>3 DEF GenerationInv, GenerationTells
<1> QED BY <1>1, <1>3, <1>4, <1>5, <1>6 DEF GenerationInv, DeltaAgrees

LEMMA FinishExtractionStep ==
    ASSUME GenerationInv, NEW q \in RunRequests, FinishExtraction(q)
    PROVE  GenerationInv'
<1> DEFINE c == runs[q].commit
<1>1. /\ UNCHANGED <<captured, generations>>
      /\ q \in DOMAIN parsing /\ parsing' = Without(parsing, q)
      /\ \/ /\ Parses(c, Paths(c))
            /\ runs' = [runs EXCEPT ![q].status = "succeeded", ![q].output = ExtractRepository(c)]
            /\ audits' = IF parsing[q].delta
                           THEN With(audits, q, DeltaDecision(parsing[q].base, c)) ELSE audits
         \/ runs' = [runs EXCEPT ![q].status = "failed"] /\ audits' = audits
  BY DEF FinishExtraction
<1>2. q \in DOMAIN runs /\ RunTells(q) /\ ParseTells(q) /\ c \in Commits
  BY <1>1 DEF GenerationInv, ParseTells, RunTells, RunRow
<1>3. /\ DOMAIN runs' = DOMAIN runs
      /\ \A x \in DOMAIN runs \ {q} : runs'[x] = runs[x]
  BY <1>1
<1>4. RunTells(q)'
  <2>1. runs[q] \in RunRow /\ ExtractRepository(c) \in ParsedOutputs
    BY <1>2 DEF RunTells, ParsedOutputs
  <2>2. CASE runs' = [runs EXCEPT ![q].status = "succeeded", ![q].output = ExtractRepository(c)]
    <3>1. runs'[q] = [runs[q] EXCEPT !.status = "succeeded", !.output = ExtractRepository(c)]
      BY <1>2, <2>2
    <3>2. runs'[q] \in RunRow /\ runs'[q].commit = c /\ runs'[q].output = ExtractRepository(c)
      BY <2>1, <3>1 DEF RunRow
    <3> QED BY <1>1, <1>2, <3>2 DEF RunTells
  <2>3. CASE runs' = [runs EXCEPT ![q].status = "failed"]
    <3>1. runs'[q] = [runs[q] EXCEPT !.status = "failed"]
      BY <1>2, <2>3
    <3>2. runs'[q] \in RunRow /\ runs'[q].commit = c /\ runs'[q].status = "failed"
      BY <2>1, <3>1 DEF RunRow
    <3> QED BY <1>1, <1>2, <3>2 DEF RunTells
  <2> QED BY <1>1, <2>2, <2>3
<1>5. \A x \in DOMAIN runs' : RunTells(x)'
  BY <1>1, <1>3, <1>4 DEF GenerationInv, RunTells
<1>6. \A x \in DOMAIN parsing' : ParseTells(x)'
  BY <1>1, <1>3 DEF Without, GenerationInv, ParseTells
<1>7. \A n \in DOMAIN generations' : GenerationTells(n)'
  <2> SUFFICES ASSUME NEW n \in DOMAIN generations PROVE GenerationTells(n)'
    BY <1>1
  <2>1. GenerationTells(n)
    BY DEF GenerationInv
  <2>2. generations[n].run # q
    BY <1>2, <2>1 DEF GenerationTells, ParseTells
  <2> QED BY <1>1, <1>3, <2>1, <2>2 DEF GenerationTells
<1>8. DeltaAgrees'
  <2>1. \/ DeltaDecision(parsing[q].base, c) = Fallback("no_base_generation")
        \/ DeltaDecision(parsing[q].base, c).decision = "delta_verified"
    BY <1>2, DecisionHolds DEF ParseTells
  <2> SUFFICES ASSUME NEW x \in DOMAIN audits'
               PROVE  \/ audits'[x] = Fallback("no_base_generation")
                      \/ audits'[x].decision = "delta_verified"
    BY DEF DeltaAgrees, Fallback
  <2>2. \/ x \in DOMAIN audits /\ audits'[x] = audits[x]
        \/ audits'[x] = DeltaDecision(parsing[q].base, c)
    BY <1>1 DEF With
  <2> QED BY <2>1, <2>2 DEF GenerationInv, DeltaAgrees
<1> QED BY <1>1, <1>3, <1>5, <1>6, <1>7, <1>8 DEF GenerationInv

LEMMA CreateGenerationStep ==
    ASSUME GenerationInv, NEW q \in RunRequests, CreateGeneration(q)
    PROVE  GenerationInv'
<1> DEFINE row == [commit |-> runs[q].commit, definition |-> runs[q].definition,
                   output |-> runs[q].output, run |-> q]
<1>1. /\ UNCHANGED <<captured, runs, parsing, audits>>
      /\ q \in DOMAIN runs /\ runs[q].status = "succeeded" /\ generations' = Append(generations, row)
  BY DEF CreateGeneration
<1>2. row \in GenerationRow
  BY <1>1 DEF GenerationInv, RunTells, RunRow, GenerationRow
<1>3. row.run = q /\ row.commit = runs[q].commit /\ row.output = runs[q].output
  OBVIOUS
<1> HIDE DEF row
<1>4. /\ generations' \in Seq(GenerationRow)
      /\ DOMAIN generations \subseteq DOMAIN generations'
      /\ \A n \in DOMAIN generations : generations'[n] = generations[n]
      /\ \A n \in DOMAIN generations' : n \in DOMAIN generations \/ generations'[n] = row
  BY <1>1, <1>2 DEF GenerationInv
<1>5. \A n \in DOMAIN generations' : GenerationTells(n)'
  <2> SUFFICES ASSUME NEW n \in DOMAIN generations' PROVE GenerationTells(n)'
    OBVIOUS
  <2>1. CASE n \in DOMAIN generations
    BY <1>1, <1>4, <2>1 DEF GenerationInv, GenerationTells
  <2>2. CASE generations'[n] = row
    BY <1>1, <1>3, <2>2 DEF GenerationTells
  <2> QED BY <1>4, <2>1, <2>2
<1>6. \A x \in DOMAIN parsing' : ParseTells(x)'
  BY <1>1, <1>4 DEF GenerationInv, ParseTells
<1>7. \A x \in DOMAIN runs' : RunTells(x)'
  BY <1>1 DEF GenerationInv, RunTells
<1> QED BY <1>1, <1>4, <1>5, <1>6, <1>7 DEF GenerationInv, DeltaAgrees, Fallback

LEMMA GenerationInvariant == GenerationSpec => []GenerationInv
<1>1. GenerationInit => GenerationInv
  BY DEF GenerationInit, GenerationInv, DeltaAgrees
<1>2. GenerationInv /\ [GenerationNext]_generationVars => GenerationInv'
  <2> SUFFICES ASSUME GenerationInv, [GenerationNext]_generationVars PROVE GenerationInv'
    OBVIOUS
  <2>1. CASE \E q \in CaptureRequests, c \in Commits : CaptureGitRepositorySnapshot(q, c)
    <3>1. /\ UNCHANGED <<runs, parsing, audits, generations>>
          /\ captured \subseteq captured' /\ captured' \subseteq Commits
      BY <2>1 DEF CaptureGitRepositorySnapshot, GenerationInv
    <3>2. \A q \in DOMAIN runs' : RunTells(q)'
      BY <3>1 DEF GenerationInv, RunTells
    <3> QED BY <3>1, <3>2
            DEF GenerationInv, ParseTells, GenerationTells, DeltaAgrees, Fallback
  <2>2. CASE \E q \in RunRequests, c \in Commits, d \in Definitions, delta \in BOOLEAN :
               BeginExtraction(q, c, d, delta)
    BY <2>2, BeginExtractionStep
  <2>3. CASE \E q \in RunRequests : FinishExtraction(q)
    BY <2>3, FinishExtractionStep
  <2>4. CASE \E q \in RunRequests : ExtractionDies(q)
    <3>1. /\ UNCHANGED <<captured, runs, audits, generations>>
          /\ \A x \in DOMAIN parsing' : x \in DOMAIN parsing /\ parsing'[x] = parsing[x]
      BY <2>4 DEF ExtractionDies, Without
    <3> QED BY <3>1
            DEF GenerationInv, RunTells, ParseTells, GenerationTells, DeltaAgrees, Fallback
  <2>5. CASE \E q \in RunRequests : CreateGeneration(q)
    BY <2>5, CreateGenerationStep
  <2>6. CASE \/ \E q \in ActivateRequests, n \in DOMAIN generations : ActivateGeneration(q, n)
             \/ UNCHANGED generationVars
    <3>1. UNCHANGED <<captured, runs, parsing, audits, generations>>
      BY <2>6 DEF ActivateGeneration, generationVars
    <3> QED BY <3>1
            DEF GenerationInv, RunTells, ParseTells, GenerationTells, DeltaAgrees, Fallback
  <2> QED BY <2>1, <2>2, <2>3, <2>4, <2>5, <2>6 DEF GenerationNext
<1> QED BY <1>1, <1>2, PTL DEF GenerationSpec

\* Any number of runs, deltas, deaths and generations, in any order: the output
\* that a delta run puts together from the base it read before the parse is the
\* one of the full parse, so its only way back is the want of a base
\* (extractRepositoryGoParserDelta, assembleRepositoryGoParserDelta).
THEOREM DeltasAreExact == GenerationSpec => []DeltaAgrees
<1>1. GenerationInv => DeltaAgrees
  BY DEF GenerationInv
<1> QED BY <1>1, GenerationInvariant, PTL

-----------------------------------------------------------------------------
(* Lineages of source claims.                                               *)

LineageSpec == LineageInit /\ [][LineageNext]_lineageVars

InLineage(c, lineage) == \E slot \in Slots : lineage = <<ObjectOf[c], slot>>

\* The event that a claim replaced others by; none for a root.
Rank(c) == IF members[c].kind = "replacement" THEN members[c].by ELSE 0

\* A member is of its object's lineage, and was enrolled by an event there is.
MemberAgrees(c) ==
    /\ InLineage(c, members[c].lineage)
    /\ members[c].kind = "replacement" => members[c].by \in 1..Len(chain)

\* An edge leads from the replacement of an event to a claim that was there before it.
EdgeAgrees(e) ==
    /\ e.from \in DOMAIN members /\ e.to \in DOMAIN members
    /\ Rank(e.to) < Rank(e.from)

LineageInv ==
    /\ nodes \subseteq Claims /\ IsFiniteSet(nodes)
    /\ Len(chain) \in Nat
    /\ chain \in Seq({chain[i] : i \in 1..Len(chain)})
    /\ DOMAIN members \subseteq nodes
    /\ \A c \in DOMAIN members : MemberAgrees(c)
    /\ \A e \in supersedes : EdgeAgrees(e)
    /\ review # NoReview => review.statement \in Statements /\ review.slot \in Slots
    /\ entry # NoReview => InLineage(entry.claim, entry.lineage)

LEMMA MemberTyped ==
    ASSUME LineageInv, NEW c \in DOMAIN members
    PROVE  /\ c \in Claims /\ Rank(c) \in 0..Len(chain)
           /\ LineageOf(c) \in Lineages /\ LineageOf(c) # NoLineage
           /\ LineageOf(c)[1] = ObjectOf[c]
<1>1. c \in Claims /\ MemberAgrees(c) /\ Len(chain) \in Nat
  BY DEF LineageInv
<1>2. Rank(c) \in 0..Len(chain)
  BY <1>1 DEF Rank, MemberAgrees
<1>3. PICK slot \in Slots : members[c].lineage = <<ObjectOf[c], slot>>
  BY <1>1 DEF MemberAgrees, InLineage
<1>4. LineageOf(c) = <<ObjectOf[c], slot>>
  BY <1>3 DEF LineageOf
<1> QED BY <1>1, <1>2, <1>4, NoLineageAssumption DEF Lineages

LEMMA Unenrolled ==
    ASSUME LineageInv, NEW c, LineageOf(c) = NoLineage
    PROVE  c \notin DOMAIN members
BY MemberTyped

\* Enrolling claims that were in no lineage leaves the members as they are.
LEMMA EnrolmentAgrees ==
    ASSUME LineageInv,
           DOMAIN members \subseteq DOMAIN members',
           \A c \in DOMAIN members : members'[c] = members[c],
           \A c \in DOMAIN members' \ DOMAIN members :
               /\ c \in nodes' /\ InLineage(c, members'[c].lineage)
               /\ members'[c].kind = "replacement" => members'[c].by \in 1..Len(chain'),
           Len(chain') \in Nat, Len(chain) <= Len(chain'),
           nodes \subseteq nodes'
    PROVE  /\ DOMAIN members' \subseteq nodes'
           /\ \A c \in DOMAIN members' : MemberAgrees(c)'
           /\ \A c \in DOMAIN members : Rank(c)' = Rank(c)
           /\ \A e \in supersedes : EdgeAgrees(e)'
<1>1. DOMAIN members' \subseteq nodes'
  BY DEF LineageInv
<1>2. ASSUME NEW c \in DOMAIN members' PROVE MemberAgrees(c)'
  <2>1. CASE c \in DOMAIN members
    <3>1. MemberAgrees(c) /\ members'[c] = members[c] /\ Len(chain) \in Nat
      BY <2>1 DEF LineageInv
    <3> QED BY <3>1 DEF MemberAgrees, InLineage
  <2>2. CASE c \notin DOMAIN members
    BY <2>2 DEF MemberAgrees, InLineage
  <2> QED BY <2>1, <2>2
<1>3. ASSUME NEW c \in DOMAIN members PROVE Rank(c)' = Rank(c)
  BY DEF Rank
<1>4. ASSUME NEW e \in supersedes PROVE EdgeAgrees(e)'
  <2>1. EdgeAgrees(e)
    BY DEF LineageInv
  <2>2. Rank(e.from)' = Rank(e.from) /\ Rank(e.to)' = Rank(e.to)
    BY <2>1, <1>3 DEF EdgeAgrees
  <2> QED BY <2>1, <2>2 DEF EdgeAgrees
<1> QED BY <1>1, <1>2, <1>3, <1>4

\* An event: the replacement is a new node, and each target was there before it.
LEMMA SupersessionStep ==
    ASSUME LineageInv, NEW p \in Statements, NEW slot \in Slots, NEW targets, NEW expected,
           AdmitSupersession(p, slot, targets, expected), UNCHANGED <<review, entry>>
    PROVE  LineageInv'
<1> DEFINE c == ClaimOf[p]
           n == Len(chain) + 1
           lineage == <<ObjectOf[c], slot>>
           booted == {t \in targets : LineageOf(t) = NoLineage}
           first == Enrol(members, booted, lineage, "bootstrap", n)
           event == [statement |-> p, claim |-> c, lineage |-> lineage,
                     targets |-> targets, booted |-> booted]
<1>1. /\ c \notin nodes /\ nodes' = nodes \cup {c} /\ TargetsValid(p, slot, targets)
      /\ chain' = Append(chain, event)
      /\ members' = Enrol(first, {c}, lineage, "replacement", n)
      /\ supersedes' = supersedes \cup {[from |-> c, to |-> t, by |-> n] : t \in targets}
  BY DEF AdmitSupersession
<1>2. c \in Claims /\ Len(chain) \in Nat /\ c \notin DOMAIN members
  BY <1>1, LineageAssumption DEF LineageInv
<1>3. /\ targets \subseteq nodes /\ c \notin targets
      /\ \A t \in targets : /\ ObjectOf[t] = ObjectOf[c]
                            /\ LineageOf(t) = NoLineage \/ LineageOf(t) = lineage
  BY <1>1 DEF TargetsValid, ObjectClaims
<1>4. booted \subseteq targets /\ \A t \in targets : t \in DOMAIN members \/ t \in booted
  BY <1>3 DEF LineageOf
<1>5. \A t \in booted : t \notin DOMAIN members
  BY Unenrolled
<1>6. Len(chain') = n /\ n \in Nat /\ n \in 1..Len(chain') /\ Len(chain) <= Len(chain')
      /\ chain' \in Seq({chain'[i] : i \in 1..Len(chain')})
  <2> HIDE DEF event
  <2> QED BY <1>1, <1>2 DEF LineageInv
<1> HIDE DEF event, booted
<1>7. /\ DOMAIN first = DOMAIN members \cup booted
      /\ \A t \in booted : first[t] = [lineage |-> lineage, kind |-> "bootstrap", by |-> n]
      /\ \A d \in DOMAIN members \ booted : first[d] = members[d]
  BY DEF Enrol
<1> HIDE DEF first
<1>8. /\ DOMAIN members' = DOMAIN members \cup booted \cup {c}
      /\ members'[c] = [lineage |-> lineage, kind |-> "replacement", by |-> n]
      /\ \A d \in DOMAIN first \ {c} : members'[d] = first[d]
  BY <1>1, <1>7 DEF Enrol
<1>9. /\ \A d \in DOMAIN members : d # c /\ d \notin booted /\ members'[d] = members[d]
      /\ \A d \in booted : d # c /\ members'[d].lineage = lineage
                                 /\ members'[d].kind = "bootstrap"
  BY <1>2, <1>3, <1>4, <1>5, <1>7, <1>8
<1>10. /\ members'[c].lineage = lineage /\ members'[c].kind = "replacement" /\ members'[c].by = n
  BY <1>8
<1>11. /\ InLineage(c, lineage)
       /\ \A d \in booted : InLineage(d, lineage)
  BY <1>3, <1>4 DEF InLineage
<1>12. \A d \in DOMAIN members' \ DOMAIN members :
           /\ d \in nodes' /\ InLineage(d, members'[d].lineage)
           /\ members'[d].kind = "replacement" => members'[d].by \in 1..Len(chain')
  <2> SUFFICES ASSUME NEW d \in DOMAIN members' \ DOMAIN members
               PROVE  /\ d \in nodes' /\ InLineage(d, members'[d].lineage)
                      /\ members'[d].kind = "replacement" => members'[d].by \in 1..Len(chain')
    OBVIOUS
  <2>1. CASE d = c
    BY <2>1, <1>1, <1>6, <1>10, <1>11
  <2>2. CASE d # c
    <3>1. d \in booted
      BY <2>2, <1>8
    <3>2. d \in nodes' /\ InLineage(d, lineage)
      BY <3>1, <1>1, <1>3, <1>4, <1>11
    <3>3. members'[d].lineage = lineage /\ members'[d].kind = "bootstrap"
      BY <3>1, <1>9
    <3> QED BY <3>2, <3>3
  <2> QED BY <2>1, <2>2
<1>13. nodes \subseteq nodes' /\ nodes' \subseteq Claims /\ IsFiniteSet(nodes')
  BY <1>1, <1>2, FS_AddElement DEF LineageInv
<1> HIDE DEF c, n, lineage
<1>14. /\ DOMAIN members' \subseteq nodes'
       /\ \A d \in DOMAIN members' : MemberAgrees(d)'
       /\ \A d \in DOMAIN members : Rank(d)' = Rank(d)
       /\ \A e \in supersedes : EdgeAgrees(e)'
  BY <1>6, <1>8, <1>9, <1>12, <1>13, EnrolmentAgrees
<1>15. ASSUME NEW t \in targets PROVE EdgeAgrees([from |-> c, to |-> t, by |-> n])'
  <2>1. c \in DOMAIN members' /\ t \in DOMAIN members'
    BY <1>4, <1>8
  <2>2. Rank(c)' = n
    BY <1>10 DEF Rank
  <2>3. Rank(t)' \in 0..Len(chain)
    <3>1. CASE t \in DOMAIN members
      BY <3>1, <1>14, MemberTyped
    <3>2. CASE t \in booted
      BY <3>2, <1>2, <1>9 DEF Rank
    <3> QED BY <3>1, <3>2, <1>4
  <2>4. Rank(t)' < Rank(c)'
    BY <2>2, <2>3, <1>2 DEF n
  <2> QED BY <2>1, <2>4 DEF EdgeAgrees
<1>16. \A e \in supersedes' : EdgeAgrees(e)'
  <2> SUFFICES ASSUME NEW e \in supersedes' PROVE EdgeAgrees(e)'
    OBVIOUS
  <2>1. e \in supersedes \/ \E t \in targets : e = [from |-> c, to |-> t, by |-> n]
    BY <1>1
  <2>2. CASE e \in supersedes
    BY <2>2, <1>14
  <2>3. ASSUME NEW t \in targets, e = [from |-> c, to |-> t, by |-> n] PROVE EdgeAgrees(e)'
    <3>1. e = [from |-> c, to |-> t, by |-> n]
      BY <2>3
    <3>2. EdgeAgrees([from |-> c, to |-> t, by |-> n])'
      BY <1>15
    <3> QED BY <3>1, <3>2 DEF EdgeAgrees, Rank
  <2> QED BY <2>1, <2>2, <2>3
<1> QED BY <1>6, <1>13, <1>14, <1>16 DEF LineageInv, InLineage

LEMMA RegistrationStep ==
    ASSUME LineageInv, NEW req, ApplyRegistration(req)
    PROVE  LineageInv'
<1>1. /\ UNCHANGED <<nodes, chain, supersedes, review, entry>>
      /\ entry.claim \in nodes /\ entry.claim \notin DOMAIN members
      /\ InLineage(entry.claim, entry.lineage)
      /\ members' = Enrol(members, {entry.claim}, entry.lineage, "registration", req)
  BY DEF ApplyRegistration, Registrable, LineageInv
<1>2. /\ DOMAIN members' = DOMAIN members \cup {entry.claim}
      /\ members'[entry.claim] = [lineage |-> entry.lineage, kind |-> "registration", by |-> req]
      /\ \A c \in DOMAIN members : members'[c] = members[c]
  BY <1>1 DEF Enrol
<1>3. members'[entry.claim].lineage = entry.lineage /\ members'[entry.claim].kind = "registration"
  BY <1>2
<1>4. Len(chain') \in Nat /\ Len(chain) <= Len(chain')
  BY <1>1 DEF LineageInv
<1>5. \A c \in DOMAIN members' \ DOMAIN members :
           /\ c \in nodes' /\ InLineage(c, members'[c].lineage) /\ members'[c].kind # "replacement"
  BY <1>1, <1>2, <1>3
<1>6. /\ DOMAIN members' \subseteq nodes'
      /\ \A c \in DOMAIN members' : MemberAgrees(c)'
      /\ \A e \in supersedes : EdgeAgrees(e)'
  <2>1. nodes \subseteq nodes' /\ DOMAIN members \subseteq DOMAIN members'
    BY <1>1, <1>2
  <2> QED BY <2>1, <1>2, <1>4, <1>5, EnrolmentAgrees
<1> QED BY <1>1, <1>6 DEF LineageInv, InLineage

LEMMA LineageStarts == LineageInit => LineageInv
  BY FS_EmptySet DEF LineageInit, LineageInv

LEMMA LineageInvariant == LineageSpec => []LineageInv
<1>1. LineageInit => LineageInv
  BY LineageStarts
<1>2. LineageInv /\ [LineageNext]_lineageVars => LineageInv'
  <2> SUFFICES ASSUME LineageInv, [LineageNext]_lineageVars PROVE LineageInv'
    OBVIOUS
  <2>1. CASE \E p \in Statements : AdmitStatement(p)
    <3>1. PICK p \in Statements : AdmitStatement(p)
      BY <2>1
    <3>2. /\ UNCHANGED <<chain, members, supersedes, review, entry>>
          /\ nodes' = nodes \cup {ClaimOf[p]} /\ ClaimOf[p] \in Claims
      BY <3>1, LineageAssumption DEF AdmitStatement
    <3>3. IsFiniteSet(nodes')
      BY <3>2, FS_AddElement DEF LineageInv
    <3> QED BY <3>2, <3>3 DEF LineageInv, MemberAgrees, EdgeAgrees, Rank, InLineage
  <2>2. CASE \/ \E c \in Claims : SetWithdrawal(c)
             \/ UNCHANGED lineageVars
    <3>1. UNCHANGED <<nodes, chain, members, supersedes, review, entry>>
      BY <2>2 DEF SetWithdrawal, lineageVars
    <3> QED BY <3>1 DEF LineageInv, MemberAgrees, EdgeAgrees, Rank, InLineage
  <2>3. CASE \E p \in Statements, slot \in Slots, targets \in SUBSET nodes :
               AdmitPendingSupersession(p, slot, targets)
    BY <2>3, SupersessionStep DEF AdmitPendingSupersession
  <2>4. CASE \E p \in Statements, slot \in Slots, targets \in SUBSET nodes :
               LoadSupersessionReview(p, slot, targets)
    <3>1. /\ UNCHANGED <<nodes, chain, members, supersedes, entry>>
          /\ review'.statement \in Statements /\ review'.slot \in Slots
      BY <2>4 DEF LoadSupersessionReview
    <3> QED BY <3>1 DEF LineageInv, MemberAgrees, EdgeAgrees, Rank, InLineage
  <2>5. CASE \E req \in LineageRequests : AdmitReviewedSupersession(req)
    <3>1. /\ review # NoReview /\ UNCHANGED <<review, entry>>
          /\ AdmitSupersession(review.statement, review.slot, review.targets, review.expected)
      BY <2>5 DEF AdmitReviewedSupersession
    <3>2. review.statement \in Statements /\ review.slot \in Slots
      BY <3>1 DEF LineageInv
    <3> QED BY <3>1, <3>2, SupersessionStep
  <2>6. CASE \E req \in LineageRequests : ApplyRegistration(req)
    BY <2>6, RegistrationStep
  <2>7. CASE \E c \in Claims, slot \in Slots : LoadRegistrationReview(c, slot)
    <3>1. /\ UNCHANGED <<nodes, chain, members, supersedes, review>>
          /\ \E slot \in Slots : entry'.lineage = <<ObjectOf[entry'.claim], slot>>
      BY <2>7 DEF LoadRegistrationReview
    <3> QED BY <3>1 DEF LineageInv, MemberAgrees, EdgeAgrees, Rank, InLineage
  <2> QED BY <2>1, <2>2, <2>3, <2>4, <2>5, <2>6, <2>7 DEF LineageNext
<1> QED BY <1>1, <1>2, PTL DEF LineageSpec

\* In every interleaving of admissions, supersessions, registrations and governance,
\* for any claims and slots: a claim reported current is the only one that nothing
\* supersedes in its lineage, and every claim of its object is in some lineage
\* (ProjectJointCurrentness).
THEOREM CurrentIsTheOnlyOne == LineageSpec => []CurrentAccountsForAll
<1>1. LineageInv => CurrentAccountsForAll
  <2> SUFFICES ASSUME LineageInv, NEW c \in DOMAIN members, Currentness(c) = "current",
                      NEW d \in ObjectClaims(ObjectOf[c]) \ {c}
               PROVE  /\ LineageOf(d) # NoLineage
                      /\ LineageOf(d) = LineageOf(c) => \E e \in supersedes : e.to = d
    BY DEF CurrentAccountsForAll
  <2> DEFINE lineage == LineageOf(c)
             F == Frontier(lineage)
  <2>1. c \in F /\ ClosureAvailable(lineage) /\ Cardinality(F) = 1
    <3>1. c \in F
      BY DEF Currentness
    <3>2. ClosureAvailable(lineage)
      BY <3>1 DEF Currentness
    <3> QED BY <3>1, <3>2 DEF Currentness
  <2>2. lineage[1] = ObjectOf[c]
    BY MemberTyped
  <2>3. d \in DOMAIN members
    BY <2>1, <2>2 DEF ClosureAvailable
  <2>4. LineageOf(d) # NoLineage
    BY <2>3, MemberTyped
  <2>5. ASSUME LineageOf(d) = lineage, ~ \E e \in supersedes : e.to = d PROVE FALSE
    <3>1. d \in F
      BY <2>3, <2>5 DEF Frontier, MembersOf, LineageOf
    <3>2. F \subseteq nodes /\ IsFiniteSet(nodes)
      BY DEF Frontier, MembersOf, LineageInv
    <3>3. IsFiniteSet(F)
      BY <3>2, FS_Subset
    <3>4. \E x : F = {x}
      <4> HIDE DEF F
      <4> QED BY <2>1, <3>3, FS_Singleton
    <3> QED BY <2>1, <3>1, <3>4
  <2> QED BY <2>4, <2>5
<1> QED BY <1>1, LineageInvariant, PTL

LEMMA EdgesNeverCircle == LineageInv => \A lineage : Acyclic(EdgesOf(supersedes, lineage))
<1> SUFFICES ASSUME LineageInv, NEW lineage,
                    NEW S \in SUBSET {e.to : e \in EdgesOf(supersedes, lineage)}, S # {}
             PROVE  \E c \in S : \A e \in EdgesOf(supersedes, lineage) :
                        e.to = c => e.from \notin S
  BY DEF Acyclic
<1>1. EdgesOf(supersedes, lineage) \subseteq supersedes
  BY DEF EdgesOf
<1>2. \A e \in supersedes : EdgeAgrees(e)
  BY DEF LineageInv
<1>3. \A c \in S : c \in DOMAIN members /\ Rank(c) \in 0..Len(chain)
  BY <1>1, <1>2, MemberTyped DEF EdgeAgrees
<1>4. Len(chain) \in Nat
  BY DEF LineageInv
<1> DEFINE k == Len(chain) + 1
           R == {Rank(c) + 1 : c \in S}
<1>5. k \in Nat /\ R \in SUBSET (1..k) /\ R # {}
  <2>1. \A c \in S : Rank(c) + 1 \in 1..k
    BY <1>3, <1>4
  <2> QED BY <1>4, <2>1
<1>6. PICK n \in R : \A m \in R : m <= n
  <2> HIDE DEF k, R
  <2> QED BY <1>5, GreatestPosition
<1>7. PICK c \in S : n = Rank(c) + 1
  BY <1>6
<1>8. ASSUME NEW e \in EdgesOf(supersedes, lineage), e.to = c, e.from \in S PROVE FALSE
  <2>1. Rank(c) < Rank(e.from)
    BY <1>1, <1>2, <1>8 DEF EdgeAgrees
  <2>2. Rank(e.from) + 1 <= Rank(c) + 1
    BY <1>6, <1>7, <1>8
  <2> QED BY <1>3, <1>4, <1>8, <2>1, <2>2
<1> QED BY <1>8

\* The walk over any lineage always ends: whatever events were admitted, at some
\* claim of every set of superseded ones no edge from the set arrives, which is what
\* the read checks before it answers (closureEdgesContainCycle).
THEOREM SupersessionIsAcyclic ==
    LineageSpec => [](\A lineage : Acyclic(EdgesOf(supersedes, lineage)))
  BY EdgesNeverCircle, LineageInvariant, PTL

-----------------------------------------------------------------------------
(* The replay of a lineage.  Every member is enrolled at a revision: that of   *)
(* its event, or the one its registration is anchored to.                      *)

EnrolledAt(c) ==
    IF members[c].kind = "registration" THEN (CHOOSE r \in catalog : r.claim = c).anchor ELSE members[c].by

RegistrationAgrees(r) ==
    /\ r.claim \in DOMAIN members /\ members[r.claim] = Registered(r)
    /\ r.anchor \in 0..Len(chain)
    /\ \A q \in catalog : ObjectOf[q.claim] = ObjectOf[r.claim] => q = r
    /\ \A c \in DOMAIN members : c # r.claim /\ ObjectOf[c] = ObjectOf[r.claim] => r.anchor < EnrolledAt(c)

Enrolment(n, kind) == [lineage |-> chain[n].lineage, kind |-> kind, by |-> n]

\* Whom an event enrols, and that its other targets were there before it.
EventAgrees(n) ==
    LET e == chain[n] IN
    /\ e.claim \in DOMAIN members /\ members[e.claim] = Enrolment(n, "replacement")
    /\ e.booted \subseteq e.targets /\ e.claim \notin e.targets
    /\ \A t \in e.booted : t \in DOMAIN members /\ members[t] = Enrolment(n, "bootstrap")
    /\ \A t \in e.targets \ e.booted :
         t \in DOMAIN members /\ members[t].lineage = e.lineage /\ EnrolledAt(t) < n

\* Nobody is a member who was not enrolled by an event or a registration.
EnrolmentKnown(c) ==
    \/ \E r \in catalog : r.claim = c
    \/ \E n \in 1..Len(chain) : c = chain[n].claim \/ c \in chain[n].booted

EventEdges(n) == {[from |-> chain[n].claim, to |-> t, by |-> n] : t \in chain[n].targets}
EdgesThrough(n) == UNION {EventEdges(m) : m \in 1..n}

ReplayInv ==
    /\ LineageInv
    /\ \A r \in catalog : RegistrationAgrees(r)
    /\ \A n \in 1..Len(chain) : EventAgrees(n)
    /\ \A c \in DOMAIN members : EnrolmentKnown(c)
    /\ supersedes = EdgesThrough(Len(chain))

\* A set of naturals has a least one.
LEMMA LeastPosition ==
    ASSUME NEW S \in SUBSET Nat, S # {}
    PROVE  \E n \in S : \A m \in S : n <= m
<1>1. PICK x \in S : \A y \in S : ~ (<<y, x>> \in OpToRel(<, Nat))
  BY NatLessThanWellFounded, WFMin
<1>2. ASSUME NEW y \in S PROVE x <= y
  <2>1. x \in Nat /\ y \in Nat
    OBVIOUS
  <2>2. ~ (y < x)
    BY <1>1, <2>1 DEF OpToRel
  <2> QED BY <2>1, <2>2
<1> QED BY <1>2

LEMMA RegistrationsEnrol ==
    ASSUME ReplayInv, NEW r \in catalog
    PROVE  /\ r.claim \in DOMAIN members /\ members[r.claim] = Registered(r)
           /\ members[r.claim].kind = "registration"
           /\ \A q \in catalog : ObjectOf[q.claim] = ObjectOf[r.claim] => q = r
           /\ EnrolledAt(r.claim) = r.anchor /\ r.anchor \in 0..Len(chain)
<1>1. RegistrationAgrees(r)
  BY DEF ReplayInv
<1>2. members[r.claim] = Registered(r) /\ members[r.claim].kind = "registration"
  BY <1>1 DEF RegistrationAgrees, Registered
<1>3. \A q \in catalog : q.claim = r.claim => q = r
  BY <1>1 DEF RegistrationAgrees
<1>4. (CHOOSE q \in catalog : q.claim = r.claim) = r
  BY <1>3
<1>5. EnrolledAt(r.claim) = r.anchor
  BY <1>2, <1>4 DEF EnrolledAt
<1> QED BY <1>1, <1>2, <1>5 DEF RegistrationAgrees

LEMMA EventsEnrol ==
    ASSUME ReplayInv, NEW n \in 1..Len(chain), NEW c, c = chain[n].claim \/ c \in chain[n].booted
    PROVE  /\ c \in DOMAIN members /\ members[c].kind # "registration" /\ EnrolledAt(c) = n
           /\ members[c] = Enrolment(n, IF c = chain[n].claim THEN "replacement" ELSE "bootstrap")
<1>1. EventAgrees(n)
  BY DEF ReplayInv
<1>2. c \in chain[n].booted => c # chain[n].claim
  BY <1>1 DEF EventAgrees
<1>3. /\ c \in DOMAIN members
      /\ members[c] = Enrolment(n, IF c = chain[n].claim THEN "replacement" ELSE "bootstrap")
  BY <1>1, <1>2 DEF EventAgrees
<1>4. members[c].kind # "registration" /\ members[c].by = n
  BY <1>3 DEF Enrolment
<1> QED BY <1>3, <1>4 DEF EnrolledAt

LEMMA EnrolledWithin ==
    ASSUME ReplayInv, NEW c \in DOMAIN members
    PROVE  EnrolledAt(c) \in 0..Len(chain) /\ Len(chain) \in Nat
<1>1. EnrolmentKnown(c) /\ Len(chain) \in Nat
  BY DEF ReplayInv, LineageInv
<1>2. CASE \E r \in catalog : r.claim = c
  BY <1>1, <1>2, RegistrationsEnrol
<1>3. CASE \E n \in 1..Len(chain) : c = chain[n].claim \/ c \in chain[n].booted
  <2>1. PICK n \in 1..Len(chain) : c = chain[n].claim \/ c \in chain[n].booted
    BY <1>3
  <2>2. EnrolledAt(c) = n
    BY <2>1, EventsEnrol
  <2> QED BY <1>1, <2>2
<1> QED BY <1>1, <1>2, <1>3 DEF EnrolmentKnown

\* Revision n of the replay has the members enrolled up to n, as they are stored.
MembersAt(n) == {c \in DOMAIN members : EnrolledAt(c) <= n}
StateWith(M, n) == [ok |-> TRUE, members |-> [c \in M |-> members[c]], edges |-> EdgesThrough(n)]
EnrolledBy(n) == chain[n].booted \cup {chain[n].claim}

LEMMA EventReplays ==
    ASSUME ReplayInv, NEW n \in 1..Len(chain)
    PROVE  ReplayEvent(StateWith(MembersAt(n - 1), n - 1), n) = StateWith(MembersAt(n - 1) \cup EnrolledBy(n), n)
<1> DEFINE e == chain[n]
           M == MembersAt(n - 1)
           state == StateWith(M, n - 1)
           booted == Enrol(state.members, e.booted, e.lineage, "bootstrap", n)
           after == Enrol(booted, {e.claim}, e.lineage, "replacement", n)
<1>0. n \in Nat /\ Len(chain) \in Nat
  BY DEF ReplayInv, LineageInv
<1>1. EventAgrees(n)
  BY DEF ReplayInv
<1>2. state.ok = TRUE /\ state.members = [c \in M |-> members[c]] /\ state.edges = EdgesThrough(n - 1)
  BY DEF StateWith
<1>3. \A c \in EnrolledBy(n) : c \in DOMAIN members /\ c \notin M
  <2>1. \A c \in EnrolledBy(n) : c \in DOMAIN members /\ EnrolledAt(c) = n
    BY EventsEnrol DEF EnrolledBy
  <2> QED BY <1>0, <2>1 DEF MembersAt
<1>4. ~ Enrolled(state, e.claim)
  BY <1>2, <1>3 DEF Enrolled, EnrolledBy
<1>5. ASSUME NEW t \in e.targets
      PROVE  IF t \in e.booted THEN ~ Enrolled(state, t)
             ELSE Enrolled(state, t) /\ state.members[t].lineage = e.lineage
  <2>1. CASE t \in e.booted
    BY <1>2, <1>3, <2>1 DEF Enrolled, EnrolledBy
  <2>2. CASE t \notin e.booted
    <3>1. t \in DOMAIN members /\ members[t].lineage = e.lineage /\ EnrolledAt(t) < n
      BY <1>1, <2>2 DEF EventAgrees
    <3>2. EnrolledAt(t) <= n - 1
      BY <1>0, <3>1, EnrolledWithin
    <3>3. t \in M
      BY <3>1, <3>2 DEF MembersAt
    <3> QED BY <1>2, <2>2, <3>1, <3>3 DEF Enrolled
  <2> QED BY <2>1, <2>2
<1>6. after = [c \in M \cup EnrolledBy(n) |-> members[c]]
  <2>1. /\ e.claim \notin e.booted
        /\ members[e.claim] = [lineage |-> e.lineage, kind |-> "replacement", by |-> n]
        /\ \A t \in e.booted : members[t] = [lineage |-> e.lineage, kind |-> "bootstrap", by |-> n]
    BY <1>1 DEF EventAgrees, Enrolment
  <2> HIDE DEF e, state, M
  <2>2. booted = [c \in M \cup e.booted |-> members[c]]
    BY <1>2, <2>1 DEF Enrol
  <2>3. after = [c \in (M \cup e.booted) \cup {e.claim} |-> members[c]]
    <3> HIDE DEF booted
    <3> QED BY <2>1, <2>2 DEF Enrol
  <2>4. (M \cup e.booted) \cup {e.claim} = M \cup EnrolledBy(n)
    BY DEF EnrolledBy, e
  <2> QED BY <2>3, <2>4
<1>7. EdgesThrough(n - 1) \cup {[from |-> e.claim, to |-> t, by |-> n] : t \in e.targets} = EdgesThrough(n)
  <2>1. 1..n = (1..n - 1) \cup {n}
    BY <1>0
  <2> QED BY <2>1 DEF EdgesThrough, EventEdges
<1>8. ReplayEvent(state, n) =
        [ok |-> /\ state.ok /\ ~ Enrolled(state, e.claim)
                /\ \A t \in e.targets :
                     IF t \in e.booted THEN ~ Enrolled(state, t)
                     ELSE Enrolled(state, t) /\ state.members[t].lineage = e.lineage,
         members |-> after,
         edges |-> state.edges \cup {[from |-> e.claim, to |-> t, by |-> n] : t \in e.targets}]
  BY DEF ReplayEvent
<1> QED BY <1>2, <1>4, <1>5, <1>6, <1>7, <1>8 DEF StateWith

LEMMA RegistrationsReplayed ==
    ASSUME ReplayInv, NEW n \in 0..Len(chain), NEW M \in SUBSET MembersAt(n),
           \A r \in RegistrationsAt(n) : r.claim \notin M,
           MembersAt(n) \subseteq M \cup {r.claim : r \in RegistrationsAt(n)}
    PROVE  ReplayRegistrations(StateWith(M, n), RegistrationsAt(n)) = StateWith(MembersAt(n), n)
<1> DEFINE batch == RegistrationsAt(n)
           state == StateWith(M, n)
           D == DOMAIN state.members \cup {r.claim : r \in batch}
<1>1. state.ok = TRUE /\ state.members = [c \in M |-> members[c]] /\ state.edges = EdgesThrough(n)
  BY DEF StateWith
<1>2. batch \subseteq catalog /\ \A r \in batch : r.anchor = n
  BY DEF RegistrationsAt
<1>3. ASSUME NEW r \in batch PROVE Fresh(state, batch, r)
  <2>1. RegistrationAgrees(r) /\ r.anchor = n /\ r.claim \notin M
    BY <1>2 DEF ReplayInv
  <2>2. ASSUME NEW c \in M, ObjectOf[c] = ObjectOf[r.claim] PROVE FALSE
    <3>1. c \in DOMAIN members /\ EnrolledAt(c) <= n
      BY DEF MembersAt
    <3>2. n < EnrolledAt(c)
      BY <2>1, <2>2, <3>1 DEF RegistrationAgrees
    <3>3. EnrolledAt(c) \in 0..Len(chain) /\ Len(chain) \in Nat
      BY <3>1, EnrolledWithin
    <3> QED BY <3>1, <3>2, <3>3
  <2>3. \A q \in batch \ {r} : ObjectOf[q.claim] # ObjectOf[r.claim]
    BY <1>2, <2>1 DEF RegistrationAgrees
  <2> QED BY <1>1, <2>2, <2>3 DEF Fresh
<1>4. D = MembersAt(n)
  <2>1. \A r \in batch : r.claim \in MembersAt(n)
    <3> SUFFICES ASSUME NEW r \in batch PROVE r.claim \in MembersAt(n)
      OBVIOUS
    <3>1. r \in catalog /\ r.anchor = n
      BY <1>2
    <3>2. r.claim \in DOMAIN members /\ EnrolledAt(r.claim) = n
      BY <3>1, RegistrationsEnrol
    <3> QED BY <3>2 DEF MembersAt
  <2> QED BY <1>1, <2>1
<1>5. \A c \in MembersAt(n) : (IF Enrolled(state, c) THEN state.members[c]
                              ELSE Registered(CHOOSE r \in batch : r.claim = c)) = members[c]
  <2> SUFFICES ASSUME NEW c \in MembersAt(n)
               PROVE  (IF Enrolled(state, c) THEN state.members[c]
                       ELSE Registered(CHOOSE r \in batch : r.claim = c)) = members[c]
    OBVIOUS
  <2>1. CASE c \in M
    BY <1>1, <2>1 DEF Enrolled
  <2>2. CASE c \notin M
    <3>1. \E r \in batch : r.claim = c
      BY <2>2
    <3>2. (CHOOSE r \in batch : r.claim = c) \in batch /\ (CHOOSE r \in batch : r.claim = c).claim = c
      BY <3>1
    <3>3. members[c] = Registered(CHOOSE r \in batch : r.claim = c)
      BY <1>2, <3>2, RegistrationsEnrol
    <3> QED BY <1>1, <2>2, <3>3 DEF Enrolled
  <2> QED BY <2>1, <2>2
<1>6. ReplayRegistrations(state, batch) =
        [ok |-> state.ok /\ \A r \in batch : Fresh(state, batch, r),
         members |-> [c \in D |-> IF Enrolled(state, c) THEN state.members[c]
                                  ELSE Registered(CHOOSE r \in batch : r.claim = c)],
         edges |-> state.edges]
  BY DEF ReplayRegistrations
<1>7. [c \in D |-> IF Enrolled(state, c) THEN state.members[c]
                   ELSE Registered(CHOOSE r \in batch : r.claim = c)] = [c \in MembersAt(n) |-> members[c]]
  <2> HIDE DEF D, state, batch
  <2> QED BY <1>4, <1>5
<1> HIDE DEF D, state, batch
<1>8. ReplayRegistrations(state, batch) =
        [ok |-> TRUE, members |-> [c \in MembersAt(n) |-> members[c]], edges |-> EdgesThrough(n)]
  BY <1>1, <1>3, <1>6, <1>7
<1> QED BY <1>8 DEF StateWith, state, batch

\* One revision, from the one before it.
RevisionOf(replayed, n) ==
    ReplayRegistrations(IF n = 0 THEN ReplayStart ELSE ReplayEvent(replayed[n - 1], n), RegistrationsAt(n))

LEMMA RevisionReplays ==
    ASSUME ReplayInv, NEW n \in 0..Len(chain), NEW replayed,
           n # 0 => replayed[n - 1] = StateWith(MembersAt(n - 1), n - 1)
    PROVE  RevisionOf(replayed, n) = StateWith(MembersAt(n), n)
<1>0. n \in Nat /\ Len(chain) \in Nat
  BY DEF ReplayInv, LineageInv
<1>1. CASE n = 0
  <2>1. ReplayStart = StateWith({}, 0)
    <3>1. EdgesThrough(0) = {}
      BY DEF EdgesThrough
    <3>2. [c \in {} |-> 0] = [c \in {} |-> members[c]]
      OBVIOUS
    <3> QED BY <3>1, <3>2 DEF ReplayStart, StateWith
  <2>2. MembersAt(0) \subseteq {r.claim : r \in RegistrationsAt(0)}
    <3> SUFFICES ASSUME NEW c \in MembersAt(0) PROVE \E r \in RegistrationsAt(0) : r.claim = c
      OBVIOUS
    <3>1. c \in DOMAIN members /\ EnrolledAt(c) = 0
      BY EnrolledWithin DEF MembersAt
    <3>2. \A m \in 1..Len(chain) : ~ (c = chain[m].claim \/ c \in chain[m].booted)
      BY <1>0, <3>1, EventsEnrol
    <3>3. PICK r \in catalog : r.claim = c
      BY <3>1, <3>2 DEF ReplayInv, EnrolmentKnown
    <3> QED BY <3>1, <3>3, RegistrationsEnrol DEF RegistrationsAt
  <2>3. ReplayRegistrations(StateWith({}, n), RegistrationsAt(n)) = StateWith(MembersAt(n), n)
    BY <1>1, <2>2, RegistrationsReplayed
  <2> QED BY <1>1, <2>1, <2>3 DEF RevisionOf
<1>2. CASE n # 0
  <2> DEFINE M == MembersAt(n - 1) \cup EnrolledBy(n)
  <2>1. n \in 1..Len(chain)
    BY <1>0, <1>2
  <2>2. ReplayEvent(replayed[n - 1], n) = StateWith(M, n)
    BY <1>2, <2>1, EventReplays
  <2>3. \A c \in EnrolledBy(n) : c \in DOMAIN members /\ EnrolledAt(c) = n /\ members[c].kind # "registration"
    BY <2>1, EventsEnrol DEF EnrolledBy
  <2>4. M \subseteq MembersAt(n)
    <3>1. \A c \in MembersAt(n - 1) : c \in DOMAIN members /\ EnrolledAt(c) <= n
      <4> SUFFICES ASSUME NEW c \in MembersAt(n - 1) PROVE c \in DOMAIN members /\ EnrolledAt(c) <= n
        OBVIOUS
      <4>1. c \in DOMAIN members /\ EnrolledAt(c) <= n - 1
        BY DEF MembersAt
      <4>2. EnrolledAt(c) \in 0..Len(chain)
        BY <4>1, EnrolledWithin
      <4> QED BY <1>0, <4>1, <4>2
    <3> QED BY <1>0, <2>3, <3>1 DEF MembersAt
  <2>5. \A r \in RegistrationsAt(n) : r.claim \notin M
    <3> SUFFICES ASSUME NEW r \in RegistrationsAt(n), r.claim \in M PROVE FALSE
      OBVIOUS
    <3>1. r \in catalog /\ r.anchor = n
      BY DEF RegistrationsAt
    <3>2. EnrolledAt(r.claim) = n /\ members[r.claim].kind = "registration"
      BY <3>1, RegistrationsEnrol
    <3> QED BY <1>0, <2>3, <3>2 DEF MembersAt
  <2>6. MembersAt(n) \subseteq M \cup {r.claim : r \in RegistrationsAt(n)}
    <3> SUFFICES ASSUME NEW c \in MembersAt(n), c \notin M PROVE \E r \in RegistrationsAt(n) : r.claim = c
      OBVIOUS
    <3>1. c \in DOMAIN members /\ EnrolledAt(c) \in 0..Len(chain) /\ EnrolledAt(c) = n
      <4>1. c \in DOMAIN members /\ EnrolledAt(c) <= n /\ ~ (EnrolledAt(c) <= n - 1)
        BY DEF MembersAt
      <4> QED BY <1>0, <4>1, EnrolledWithin
    <3>2. EnrolmentKnown(c)
      BY <3>1 DEF ReplayInv
    <3>3. CASE \E r \in catalog : r.claim = c
      BY <3>1, <3>3, RegistrationsEnrol DEF RegistrationsAt
    <3>4. CASE \E m \in 1..Len(chain) : c = chain[m].claim \/ c \in chain[m].booted
      <4>1. PICK m \in 1..Len(chain) : c = chain[m].claim \/ c \in chain[m].booted
        BY <3>4
      <4>2. m = n
        BY <3>1, <4>1, EventsEnrol
      <4> QED BY <4>1, <4>2 DEF EnrolledBy
    <3> QED BY <3>2, <3>3, <3>4 DEF EnrolmentKnown
  <2>7. ReplayRegistrations(StateWith(M, n), RegistrationsAt(n)) = StateWith(MembersAt(n), n)
    <3> HIDE DEF M
    <3> QED BY <2>4, <2>5, <2>6, RegistrationsReplayed
  <2> QED BY <1>2, <2>2, <2>7 DEF RevisionOf
<1> QED BY <1>1, <1>2

\* The replay gives what is stored: a first revision to differ would differ from the
\* one before it.
LEMMA ReplayGivesStored ==
    ASSUME ReplayInv
    PROVE  /\ JointReplay.ok = TRUE /\ JointReplay.members = [c \in DOMAIN members |-> members[c]]
           /\ JointReplay.edges = supersedes
<1> DEFINE states == [n \in 0..Len(chain) |-> StateWith(MembersAt(n), n)]
<1>0. Len(chain) \in Nat
  BY DEF ReplayInv, LineageInv
<1>1. states = [n \in 0..Len(chain) |-> RevisionOf(states, n)]
  <2> SUFFICES ASSUME NEW n \in 0..Len(chain) PROVE states[n] = RevisionOf(states, n)
    OBVIOUS
  <2>1. n # 0 => states[n - 1] = StateWith(MembersAt(n - 1), n - 1)
    BY <1>0
  <2>2. states[n] = StateWith(MembersAt(n), n)
    OBVIOUS
  <2> HIDE DEF states
  <2> QED BY <2>1, <2>2, RevisionReplays
<1>2. \E f : f = [n \in 0..Len(chain) |-> RevisionOf(f, n)]
  BY <1>1
<1>3. Replayed = CHOOSE f : f = [n \in 0..Len(chain) |-> RevisionOf(f, n)]
  BY DEF Replayed, RevisionOf
<1>4. Replayed = [n \in 0..Len(chain) |-> RevisionOf(Replayed, n)]
  BY <1>2, <1>3
<1> DEFINE T == {n \in 0..Len(chain) : Replayed[n] # StateWith(MembersAt(n), n)}
<1>5. T = {}
  <2> SUFFICES ASSUME T # {} PROVE FALSE
    OBVIOUS
  <2>1. T \subseteq Nat /\ T \subseteq 0..Len(chain)
    BY <1>0
  <2>2. PICK m \in T : \A n \in T : m <= n
    <3> HIDE DEF T
    <3> QED BY <2>1, LeastPosition
  <2>3. m \in 0..Len(chain) /\ Replayed[m] # StateWith(MembersAt(m), m)
    OBVIOUS
  <2>4. m # 0 => Replayed[m - 1] = StateWith(MembersAt(m - 1), m - 1)
    <3> SUFFICES ASSUME m # 0, m - 1 \in T PROVE FALSE
      BY <1>0, <2>3
    <3> QED BY <1>0, <2>2, <2>3
  <2>5. RevisionOf(Replayed, m) = StateWith(MembersAt(m), m)
    BY <2>3, <2>4, RevisionReplays
  <2>6. Replayed[m] = RevisionOf(Replayed, m)
    BY <1>4, <2>3
  <2> QED BY <2>3, <2>5, <2>6
<1>6. Replayed[Len(chain)] = StateWith(MembersAt(Len(chain)), Len(chain))
  BY <1>0, <1>5
<1>7. MembersAt(Len(chain)) = DOMAIN members
  <2>1. \A c \in DOMAIN members : EnrolledAt(c) \in 0..Len(chain)
    BY EnrolledWithin
  <2>2. \A c \in DOMAIN members : EnrolledAt(c) <= Len(chain)
    BY <1>0, <2>1
  <2> QED BY <2>2 DEF MembersAt
<1>8. EdgesThrough(Len(chain)) = supersedes
  BY DEF ReplayInv
<1> QED BY <1>6, <1>7, <1>8 DEF JointReplay, StateWith

\* Then every read of every lineage gets its answer.
LEMMA ReplayAnswers == ReplayInv => ProjectionNeverFails
<1> SUFFICES ASSUME ReplayInv, NEW lineage \in KnownLineages PROVE Projectable(lineage)
  BY DEF ProjectionNeverFails
<1> DEFINE replay == JointReplay
           known == MembersOf(replay.members, lineage)
<1>1. replay.ok /\ replay.edges = supersedes /\ replay.members = [c \in DOMAIN members |-> members[c]]
  BY ReplayGivesStored
<1>2. LineageInv
  BY DEF ReplayInv
<1> HIDE DEF replay
<1>3. /\ DOMAIN replay.members = DOMAIN members
      /\ \A c \in DOMAIN members : replay.members[c] = members[c]
  BY <1>1
<1>4. MembersOf(members, lineage) = known
  BY <1>3 DEF MembersOf
<1>5. \A c \in known : members[c] = replay.members[c]
  BY <1>3 DEF MembersOf
<1>6. EdgesOf(supersedes, lineage) = {e \in replay.edges : e.to \in known}
  <2>1. \A e \in supersedes : e.to \in DOMAIN members
    BY <1>2 DEF LineageInv, EdgeAgrees
  <2>2. \A e \in supersedes : LineageOf(e.to) = lineage <=> e.to \in known
    BY <1>3, <2>1 DEF LineageOf, MembersOf
  <2> QED BY <1>1, <2>2 DEF EdgesOf
<1>7. Acyclic(EdgesOf(supersedes, lineage))
  BY <1>2, EdgesNeverCircle
<1>8. known \subseteq ObjectClaims(lineage[1])
  <2> SUFFICES ASSUME NEW c \in known PROVE c \in nodes /\ ObjectOf[c] = lineage[1]
    BY DEF ObjectClaims
  <2>1. c \in DOMAIN members /\ members[c].lineage = lineage
    BY <1>3 DEF MembersOf
  <2>2. LineageOf(c) = lineage /\ LineageOf(c)[1] = ObjectOf[c]
    BY <1>2, <2>1, MemberTyped DEF LineageOf
  <2> QED BY <1>2, <2>1, <2>2 DEF LineageInv
<1>9. \A c \in ObjectClaims(lineage[1]) : c \in DOMAIN members <=> c \in DOMAIN replay.members
  BY <1>3
<1> QED BY <1>1, <1>4, <1>5, <1>6, <1>7, <1>8, <1>9 DEF Projectable, replay

\* Whoever is enrolled later than everything else leaves the rest as it was.
LEMMA LaterEnrolment ==
    ASSUME ReplayInv, catalog \subseteq catalog',
           \A r \in catalog' : /\ members'[r.claim] = Registered(r)
                               /\ \A q \in catalog' : q.claim = r.claim => q = r,
           DOMAIN members \subseteq DOMAIN members',
           \A c \in DOMAIN members : members'[c] = members[c],
           NEW c \in DOMAIN members
    PROVE  EnrolledAt(c)' = EnrolledAt(c)
<1>1. CASE \E r \in catalog : r.claim = c
  <2>1. PICK r \in catalog : r.claim = c
    BY <1>1
  <2>2. EnrolledAt(c) = r.anchor /\ members[c].kind = "registration"
    BY <2>1, RegistrationsEnrol
  <2>3. (CHOOSE q \in catalog' : q.claim = c) = r
    BY <2>1
  <2> QED BY <2>2, <2>3 DEF EnrolledAt
<1>2. CASE \E n \in 1..Len(chain) : c = chain[n].claim \/ c \in chain[n].booted
  <2>1. members[c].kind # "registration"
    BY <1>2, EventsEnrol
  <2> QED BY <2>1 DEF EnrolledAt
<1> QED BY <1>1, <1>2 DEF ReplayInv, EnrolmentKnown

LEMMA SupersessionReplays ==
    ASSUME ReplayInv, LineageInv', NEW p \in Statements, NEW slot \in Slots, NEW targets, NEW expected,
           AdmitSupersession(p, slot, targets, expected), UNCHANGED catalog
    PROVE  ReplayInv'
<1> PICK n : n = Len(chain) + 1
  OBVIOUS
<1> DEFINE c == ClaimOf[p]
           lineage == <<ObjectOf[c], slot>>
           booted == {t \in targets : LineageOf(t) = NoLineage}
           event == [statement |-> p, claim |-> c, lineage |-> lineage,
                     targets |-> targets, booted |-> booted]
           first == Enrol(members, booted, lineage, "bootstrap", n)
<1>0. LineageInv /\ Len(chain) \in Nat /\ n \in Nat
  BY DEF ReplayInv, LineageInv
<1>1. /\ c \notin nodes /\ TargetsValid(p, slot, targets)
      /\ chain' = Append(chain, event)
      /\ members' = Enrol(first, {c}, lineage, "replacement", n)
      /\ supersedes' = supersedes \cup {[from |-> c, to |-> t, by |-> n] : t \in targets}
  BY DEF AdmitSupersession
<1>2. c \in Claims /\ c \notin DOMAIN members /\ DOMAIN members \subseteq nodes
  BY <1>0, <1>1, LineageAssumption DEF LineageInv
<1>3. /\ targets \subseteq nodes /\ c \notin targets
      /\ \A t \in targets : LineageOf(t) = NoLineage \/ LineageOf(t) = lineage
  BY <1>1 DEF TargetsValid, ObjectClaims
<1>4. lineage # NoLineage
  BY <1>2, NoLineageAssumption DEF Lineages
<1>5. /\ booted \subseteq targets /\ c \notin booted
      /\ \A t \in booted : t \notin DOMAIN members
      /\ \A t \in targets \ booted : t \in DOMAIN members /\ members[t].lineage = lineage
  BY <1>0, <1>3, <1>4, Unenrolled DEF LineageOf
<1>6. /\ Len(chain') = n /\ chain'[n] = event
      /\ \A m \in 1..Len(chain) : chain'[m] = chain[m]
  <2>1. chain \in Seq({chain[i] : i \in 1..Len(chain)})
    BY <1>0 DEF LineageInv
  <2> HIDE DEF event
  <2> QED BY <1>0, <1>1, <2>1
<1>7. /\ chain'[n].claim = c /\ chain'[n].lineage = lineage
      /\ chain'[n].targets = targets /\ chain'[n].booted = booted
  BY <1>6
<1> HIDE DEF event, booted
<1>8. /\ DOMAIN first = DOMAIN members \cup booted
      /\ \A t \in booted : first[t] = [lineage |-> lineage, kind |-> "bootstrap", by |-> n]
      /\ \A d \in DOMAIN members \ booted : first[d] = members[d]
  BY DEF Enrol
<1> HIDE DEF first
<1>9. /\ DOMAIN members' = DOMAIN members \cup booted \cup {c}
      /\ members'[c] = [lineage |-> lineage, kind |-> "replacement", by |-> n]
      /\ \A d \in DOMAIN first \ {c} : members'[d] = first[d]
  BY <1>1, <1>8 DEF Enrol
<1>10. /\ \A d \in DOMAIN members : members'[d] = members[d]
       /\ \A d \in booted : members'[d] = [lineage |-> lineage, kind |-> "bootstrap", by |-> n]
  BY <1>2, <1>5, <1>8, <1>9
<1>11. ASSUME NEW d \in DOMAIN members PROVE EnrolledAt(d)' = EnrolledAt(d)
  <2>1. \A r \in catalog : /\ r.claim \in DOMAIN members /\ members[r.claim] = Registered(r)
                           /\ \A q \in catalog : q.claim = r.claim => q = r
    BY RegistrationsEnrol
  <2> QED BY <1>9, <1>10, <2>1, LaterEnrolment
<1>12. \A d \in booted \cup {c} : EnrolledAt(d)' = n
  BY <1>9, <1>10 DEF EnrolledAt
<1>13. ASSUME NEW r \in catalog PROVE RegistrationAgrees(r)'
  <2>1. RegistrationAgrees(r)
    BY DEF ReplayInv
  <2>2. r.claim \in DOMAIN members' /\ members'[r.claim] = Registered(r) /\ r.anchor \in 0..Len(chain')
    BY <1>0, <1>6, <1>9, <1>10, <2>1 DEF RegistrationAgrees
  <2>3. ASSUME NEW d \in DOMAIN members', d # r.claim, ObjectOf[d] = ObjectOf[r.claim]
        PROVE  r.anchor < EnrolledAt(d)'
    <3>1. CASE d \in DOMAIN members
      BY <1>11, <2>1, <2>3, <3>1 DEF RegistrationAgrees
    <3>2. CASE d \in booted \cup {c}
      BY <1>0, <1>12, <2>1, <3>2 DEF RegistrationAgrees
    <3> QED BY <1>9, <3>1, <3>2
  <2> QED BY <2>1, <2>2, <2>3 DEF RegistrationAgrees
<1>14. ASSUME NEW m \in 1..Len(chain) PROVE EventAgrees(m)'
  <2>1. EventAgrees(m) /\ chain'[m] = chain[m]
    BY <1>6 DEF ReplayInv
  <2> QED BY <1>9, <1>10, <1>11, <2>1 DEF EventAgrees, Enrolment
<1>15. EventAgrees(n)'
  <2>1. \A t \in targets \ booted : t \in DOMAIN members /\ members'[t].lineage = lineage /\ EnrolledAt(t)' < n
    <3> SUFFICES ASSUME NEW t \in targets \ booted
                 PROVE  t \in DOMAIN members /\ members'[t].lineage = lineage /\ EnrolledAt(t)' < n
      OBVIOUS
    <3>1. t \in DOMAIN members /\ members'[t].lineage = lineage /\ EnrolledAt(t)' = EnrolledAt(t)
      BY <1>5, <1>10, <1>11
    <3>2. EnrolledAt(t) \in 0..Len(chain)
      BY <3>1, EnrolledWithin
    <3> QED BY <1>0, <3>1, <3>2
  <2>2. /\ c \in DOMAIN members' /\ members'[c] = Enrolment(n, "replacement")'
        /\ \A t \in booted : t \in DOMAIN members' /\ members'[t] = Enrolment(n, "bootstrap")'
    BY <1>7, <1>9, <1>10 DEF Enrolment
  <2> HIDE DEF c, lineage
  <2> QED BY <1>3, <1>5, <1>7, <1>9, <2>1, <2>2 DEF EventAgrees
<1>16. ASSUME NEW d \in DOMAIN members' PROVE EnrolmentKnown(d)'
  <2>1. CASE d \in DOMAIN members
    <3>1. EnrolmentKnown(d)
      BY <2>1 DEF ReplayInv
    <3>2. \A m \in 1..Len(chain) : m \in 1..Len(chain') /\ chain'[m] = chain[m]
      BY <1>0, <1>6
    <3> QED BY <3>1, <3>2 DEF EnrolmentKnown
  <2>2. CASE d \in booted \cup {c}
    <3>1. n \in 1..Len(chain')
      BY <1>0, <1>6
    <3>2. d = chain'[n].claim \/ d \in chain'[n].booted
      BY <1>7, <2>2
    <3> QED BY <3>1, <3>2 DEF EnrolmentKnown
  <2> QED BY <1>9, <2>1, <2>2
<1>17. supersedes' = EdgesThrough(Len(chain))'
  <2>1. 1..Len(chain') = (1..Len(chain)) \cup {n}
    BY <1>0, <1>6
  <2>2. \A m \in 1..Len(chain) : EventEdges(m)' = EventEdges(m)
    BY <1>6 DEF EventEdges
  <2>3. EventEdges(n)' = {[from |-> c, to |-> t, by |-> n] : t \in targets}
    BY <1>7 DEF EventEdges
  <2>4. \A x : x \in supersedes <=> \E m \in 1..Len(chain) : x \in EventEdges(m)
    BY DEF ReplayInv, EdgesThrough
  <2>5. \A x : x \in EdgesThrough(Len(chain))' <=> \E m \in 1..Len(chain') : x \in EventEdges(m)'
    BY DEF EdgesThrough
  <2>6. \A x : x \in EdgesThrough(Len(chain))' <=> x \in supersedes \/ x \in EventEdges(n)'
    BY <2>1, <2>2, <2>4, <2>5
  <2>7. \A x : x \in supersedes' <=> x \in EdgesThrough(Len(chain))'
    BY <1>1, <2>3, <2>6
  <2> QED BY <2>7
<1>18. \A m \in 1..Len(chain') : m \in 1..Len(chain) \/ m = n
  BY <1>0, <1>6
<1> QED BY <1>13, <1>14, <1>15, <1>16, <1>17, <1>18 DEF ReplayInv

LEMMA RegistrationReplays ==
    ASSUME ReplayInv, LineageInv', NEW req, ApplyRegistration(req)
    PROVE  ReplayInv'
<1> PICK c : c = entry.claim
  OBVIOUS
<1> PICK row : row = [req |-> req, claim |-> entry.claim, lineage |-> entry.lineage, anchor |-> entry.anchor]
  OBVIOUS
<1>0. LineageInv /\ Len(chain) \in Nat
  BY DEF ReplayInv, LineageInv
<1>1. /\ UNCHANGED <<chain, supersedes>> /\ catalog' = catalog \cup {row} /\ entry.anchor = Len(chain)
      /\ c \in nodes /\ c \notin DOMAIN members /\ ObjectClaims(ObjectOf[c]) = {c}
      /\ members' = Enrol(members, {c}, entry.lineage, "registration", req)
  BY DEF ApplyRegistration, Registrable
<1>2. row.claim = c /\ row.anchor = Len(chain) /\ row.lineage = entry.lineage /\ row.req = req
  BY <1>1
<1>3. /\ DOMAIN members' = DOMAIN members \cup {c}
      /\ members'[c] = Registered(row)
      /\ \A d \in DOMAIN members : d # c /\ members'[d] = members[d]
  BY <1>1, <1>2 DEF Enrol, Registered
<1>4. \A d \in DOMAIN members : ObjectOf[d] # ObjectOf[c]
  BY <1>0, <1>1 DEF LineageInv, ObjectClaims
<1>5. ASSUME NEW r \in catalog
      PROVE  /\ r.claim \in DOMAIN members /\ members[r.claim] = Registered(r)
             /\ ObjectOf[r.claim] # ObjectOf[c]
             /\ \A q \in catalog : ObjectOf[q.claim] = ObjectOf[r.claim] => q = r
  BY <1>4, RegistrationsEnrol
<1>6. ASSUME NEW r \in catalog', NEW q \in catalog', ObjectOf[q.claim] = ObjectOf[r.claim] PROVE q = r
  BY <1>1, <1>2, <1>5, <1>6
<1>7. ASSUME NEW r \in catalog' PROVE r.claim \in DOMAIN members' /\ members'[r.claim] = Registered(r)
  BY <1>1, <1>2, <1>3, <1>5
<1>8. ASSUME NEW d \in DOMAIN members PROVE EnrolledAt(d)' = EnrolledAt(d)
  BY <1>1, <1>3, <1>6, <1>7, LaterEnrolment
<1>9. EnrolledAt(c)' = Len(chain)
  <2>1. row \in catalog' /\ \A q \in catalog' : q.claim = c => q = row
    BY <1>1, <1>2, <1>6
  <2>2. (CHOOSE q \in catalog' : q.claim = c) = row
    BY <1>2, <2>1
  <2>3. members'[c].kind = "registration"
    BY <1>3 DEF Registered
  <2> QED BY <1>2, <2>2, <2>3 DEF EnrolledAt
<1>10. ASSUME NEW r \in catalog' PROVE RegistrationAgrees(r)'
  <2>1. r.anchor \in 0..Len(chain')
    BY <1>0, <1>1, <1>2 DEF ReplayInv, RegistrationAgrees
  <2>2. ASSUME NEW d \in DOMAIN members', d # r.claim, ObjectOf[d] = ObjectOf[r.claim]
        PROVE  r.anchor < EnrolledAt(d)'
    <3>1. CASE r = row
      BY <1>2, <1>3, <1>4, <2>2, <3>1
    <3>2. CASE r \in catalog /\ d \in DOMAIN members
      BY <1>8, <2>2, <3>2 DEF ReplayInv, RegistrationAgrees
    <3>3. CASE r \in catalog /\ d = c
      BY <1>5, <2>2, <3>3
    <3> QED BY <1>1, <1>3, <3>1, <3>2, <3>3
  <2> QED BY <1>6, <1>7, <2>1, <2>2 DEF RegistrationAgrees
<1>11. ASSUME NEW m \in 1..Len(chain) PROVE EventAgrees(m)'
  <2>1. EventAgrees(m) /\ chain' = chain
    BY <1>1 DEF ReplayInv
  <2> QED BY <1>3, <1>8, <2>1 DEF EventAgrees, Enrolment
<1>12. ASSUME NEW d \in DOMAIN members' PROVE EnrolmentKnown(d)'
  <2>1. CASE d \in DOMAIN members
    BY <1>1, <2>1 DEF ReplayInv, EnrolmentKnown
  <2>2. CASE d = c
    BY <1>1, <1>2, <2>2 DEF EnrolmentKnown
  <2> QED BY <1>3, <2>1, <2>2
<1>13. supersedes' = EdgesThrough(Len(chain))'
  BY <1>1 DEF ReplayInv, EdgesThrough, EventEdges
<1> QED BY <1>1, <1>10, <1>11, <1>12, <1>13 DEF ReplayInv

LEMMA ReplayInvariant == LineageSpec => []ReplayInv
<1>1. LineageInit => ReplayInv
  <2> SUFFICES ASSUME LineageInit PROVE ReplayInv
    OBVIOUS
  <2>1. LineageInv
    BY LineageStarts
  <2>2. catalog = {} /\ DOMAIN members = {} /\ Len(chain) = 0 /\ supersedes = {}
    BY DEF LineageInit
  <2> QED BY <2>1, <2>2 DEF ReplayInv, EdgesThrough
<1>2. ASSUME ReplayInv, LineageInv', [LineageNext]_lineageVars PROVE ReplayInv'
  <2>1. CASE UNCHANGED <<chain, members, supersedes, catalog>>
    <3>1. \A c : EnrolledAt(c)' = EnrolledAt(c)
      BY <2>1 DEF EnrolledAt
    <3>2. \A r \in catalog : RegistrationAgrees(r)'
      BY <1>2, <2>1, <3>1 DEF ReplayInv, RegistrationAgrees
    <3>3. \A n \in 1..Len(chain) : EventAgrees(n)'
      BY <1>2, <2>1, <3>1 DEF ReplayInv, EventAgrees, Enrolment
    <3>4. \A c \in DOMAIN members : EnrolmentKnown(c)'
      BY <1>2, <2>1 DEF ReplayInv, EnrolmentKnown
    <3>5. supersedes' = EdgesThrough(Len(chain))'
      BY <1>2, <2>1 DEF ReplayInv, EdgesThrough, EventEdges
    <3> QED BY <1>2, <2>1, <3>2, <3>3, <3>4, <3>5 DEF ReplayInv
  <2>2. CASE \E p \in Statements, slot \in Slots, targets \in SUBSET nodes :
               AdmitPendingSupersession(p, slot, targets)
    BY <1>2, <2>2, SupersessionReplays DEF AdmitPendingSupersession
  <2>3. CASE \E req \in LineageRequests : AdmitReviewedSupersession(req)
    <3>1. /\ review # NoReview /\ UNCHANGED catalog
          /\ AdmitSupersession(review.statement, review.slot, review.targets, review.expected)
      BY <2>3 DEF AdmitReviewedSupersession
    <3>2. review.statement \in Statements /\ review.slot \in Slots
      BY <1>2, <3>1 DEF ReplayInv, LineageInv
    <3> QED BY <1>2, <3>1, <3>2, SupersessionReplays
  <2>4. CASE \E req \in LineageRequests : ApplyRegistration(req)
    BY <1>2, <2>4, RegistrationReplays
  <2>5. CASE \/ \E p \in Statements : AdmitStatement(p)
             \/ \E c \in Claims : SetWithdrawal(c)
             \/ \E p \in Statements, slot \in Slots, targets \in SUBSET nodes :
                  LoadSupersessionReview(p, slot, targets)
             \/ \E c \in Claims, slot \in Slots : LoadRegistrationReview(c, slot)
             \/ UNCHANGED lineageVars
    <3>1. UNCHANGED <<chain, members, supersedes, catalog>>
      BY <2>5 DEF AdmitStatement, SetWithdrawal, LoadSupersessionReview, LoadRegistrationReview, lineageVars
    <3> QED BY <2>1, <3>1
  <2> QED BY <1>2, <2>2, <2>3, <2>4, <2>5 DEF LineageNext
<1> QED BY <1>1, <1>2, LineageInvariant, PTL DEF LineageSpec

\* However claims are admitted, superseded, registered, withdrawn and restored,
\* the rows written one event at a time are those that a replay of events and
\* registrations gives: no read of a lineage is ever refused
\* (replayJointMembership, validateJointMaterialization).
THEOREM ReadsAreNeverRefused == LineageSpec => []ProjectionNeverFails
  BY ReplayInvariant, ReplayAnswers, PTL

=============================================================================

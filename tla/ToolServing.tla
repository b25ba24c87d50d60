---------------------------- MODULE ToolServing ----------------------------
(***************************************************************************)
(* Serving and calling tools: the stdio server and the client of internal/ *)
(* mcpstdio, the authorization in front of the intake and query backends   *)
(* (mcpadmin, mcpquery), and the bounded lanes behind which the intake     *)
(* backend works, one per source system (mcpadmin/source_ingress.go).      *)
(*                                                                         *)
(* The server answers its messages one after the other; the backend may    *)
(* also be called concurrently, as its own tests do, and Close may come    *)
(* while calls are in flight.  A client call starts a process of its own,  *)
(* which may answer, stop or hang at any point.                            *)
(***************************************************************************)
EXTENDS Naturals, Sequences, FiniteSets

CONSTANTS Calls,        \* calls of the backend
          ServedTools,  \* tool names
          ClassOf,      \* the authority class of each tool
          LaneOf,       \* the lane of each tool, NoLane when it has none
          Lanes, NoLane,
          LaneSize,     \* the buffer of a lane
          Clients       \* calls made of other servers

ASSUME ServingAssumption ==
    /\ LaneSize \in Nat \ {0}
    /\ ClassOf \in [ServedTools -> {"intake", "review", "read", "operator"}]
    /\ LaneOf \in [ServedTools -> Lanes \cup {NoLane}]

VARIABLES
  profile,    \* "down", or the profile the process serves
  closing,    \* Close has cancelled the ingress
  calls,      \* calls[c]: the state of call c
  cancelled,  \* calls whose context is cancelled
  lanes,      \* lanes[l]: the jobs waiting and the one running
  results,    \* results[c]: the buffered result channel of c
  clients     \* clients[x]: a call of another server and its process

servingVars == <<profile, closing, calls, cancelled, lanes, results, clients>>

ServingInit ==
    /\ profile = "down" /\ closing = FALSE /\ cancelled = {}
    /\ calls = [c \in Calls |-> [pc |-> "none"]]
    /\ lanes = [l \in Lanes |-> [up |-> FALSE, jobs |-> <<>>, running |-> {}]]
    /\ results = [c \in Calls |-> "none"]
    /\ clients = [x \in Clients |-> [pc |-> "idle", child |-> "none"]]

-----------------------------------------------------------------------------
(* Startup.                                                                 *)

\* The classes a profile may use.  Other profiles have backends of their own.
Allows(p) == CASE p = "intake" -> {"intake"}
               [] p = "source-claim-reviewer" -> {"review"}
               [] p = "query" -> {"read"}

\* The listed tools are those of the profile, each once and with the reviewed
\* schema; those of a query process are read-only.
Registry == [complete : BOOLEAN, once : BOOLEAN, asReviewed : BOOLEAN]
Reviewed(registry) == registry.complete /\ registry.once /\ registry.asReviewed

\* Only the intake profile works behind lanes.  A registry that differs from
\* the reviewed one stops the startup.
OpenServer(p, registry) ==
    /\ profile = "down" /\ ~ closing
    /\ Reviewed(registry)
    /\ profile' = p
    /\ lanes' = [l \in Lanes |-> [lanes[l] EXCEPT !.up = (p = "intake")]]
    /\ UNCHANGED <<closing, calls, cancelled, results, clients>>

\* A query process serves one principal through one read-only database role.
OpenQueryServer(registry, readOnlyRole) ==
    /\ profile = "down" /\ ~ closing
    /\ Reviewed(registry) /\ readOnlyRole
    /\ profile' = "query"
    /\ UNCHANGED <<closing, calls, cancelled, lanes, results, clients>>

-----------------------------------------------------------------------------
(* Calls.                                                                   *)

Answer(c, answer) == calls' = [calls EXCEPT ![c] = [pc |-> "answered", answer |-> answer]]

\* The server knows the tool, the profile allows it and the caller still waits.
Authorized(c, t) ==
    /\ ClassOf[t] \in Allows(profile)
    /\ c \notin cancelled

Routed(t) == profile = "intake" /\ LaneOf[t] # NoLane

CallTool(c, t) ==
    /\ profile # "down" /\ calls[c].pc = "none"
    /\ IF ~ Authorized(c, t) THEN Answer(c, "refused")
       ELSE calls' = [calls EXCEPT ![c] =
              [pc |-> IF Routed(t) THEN "offering" ELSE "direct", tool |-> t]]
    /\ UNCHANGED <<profile, closing, cancelled, lanes, results, clients>>

\* A tool without a lane runs on the caller's own goroutine.
DirectDone(c, answer) ==
    /\ calls[c].pc = "direct"
    /\ Answer(c, answer)
    /\ UNCHANGED <<profile, closing, cancelled, lanes, results, clients>>

CancelCaller(c) ==
    /\ c \notin cancelled
    /\ cancelled' = cancelled \cup {c}
    /\ UNCHANGED <<profile, closing, calls, lanes, results, clients>>

Enqueue(c) ==
    LET l == LaneOf[calls[c].tool]
    IN  /\ calls[c].pc = "offering"
        /\ Len(lanes[l].jobs) < LaneSize
        /\ lanes' = [lanes EXCEPT ![l].jobs = Append(@, c)]
        /\ calls' = [calls EXCEPT ![c].pc = "waiting"]
        /\ UNCHANGED <<profile, closing, cancelled, results, clients>>

\* Wrong variant: once a job is accepted, only its result ends the wait.
TurnedAwayOffering(c) == calls[c].pc = "offering" /\ (closing \/ c \in cancelled)

TurnedAway(c) == calls[c].pc \in {"offering", "waiting"} /\ (closing \/ c \in cancelled)

GiveUp(c) ==
    /\ TurnedAway(c)
    /\ Answer(c, "cancelled")
    /\ UNCHANGED <<profile, closing, cancelled, lanes, results, clients>>

Receive(c) ==
    /\ calls[c].pc = "waiting" /\ results[c] # "none"
    /\ Answer(c, results[c])
    /\ UNCHANGED <<profile, closing, cancelled, lanes, results, clients>>

-----------------------------------------------------------------------------
(* Lanes.                                                                   *)

Serving(l) == lanes[l].up /\ lanes[l].running = {}

\* Wrong variant: runs whatever job it received.
OpenAnyhow == TRUE

\* A lane that receives a job as the ingress closes looks again.
StillOpen == ~ closing

\* The next job: dropped when the ingress closed meanwhile, answered at once
\* when its caller is gone, run otherwise.
TakeJob(l) ==
    LET c == Head(lanes[l].jobs)
        rest == Tail(lanes[l].jobs)
    IN  /\ Serving(l) /\ lanes[l].jobs # <<>>
        /\ lanes' = [lanes EXCEPT ![l] =
             CASE ~ StillOpen -> [@ EXCEPT !.jobs = rest, !.up = FALSE]
               [] StillOpen /\ c \in cancelled -> [@ EXCEPT !.jobs = rest]
               [] StillOpen /\ c \notin cancelled -> [@ EXCEPT !.jobs = rest, !.running = {c}]]
        /\ results' = [results EXCEPT ![c] = IF StillOpen /\ c \in cancelled THEN "cancelled" ELSE @]
        /\ UNCHANGED <<profile, closing, calls, cancelled, clients>>

\* A job ends as it likes; its context ends with the caller's or the ingress's.
FinishJob(l, answer) ==
    /\ lanes[l].running # {}
    /\ lanes' = [lanes EXCEPT ![l].running = {}]
    /\ results' = [c \in Calls |-> IF c \in lanes[l].running THEN answer ELSE results[c]]
    /\ UNCHANGED <<profile, closing, calls, cancelled, clients>>

LaneEnds(l) ==
    /\ Serving(l) /\ closing
    /\ lanes' = [lanes EXCEPT ![l].up = FALSE]
    /\ UNCHANGED <<profile, closing, calls, cancelled, results, clients>>

\* The end of the input, or of the process's work.
Close ==
    /\ profile # "down" /\ ~ closing
    /\ closing' = TRUE
    /\ UNCHANGED <<profile, calls, cancelled, lanes, results, clients>>

\* Close returns, and the process ends, when all lanes have.
Closed ==
    /\ closing /\ profile # "down"
    /\ \A l \in Lanes : ~ lanes[l].up
    /\ profile' = "down"
    /\ UNCHANGED <<closing, calls, cancelled, lanes, results, clients>>

-----------------------------------------------------------------------------
(* The client: one process per call.                                        *)

\* What the process lists under the name: listed once, read-only, with the
\* schema that was pinned.
Listing == [once : BOOLEAN, readOnly : BOOLEAN, pinned : BOOLEAN]

Step(x, from, to) ==
    /\ clients[x].pc = from
    /\ clients' = [clients EXCEPT ![x].pc = to]
    /\ UNCHANGED <<profile, closing, calls, cancelled, lanes, results>>

StartChild(x) ==
    /\ clients[x].pc = "idle"
    /\ clients' = [clients EXCEPT ![x] = [pc |-> "initialize", child |-> "alive"]]
    /\ UNCHANGED <<profile, closing, calls, cancelled, lanes, results>>

Initialized(x, samePart) == Step(x, "initialize", IF samePart THEN "list" ELSE "failing")

\* A discovery reads all pages and calls nothing; a call needs exactly the
\* pinned tool.
Discovered(x, listing) == Step(x, "list", IF listing.once THEN "closing" ELSE "failing")
Listed(x, listing) ==
    Step(x, "list", IF listing.once /\ listing.readOnly /\ listing.pinned THEN "call" ELSE "failing")

Called(x, good) == Step(x, "call", IF good THEN "closing" ELSE "failing")

\* The process stopped, or answered what is no answer, or the 30 seconds ended.
CallFails(x) == \E pc \in {"initialize", "list", "call", "closing"} : Step(x, pc, "failing")

\* The process ends after its input was closed.
ChildEnds(x) ==
    /\ clients[x].pc = "closing"
    /\ clients' = [clients EXCEPT ![x] = [pc |-> "answered", child |-> "gone"]]
    /\ UNCHANGED <<profile, closing, calls, cancelled, lanes, results>>

\* What the adapter of a provider makes of the answer: it is about the object
\* that was asked for, at a revision the adapter can read, from a location.
Document == [object : {"asked", "other"}, revision : BOOLEAN, location : BOOLEAN]
Normalized(x, document) ==
    Step(x, "answered", IF document = [object |-> "asked", revision |-> TRUE, location |-> TRUE]
                        THEN "document" ELSE "refused")

\* The process is killed and waited for before a failed call returns.
Reaped(x) == [pc |-> "failed", child |-> "gone"]

KillChild(x) ==
    /\ clients[x].pc = "failing"
    /\ clients' = [clients EXCEPT ![x] = Reaped(x)]
    /\ UNCHANGED <<profile, closing, calls, cancelled, lanes, results>>

-----------------------------------------------------------------------------

Answers == {"done", "failed"}

CallStep(c) == Enqueue(c) \/ GiveUp(c) \/ Receive(c) \/ \E a \in Answers : DirectDone(c, a)
LaneStep(l) == TakeJob(l) \/ LaneEnds(l) \/ \E a \in Answers : FinishJob(l, a)
ClientStep(x) == CallFails(x) \/ KillChild(x)

ServerNext ==
    \/ \E r \in Registry : \/ \E p \in {"intake", "source-claim-reviewer"} : OpenServer(p, r)
                           \/ \E ro \in BOOLEAN : OpenQueryServer(r, ro)
    \/ \E c \in Calls : CallStep(c) \/ CancelCaller(c) \/ \E t \in ServedTools : CallTool(c, t)
    \/ \E l \in Lanes : LaneStep(l)
    \/ Close \/ Closed

ClientNext ==
    \E x \in Clients :
      \/ StartChild(x) \/ ChildEnds(x) \/ ClientStep(x)
      \/ \E ok \in BOOLEAN : Initialized(x, ok) \/ Called(x, ok)
      \/ \E document \in Document : Normalized(x, document)
      \/ \E listing \in Listing : Listed(x, listing) \/ Discovered(x, listing)

-----------------------------------------------------------------------------
(* Correctness.                                                             *)

Started(c) == results[c] \in Answers \/ \E l \in Lanes : c \in lanes[l].running

\* A caller that was told its call is over will not see it start afterwards,
\* however cancellation, the closing ingress and the lane's select race.
AbandonedNeverStart ==
    [][\A c \in Calls :
         calls[c].pc = "answered" /\ ~ Started(c) => ~ Started(c)']_servingVars

\* Every call that was accepted returns, whether its job runs, hangs in a full
\* lane or is dropped at close, and every client call returns without leaving
\* its process behind.
CallersReturn ==
    /\ \A c \in Calls : calls[c].pc # "none" ~> calls[c].pc = "answered"
    /\ \A x \in Clients : clients[x].child = "alive" ~> clients[x].child = "gone"

=============================================================================

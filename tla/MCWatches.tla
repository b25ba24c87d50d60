----------------------------- MODULE MCWatches -----------------------------
(* Instances of the consistency worker, of the migrations and roles that serve *)
(* it, and of the tool servers.  They share no row and no channel: each        *)
(* behaviour is of one of them.                                                *)
EXTENDS ConsistencyWatches, RuntimeDatabase, ToolServing, TLC

CONSTANTS reader, writer, g1, g2, l1, l2, w1, d1

\* The second migration creates no table; release 2 adds the third.
TheLengths   == 1 :> 2 @@ 2 :> 3
TheTables    == 1 :> {"t1"} @@ 2 :> {} @@ 3 :> {"t3"}
TheFunctions == 1 :> {"f1"} @@ 2 :> {"f2"} @@ 3 :> {"f3"}
TheWrites    == writer :> {"t1", "t3"} @@ reader :> {}
TheCalls     == writer :> {"f1"} @@ reader :> {}

\* One tool has a lane, one has none, one is of another profile.
TheClassOf == "submit" :> "intake" @@ "suggest" :> "intake" @@ "review" :> "review"
TheLaneOf  == "submit" :> "text" @@ "suggest" :> "direct" @@ "review" :> "direct"

\* Three kinds of behaviour of the workers: one version while the sources move
\* twice, two versions while they move once, and two watches over sources at rest.
WithinKind(kind) ==
    CASE kind = "sources"  -> Registered \subseteq {w1} /\ Len(versions[w1]) <= 1
      [] kind = "versions" -> Registered \subseteq {w1} /\ changes <= 1
      [] kind = "neighbours" -> changes = 0 /\ \A w \in Watches : Len(versions[w]) <= 1

VARIABLE part
vars == <<part, watchVars, databaseVars, servingVars>>

Watching == part \in {"sources", "versions", "neighbours"}

Init ==
    /\ part \in {"sources", "versions", "neighbours", "database", "server", "client"}
    /\ WatchInit /\ DatabaseInit /\ ServingInit
    /\ part # "database" => present = {}
    /\ view = d1

Next ==
    /\ UNCHANGED part
    /\ \/ Watching /\ WatchNext /\ WithinKind(part)' /\ UNCHANGED <<databaseVars, servingVars>>
       \/ part = "database" /\ DatabaseNext /\ UNCHANGED <<watchVars, servingVars>>
       \/ part = "server" /\ ServerNext /\ UNCHANGED <<watchVars, databaseVars>>
       \/ part = "client" /\ ClientNext /\ UNCHANGED <<watchVars, databaseVars>>

\* A worker goes on scanning, a supervisor restarts a stopped one, a caller's
\* select takes a ready branch, a lane goes on, a job ends, and a deadline stops
\* a client's process.
ScanGoesOn(p) == Watching /\ ScanStep(p) /\ UNCHANGED <<part, databaseVars, servingVars>>
Supervised(p) == Watching /\ Restart(p) /\ UNCHANGED <<part, databaseVars, servingVars>>
CallGoesOn(c) == part = "server" /\ CallStep(c) /\ UNCHANGED <<part, watchVars, databaseVars>>
LaneGoesOn(l) == part = "server" /\ LaneStep(l) /\ UNCHANGED <<part, watchVars, databaseVars>>
ClientEnds(x) == part = "client" /\ ClientStep(x) /\ UNCHANGED <<part, watchVars, databaseVars>>

Spec ==
    /\ Init /\ [][Next]_vars
    /\ \A p \in Scanners : WF_vars(ScanGoesOn(p)) /\ WF_vars(Supervised(p))
    /\ \A c \in Calls : WF_vars(CallGoesOn(c))
    /\ \A l \in Lanes : WF_vars(LaneGoesOn(l))
    /\ \A x \in Clients : WF_vars(ClientEnds(x))

=============================================================================

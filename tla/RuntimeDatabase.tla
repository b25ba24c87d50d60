-------------------------- MODULE RuntimeDatabase --------------------------
(***************************************************************************)
(* The schema and the roles a process serves with: migrations.go,          *)
(* internal/dbrole, internal/runtimeadmin and the start of the ahe-*       *)
(* commands.  Binaries of several releases migrate one schema, an operator *)
(* provisions and upgrades group/LOGIN pairs, processes open pools and     *)
(* check connections out, and the owner of the database may grant and      *)
(* revoke what it likes in between.                                        *)
(*                                                                         *)
(* A migration is one transaction under one advisory lock, and a change of *)
(* policy is one transaction; the checks of an operator's command and its  *)
(* change are two, and so are opening a pool and verifying the schema.     *)
(***************************************************************************)
EXTENDS Naturals, FiniteSets

CONSTANTS
    Releases,       \* binaries in circulation
    LengthOf,       \* LengthOf[r]: how many migrations release r embeds
    Edited,         \* pairs <<r, m>>: r embeds a changed file of migration m
    TablesOf,       \* TablesOf[m]: the tables migration m requires
    FunctionsOf,    \* FunctionsOf[m]: the functions it creates
    Gated,          \* functions that are revoked from PUBLIC by their migration
    LegacyLength,   \* databases older than the ledger hold a prefix this long
    Groups, Logins, \* names of NOLOGIN groups and of LOGIN roles
    DbProfiles,     \* capability profiles
    WritesOf,       \* WritesOf[p]: the tables profile p may write
    CallsOf,        \* CallsOf[p]: the functions profile p may execute
    AdminCommands,  \* runtime-admin commands under way
    Processes,      \* serving processes
    MaxInterventions \* how often the owner of the database intervenes

Migrations == 1..LegacyLength \cup UNION {1..LengthOf[r] : r \in Releases}

\* A table and a function are different objects, whatever their names.
ASSUME RuntimeDatabaseAssumption ==
    /\ LengthOf \in [Releases -> Nat \ {0}]
    /\ LegacyLength \in Nat /\ \A r \in Releases : LegacyLength <= LengthOf[r]
    /\ Groups \cap Logins = {}
    /\ \A m, n \in Migrations :
         /\ TablesOf[m] \cap FunctionsOf[n] = {}
         /\ m # n => TablesOf[m] \cap TablesOf[n] = {} /\ FunctionsOf[m] \cap FunctionsOf[n] = {}

VARIABLES
    ledger,         \* schema_migrations: name -> checksum
    present,        \* tables and functions of the schema
    granted,        \* granted[x]: what role x, or PUBLIC, has been given
    created,        \* the roles that exist
    admin,          \* admin[a]: the command a, once it has verified the schema
    process,        \* process[s]: release, pair and pool of process s
    interventions
databaseVars == <<ledger, present, granted, created, admin, process, interventions>>

Pairs == [group : Groups, login : Logins, profile : DbProfiles]

-----------------------------------------------------------------------------
(* Migrations.                                                              *)

Embedded(r) == 1..LengthOf[r]
Checksum(r, m) == IF <<r, m>> \in Edited THEN <<r>> ELSE <<>>
Relations(ms) == UNION {TablesOf[m] : m \in ms}
Routines(ms) == UNION {FunctionsOf[m] : m \in ms}

Prefix(ms) == \A m \in ms : 1..m \subseteq ms

\* A schema without a ledger is taken over from the tables it has.  A migration
\* that requires no table counts as missing, not as present.
FoundIfNothingMissing(m) == TablesOf[m] \subseteq present
Found(m) == TablesOf[m] # {} /\ TablesOf[m] \subseteq present
FoundInOrder(r) == \A m \in Embedded(r) : Found(m) => \A n \in 1..m : Found(n)
NoneHalfFound(r) == \A m \in Embedded(r) : Found(m) \/ TablesOf[m] \cap present = {}

Bootstrapped(r) == [m \in {n \in Embedded(r) : Found(n)} |-> Checksum(r, m)]

\* No unknown migration, no changed file, no gap.
ValidLedger(r, applied) ==
    /\ DOMAIN applied \subseteq Embedded(r)
    /\ \A m \in DOMAIN applied : applied[m] = Checksum(r, m)
    /\ Prefix(DOMAIN applied)

Migrate(r) ==
    LET applied == IF DOMAIN ledger = {} THEN Bootstrapped(r) ELSE ledger
        missing == Embedded(r) \ DOMAIN applied
    IN  /\ DOMAIN ledger = {} => NoneHalfFound(r) /\ FoundInOrder(r)
        /\ ValidLedger(r, applied)
        /\ (Relations(missing) \cup Routines(missing)) \cap present = {}
        /\ Relations(DOMAIN applied) \subseteq present
        /\ ledger' = [m \in Embedded(r) |-> IF m \in missing THEN Checksum(r, m) ELSE applied[m]]
        /\ present' = present \cup Relations(missing) \cup Routines(missing)
        /\ granted' = [granted EXCEPT !["PUBLIC"] =
                         @ \cup {<<"execute", f>> : f \in Routines(missing) \ Gated}]
        /\ UNCHANGED <<created, admin, process, interventions>>

\* VerifyCurrent: the ledger and the objects are those of the release.
HoldsTables(r) == Relations(Embedded(r)) \subseteq present
HoldsRoutines(r) == Routines(Embedded(r)) \subseteq present
Current(r) ==
    /\ ValidLedger(r, ledger) /\ DOMAIN ledger = Embedded(r)
    /\ HoldsTables(r) /\ HoldsRoutines(r)

-----------------------------------------------------------------------------
(* Policies.  A LOGIN inherits nothing: it has what it was granted and what *)
(* PUBLIC has, and may become any group it is a member of.                  *)

TableRules(r, p) ==
    {<<"select", t>> : t \in Relations(Embedded(r))}
    \cup {<<"insert", t>> : t \in WritesOf[p] \cap Relations(Embedded(r))}
RoutineRules(r, p) == {<<"execute", f>> : f \in CallsOf[p] \cap Routines(Embedded(r))}
Manifest(r, p) == TableRules(r, p) \cup RoutineRules(r, p)

Memberships(x) == {right \in granted[x] : right[1] = "member"}
Effective(x) == (granted[x] \cup granted["PUBLIC"]) \ Memberships(x)
TableRights(x) == {right \in Effective(x) : right[1] \in {"select", "insert"}}
RoutineRights(x) == {right \in Effective(x) : right[1] = "execute"}
SystemRights(x) == Effective(x) \ (TableRights(x) \cup RoutineRights(x))

ClosedPublic == granted["PUBLIC"] = {}
ExactGroup(r, pair) ==
    /\ pair.group \in created
    /\ Memberships(pair.group) = {}
    /\ TableRights(pair.group) = TableRules(r, pair.profile)
    /\ RoutineRights(pair.group) = RoutineRules(r, pair.profile)
    /\ SystemRights(pair.group) = {}
MemberOf(pair) == <<"member", pair.group>> \in Memberships(pair.login)
BoundedLoginByMembership(pair) ==
    pair.login \in created /\ MemberOf(pair) /\ Effective(pair.login) = {}
BoundedLogin(pair) ==
    /\ pair.login \in created
    /\ MemberOf(pair)
    /\ Cardinality(Memberships(pair.login)) = 1
    /\ Effective(pair.login) = {}

\* installPolicy closes the schema to PUBLIC, replaces what the group may do,
\* and then verifies the outcome.  It leaves the database-wide rights of PUBLIC.
Replaced(r, pair, given) == [given EXCEPT !["PUBLIC"] = {}, ![pair.group] = Manifest(r, pair.profile)]
Installs(r, pair, given) ==
    /\ pair.group \in DOMAIN given /\ {right \in given[pair.group] : right[1] = "member"} = {}
    /\ HoldsTables(r)
    /\ <<"temporary", "database">> \notin given["PUBLIC"]
    /\ granted' = Replaced(r, pair, given)

\* runtime-admin verifies the schema in a transaction of its own.
VerifySchema(a, op, r, pair) ==
    /\ admin[a] = <<>> /\ Current(r)
    /\ admin' = [admin EXCEPT ![a] = <<op, r, pair>>]
    /\ UNCHANGED <<ledger, present, granted, created, process, interventions>>

\* Existing names, of either role, are never adopted.
NamesFree(pair) == {pair.group, pair.login} \cap created = {}
ProvisionRuntime(a) ==
    LET r == admin[a][2] pair == admin[a][3] IN
    /\ admin[a] # <<>> /\ admin[a][1] = "provision"
    /\ admin' = [admin EXCEPT ![a] = <<>>]
    /\ \/ /\ NamesFree(pair)
          /\ Installs(r, pair, [granted EXCEPT ![pair.group] = {}, ![pair.login] = {<<"member", pair.group>>}])
          /\ created' = created \cup {pair.group, pair.login}
       \/ UNCHANGED <<granted, created>>
    /\ UNCHANGED <<ledger, present, process, interventions>>

UpgradeRuntime(a) ==
    LET r == admin[a][2] pair == admin[a][3] IN
    /\ admin[a] # <<>> /\ admin[a][1] = "upgrade"
    /\ admin' = [admin EXCEPT ![a] = <<>>]
    /\ \/ /\ pair.group \in created
          /\ BoundedLogin(pair)
          /\ Installs(r, pair, granted)
       \/ UNCHANGED granted
    /\ UNCHANGED <<ledger, present, created, process, interventions>>

-----------------------------------------------------------------------------
(* Serving processes.                                                       *)

Bounded(r, pair) == ClosedPublic /\ ExactGroup(r, pair) /\ BoundedLogin(pair)

\* Each connection becomes the group, and is verified when opened and before
\* every checkout.
Authority(pair) ==
    Effective(pair.login) \cup UNION {Effective(right[2]) : right \in Memberships(pair.login)}

OpenRuntimePool(s, r, pair) ==
    /\ process[s].at = "down" /\ Bounded(r, pair)
    /\ process' = [process EXCEPT ![s] = [at |-> "opened", release |-> r, pair |-> pair, holds |-> {}]]
    /\ UNCHANGED <<ledger, present, granted, created, admin, interventions>>

Down(s) == process' = [process EXCEPT ![s].at = "down", ![s].holds = {}]

StartServing(s) ==
    /\ process[s].at = "opened"
    /\ IF Current(process[s].release) /\ Bounded(process[s].release, process[s].pair)
         THEN process' = [process EXCEPT ![s].at = "serving"]
         ELSE Down(s)
    /\ UNCHANGED <<ledger, present, granted, created, admin, interventions>>

Checkout(s) ==
    /\ process[s].at = "serving"
    /\ Bounded(process[s].release, process[s].pair)
    /\ process' = [process EXCEPT ![s].at = "busy", ![s].holds = Authority(process[s].pair)]
    /\ UNCHANGED <<ledger, present, granted, created, admin, interventions>>

Return(s) ==
    /\ process[s].at = "busy"
    /\ process' = [process EXCEPT ![s].at = "serving", ![s].holds = {}]
    /\ UNCHANGED <<ledger, present, granted, created, admin, interventions>>

Stop(s) ==
    /\ process[s].at # "down" /\ Down(s)
    /\ UNCHANGED <<ledger, present, granted, created, admin, interventions>>

-----------------------------------------------------------------------------
\* The owner of the database grants or revokes anything, memberships included.
GrantedRights ==
    {<<"temporary", "database">>} \cup {<<"member", g>> : g \in Groups}
    \cup {<<"insert", t>> : t \in Relations(Migrations)} \cup {<<"execute", f>> : f \in Routines(Migrations)}

Intervene(x, right) ==
    /\ interventions < MaxInterventions
    /\ interventions' = interventions + 1
    /\ x \in created \cup {"PUBLIC"}
    /\ right[1] = "member" => x # "PUBLIC" /\ right[2] \in created \ {x}
    /\ right[1] \in {"insert", "execute"} => right[2] \in present
    /\ granted' = [granted EXCEPT ![x] = IF right \in @ THEN @ \ {right} ELSE @ \cup {right}]
    /\ UNCHANGED <<ledger, present, created, admin, process>>

DatabaseInit ==
    /\ ledger = [m \in {} |-> <<>>]
    /\ present \in {Relations(1..k) \cup Routines(1..k) : k \in 0..LegacyLength}
    /\ granted = [x \in Groups \cup Logins \cup {"PUBLIC"} |-> {}]
    /\ created = {}
    /\ admin = [a \in AdminCommands |-> <<>>]
    /\ process = [s \in Processes |-> [at |-> "down", holds |-> {}]]
    /\ interventions = 0

DatabaseNext ==
    \/ \E r \in Releases : Migrate(r)
    \/ \E a \in AdminCommands, op \in {"provision", "upgrade"}, r \in Releases, pair \in Pairs :
         VerifySchema(a, op, r, pair)
    \/ \E a \in AdminCommands : ProvisionRuntime(a) \/ UpgradeRuntime(a)
    \/ \E s \in Processes, r \in Releases, pair \in Pairs : OpenRuntimePool(s, r, pair)
    \/ \E s \in Processes : StartServing(s) \/ Checkout(s) \/ Return(s) \/ Stop(s)
    \/ \E x \in Groups \cup Logins \cup {"PUBLIC"}, right \in GrantedRights : Intervene(x, right)

-----------------------------------------------------------------------------
(* Properties.                                                              *)

\* Whichever releases migrate, over a fresh or an older database, the ledger is
\* what one release embeds, without gaps, and the schema has exactly the objects
\* of the migrations it lists.
LedgerTellsSchema ==
    DOMAIN ledger # {} =>
        /\ \E r \in Releases : ValidLedger(r, ledger) /\ DOMAIN ledger = Embedded(r)
        /\ present = Relations(DOMAIN ledger) \cup Routines(DOMAIN ledger)

\* A connection handed to a tool can do, as itself or as any role it may become,
\* what the manifest of its process's own release allows and nothing else,
\* whatever was migrated, upgraded, granted or revoked since the process started.
HandedOutWithinManifest ==
    [][\A s \in Processes :
         process[s].at # "busy" /\ process'[s].at = "busy" =>
           process'[s].holds = Manifest(process[s].release, process[s].pair.profile)]_databaseVars

=============================================================================

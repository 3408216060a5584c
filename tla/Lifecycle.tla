----------------------------- MODULE Lifecycle -----------------------------
(***************************************************************************)
(* One life of the AgentGate process after another: runServe from the      *)
(* configuration to the listeners and, on a signal, back, with the         *)
(* database that outlives it, the migrate command that may run beside it,  *)
(* the checks in flight over gRPC and the tool catalog's handlers over     *)
(* HTTP (ToolCatalog).  The process may be killed between any two steps.   *)
(*                                                                         *)
(* Every startup step that talks to the database uses the context that a   *)
(* signal cancels, so it fails once signalled; the in-memory stores never  *)
(* look at it.  The default policy's bootstrap is one step here:           *)
(* PolicyManager has its detail.  runServe returns through the Close of    *)
(* its stores, which waits for every connection that a request holds.      *)
(***************************************************************************)
EXTENDS ToolCatalog, Config

CONSTANTS
    Environments,   \* the process environments tried, a set of Settings
    Checks,         \* the gRPC checks of a behaviour
    MaxStarts       \* bound: how often the process is started

ASSUME LifecycleAssumption ==
    /\ Environments \subseteq Settings
    /\ MaxStarts \in Nat \ {0}

VARIABLES
    env,            \* the environment the process is started in
    schema,         \* schema_migrations
    migrator,       \* what the migrate command does next
    policy,         \* the store has an active policy for the default workspace
    phase,          \* where runServe is
    signalled,      \* the context of runServe is cancelled
    toSeed,         \* SeedIfEmpty: the definitions not stored yet
    ready,          \* httpserver: the listener is open and ready is set
    check,          \* check[c]: "late" was answered on timeout but is still evaluated
    exit,           \* how the last process ended
    starts

processVars == <<env, phase, signalled, toSeed, ready, check, exit, starts>>
databaseVars == <<schema, migrator, policy>>
vars == <<catalogVars, processVars, databaseVars>>

RequiredMigrations == {"001", "002", "003", "004"}

\* What each store's Migrate applies, in one transaction.
MigrationsOf(store) ==
    CASE store = "policies" -> {"001"}
      [] store = "audit" -> {"002", "003"}
      [] store = "tools" -> {"004"}

UsesDatabase == env.DATABASE_URL # "none"

Starting == {"config", "verify", "migrate_policies", "migrate_audit", "bootstrap",
             "migrate_tools", "seed_look", "seed", "load", "auth", "key",
             "listen_grpc", "listen_metrics", "listen_http"}
Closing == {"close_clean", "close_failed"}
Draining == {"drain_grpc", "drain_metrics", "drain_http"} \cup Closing
GrpcAccepts == phase \in {"listen_metrics", "listen_http", "serving"}

LifecycleTypeOK ==
    /\ CatalogTypeOK
    /\ env \in Environments
    /\ schema \subseteq RequiredMigrations
    /\ migrator \in {"idle", "policies", "audit", "tools"}
    /\ policy \in BOOLEAN
    /\ phase \in {"stopped", "serving"} \cup Starting \cup Draining
    /\ signalled \in BOOLEAN
    /\ toSeed \subseteq Tools
    /\ ready \in BOOLEAN
    /\ check \in [Checks -> {"new", "open", "late", "answered", "cut"}]
    /\ exit \in {"none", "clean", "failed", "killed"}
    /\ starts \in 0..MaxStarts

\* The database may have been migrated by any earlier release.
Init ==
    /\ CatalogInit
    /\ env \in Environments
    /\ schema \in {{}, {"001"}, {"001", "002", "003"}, RequiredMigrations}
    /\ persistent = UsesDatabase
    /\ ~UsesDatabase => schema = {}
    /\ migrator = "idle"
    /\ policy = FALSE
    /\ phase = "stopped"
    /\ signalled = FALSE
    /\ toSeed = {}
    /\ ready = FALSE
    /\ check = [c \in Checks |-> "new"]
    /\ exit = "none"
    /\ starts = 0

-----------------------------------------------------------------------------
(* The end of a process, whoever ends it.                                  *)

Ended(how) ==
    /\ phase' = "stopped"
    /\ exit' = how
    /\ ready' = FALSE
    /\ toSeed' = {}
    /\ check' = [c \in Checks |-> CASE check[c] = "open" -> "cut"
                                    [] check[c] = "late" -> "answered"
                                    [] OTHER -> check[c]]
    /\ CatalogDies
    /\ policy' = (policy /\ persistent)
    /\ UNCHANGED <<env, signalled, starts, schema, migrator>>

Crash ==
    /\ phase # "stopped"
    /\ Ended("killed")

Signal ==
    /\ phase # "stopped"
    /\ ~signalled
    /\ signalled' = TRUE
    /\ UNCHANGED <<catalogVars, databaseVars, env, phase, toSeed, ready, check, exit, starts>>

\* A supervisor starts it again, whether it failed, was killed or was told to stop.
Launch ==
    /\ phase = "stopped"
    /\ starts < MaxStarts
    /\ phase' = "config"
    /\ signalled' = FALSE
    /\ exit' = "none"
    /\ starts' = starts + 1
    /\ UNCHANGED <<catalogVars, databaseVars, env, toSeed, ready, check>>

-----------------------------------------------------------------------------
(* Start-up.                                                               *)

NextPhase(from, to) ==
    /\ phase = from
    /\ phase' = to
    /\ UNCHANGED <<env, signalled, ready, check, exit, starts>>

\* A step that needs the database, or the identity provider, gets no answer once signalled.
Reached == ~(UsesDatabase /\ signalled)

Configured ==
    /\ Accepted(env)
    /\ NextPhase("config", IF ~UsesDatabase THEN "bootstrap"
                           ELSE IF AutoMigrate(env) THEN "migrate_policies" ELSE "verify")
    /\ UNCHANGED <<catalogVars, databaseVars, toSeed>>

\* Mutant of Migrated: it is enough that schema_migrations is not empty.
MigratedSomehow == schema # {}

Migrated == RequiredMigrations \subseteq schema

VerifyMigrations ==
    /\ Reached
    /\ Migrated
    /\ NextPhase("verify", "bootstrap")
    /\ UNCHANGED <<catalogVars, databaseVars, toSeed>>

\* A store's Migrate while the process starts.
MigrateAtStart(store, from, to) ==
    /\ Reached
    /\ NextPhase(from, to)
    /\ schema' = IF UsesDatabase /\ AutoMigrate(env) THEN schema \cup MigrationsOf(store)
                 ELSE schema
    /\ UNCHANGED <<catalogVars, migrator, policy, toSeed>>

BootstrapDefaultPolicy ==
    /\ Reached
    /\ NextPhase("bootstrap", "migrate_tools")
    /\ policy' = TRUE
    /\ UNCHANGED <<catalogVars, schema, migrator, toSeed>>

\* LoadBootstrapFile refuses a whole file for one bad definition; SeedIfEmpty's List.
SeedLook ==
    /\ Reached
    /\ env.TOOL_BOOTSTRAP_FILE # "malformed"
    /\ NextPhase("seed_look", "seed")
    /\ toSeed' = IF env.TOOL_BOOTSTRAP_FILE = "valid" THEN ToSeed ELSE {}
    /\ UNCHANGED <<catalogVars, databaseVars>>

SeedNext ==
    /\ Reached
    /\ phase = "seed"
    /\ \E t \in toSeed :
         /\ SeedOne(t)
         /\ toSeed' = toSeed \ {t}
    /\ UNCHANGED <<databaseVars, env, phase, signalled, ready, check, exit, starts>>

Seeded ==
    /\ toSeed = {}
    /\ NextPhase("seed", "load")
    /\ UNCHANGED <<catalogVars, databaseVars, toSeed>>

LoadCatalog ==
    /\ Reached
    /\ NextPhase("load", "auth")
    /\ LoadSnapshot
    /\ UNCHANGED <<databaseVars, toSeed>>

BuildAdminAuthenticator ==
    /\ AdminAuthMode(env) = "oidc" => ~signalled
    /\ NextPhase("auth", "key")
    /\ UNCHANGED <<catalogVars, databaseVars, toSeed>>

LoadSigningKey ==
    /\ env.SIGNING_KEY_FILE \/ ~IsProduction(env)
    /\ NextPhase("key", "listen_grpc")
    /\ UNCHANGED <<catalogVars, databaseVars, toSeed>>

Listen ==
    /\ \/ NextPhase("listen_grpc", "listen_metrics")
       \/ NextPhase("listen_metrics", "listen_http")
    /\ UNCHANGED <<catalogVars, databaseVars, toSeed>>

\* httpserver.Start
StartHTTP ==
    /\ phase = "listen_http"
    /\ phase' = "serving"
    /\ ready' = TRUE
    /\ UNCHANGED <<catalogVars, databaseVars, env, signalled, toSeed, check, exit, starts>>

\* Mutant of MayFail: without AUTO_MIGRATE the start waits for the migrate command.
VerifyMayWait ==
    CASE phase = "config" -> ~Accepted(env) \/ env.HTTP_TLS # {}
      [] phase = "verify" -> FALSE
      [] phase \in {"migrate_policies", "migrate_audit", "bootstrap", "migrate_tools",
                    "seed"} -> UsesDatabase
      [] phase = "load" -> UsesDatabase \/ ~Buildable
      [] phase = "seed_look" -> UsesDatabase \/ env.TOOL_BOOTSTRAP_FILE = "malformed"
      [] phase = "auth" -> AdminAuthMode(env) = "oidc"
      [] phase = "key" -> env.SIGNING_KEY_FILE \/ IsProduction(env)
      [] OTHER -> TRUE

MayFail ==
    CASE phase = "config" -> ~Accepted(env) \/ env.HTTP_TLS # {}
      [] phase \in {"verify", "migrate_policies", "migrate_audit", "bootstrap",
                    "migrate_tools", "seed"} -> UsesDatabase
      [] phase = "load" -> UsesDatabase \/ ~Buildable
      [] phase = "seed_look" -> UsesDatabase \/ env.TOOL_BOOTSTRAP_FILE = "malformed"
      [] phase = "auth" -> AdminAuthMode(env) = "oidc"
      [] phase = "key" -> env.SIGNING_KEY_FILE \/ IsProduction(env)
      [] OTHER -> TRUE

\* runServe returns 1.  A statement that was being seeded may still take effect.
StartFails ==
    /\ phase \in Starting
    /\ MayFail
    /\ Ended("failed")

StartStep ==
    \/ Configured
    \/ VerifyMigrations
    \/ MigrateAtStart("policies", "migrate_policies", "migrate_audit")
    \/ MigrateAtStart("audit", "migrate_audit", "bootstrap")
    \/ BootstrapDefaultPolicy
    \/ MigrateAtStart("tools", "migrate_tools", "seed_look")
    \/ SeedLook
    \/ SeedNext
    \/ Seeded
    \/ LoadCatalog
    \/ BuildAdminAuthenticator
    \/ LoadSigningKey
    \/ Listen
    \/ StartHTTP
    \/ StartFails

-----------------------------------------------------------------------------
(* Shutdown: gRPC, then metrics, then HTTP, then the stores.               *)

BeginShutdown ==
    /\ signalled
    /\ NextPhase("serving", "drain_grpc")
    /\ UNCHANGED <<catalogVars, databaseVars, toSeed>>

\* Mutant of GrpcStopped: Stop instead of GracefulStop.
GrpcStoppedAtOnce ==
    /\ NextPhase("drain_grpc", "drain_metrics")
    /\ UNCHANGED <<catalogVars, databaseVars, toSeed>>

\* GracefulStop returns when no RPC is open; it knows nothing of late evaluations.
GrpcStopped ==
    /\ \A c \in Checks : check[c] # "open"
    /\ NextPhase("drain_grpc", "drain_metrics")
    /\ UNCHANGED <<catalogVars, databaseVars, toSeed>>

\* The metrics server is stopped, then httpserver.Shutdown begins.
MetricsStopped ==
    /\ phase = "drain_metrics"
    /\ phase' = "drain_http"
    /\ ready' = FALSE
    /\ UNCHANGED <<catalogVars, databaseVars, env, signalled, toSeed, check, exit, starts>>

HTTPStopped ==
    /\ \A p \in Calls : ~InProgress(p)
    /\ NextPhase("drain_http", "close_clean")
    /\ UNCHANGED <<catalogVars, databaseVars, toSeed>>

\* ShutdownTimeout passes with requests in flight, which go on.
HTTPShutdownTimeout ==
    /\ \E p \in Calls : InProgress(p)
    /\ NextPhase("drain_http", "close_failed")
    /\ UNCHANGED <<catalogVars, databaseVars, toSeed>>

(***************************************************************************)
(* The deferred Close of the three Postgres stores: pgxpool waits for each *)
(* connection that is in use, by the holder of catalogMu or by an          *)
(* evaluation whose check timed out, without a deadline of its own.  A     *)
(* request between two statements is taken to see the next one fail        *)
(* ("reject", "list", "append") on the closed pool.                        *)
(***************************************************************************)
PoolsClosed ==
    /\ phase \in Closing
    /\ persistent => mu = NoOne /\ \A c \in Checks : check[c] # "late"
    /\ Ended(IF phase = "close_clean" THEN "clean" ELSE "failed")

ShutdownStep ==
    \/ BeginShutdown
    \/ GrpcStopped
    \/ MetricsStopped
    \/ HTTPStopped
    \/ HTTPShutdownTimeout
    \/ PoolsClosed

-----------------------------------------------------------------------------
(* Requests.                                                               *)

SetCheck(c, from, to) ==
    /\ phase # "stopped"
    /\ check[c] = from
    /\ check' = [check EXCEPT ![c] = to]
    /\ UNCHANGED <<catalogVars, databaseVars, env, phase, signalled, toSeed, ready, exit, starts>>

OpenCheck(c) == GrpcAccepts /\ SetCheck(c, "new", "open")
AnswerCheck(c) == SetCheck(c, "open", "answered")
TimeoutCheck(c) == SetCheck(c, "open", "late")
FinishLate(c) == SetCheck(c, "late", "answered")

AdminStep(p) ==
    /\ \/ ready /\ (Request(p) \/ RequestMalformed(p))
       \/ Disconnect(p)
       \/ CallStep(p)
    /\ UNCHANGED <<processVars, databaseVars>>

\* A request that was received goes on.
Proceed(p) == CallStep(p) /\ UNCHANGED <<processVars, databaseVars>>

-----------------------------------------------------------------------------
(* agentgate migrate, in a process of its own that may stop anywhere.      *)

MigrateCommand ==
    /\ UsesDatabase
    /\ \/ /\ migrator = "idle" /\ ~Migrated
          /\ migrator' = "policies"
          /\ UNCHANGED schema
       \/ /\ migrator # "idle"
          /\ schema' = schema \cup MigrationsOf(migrator)
          /\ migrator' = CASE migrator = "policies" -> "audit"
                           [] migrator = "audit" -> "tools"
                           [] migrator = "tools" -> "idle"
       \/ migrator # "idle" /\ migrator' = "idle" /\ UNCHANGED schema
    /\ UNCHANGED <<catalogVars, processVars, policy>>

ServerStep == StartStep \/ ShutdownStep

Next ==
    \/ ServerStep
    \/ Launch
    \/ Signal
    \/ Crash
    \/ MigrateCommand
    \/ \E c \in Checks : OpenCheck(c) \/ AnswerCheck(c) \/ TimeoutCheck(c) \/ FinishLate(c)
    \/ \E p \in Calls : AdminStep(p)

(***************************************************************************)
(* runServe takes its next step, and whoever is in a statement gets out of *)
(* it: the one assumption is that every statement that reached the         *)
(* database returns, with a result or an error.  A check that was refused  *)
(* needs it too: it records its refusal outside the timeout of Check and   *)
(* behind the mutex of the audit trail, which looks at no context.         *)
(***************************************************************************)
Fairness ==
    /\ WF_vars(ServerStep)
    /\ \A c \in Checks :
         WF_vars(AnswerCheck(c) \/ TimeoutCheck(c)) /\ WF_vars(FinishLate(c))
    /\ \A p \in Calls : WF_vars(Proceed(p))

Spec == Init /\ [][Next]_vars /\ Fairness

-----------------------------------------------------------------------------
(***************************************************************************)
(* Start-up never changes a definition that is stored: SeedIfEmpty adds to *)
(* an empty table only, also when an earlier start was cut off in the      *)
(* middle of it or an admin has changed the catalog since.                 *)
(***************************************************************************)
StartKeepsCatalog ==
    [][persistent /\ phase \in Starting =>
         \A t \in Tools : rows[t] # NoDef => rows'[t] = rows[t]]_vars

(***************************************************************************)
(* A check is only accepted by a process whose database has every required *)
(* migration, whose default workspace has an active policy and whose live  *)
(* catalog is the table it started from or what an admin made of it since: *)
(* whatever was left half done by an earlier start or by the migrate       *)
(* command (VerifyMigrations, AutoMigrate, loadToolCatalog).               *)
(***************************************************************************)
ServesOnlyWhole ==
    GrpcAccepts =>
      /\ policy
      /\ persistent => RequiredMigrations \subseteq schema
      /\ phase # "serving" => live = rows

(***************************************************************************)
(* A production process that accepts checks asks its gRPC clients for a    *)
(* certificate, serves the admin API over TLS and to OIDC tokens only,     *)
(* keeps policies and audit records in a database and has a salt and a     *)
(* signing key of its own, whatever else its environment says (Load and    *)
(* Validate together).                                                     *)
(***************************************************************************)
ProductionIsHardened ==
    GrpcAccepts /\ env.ENV \in {"prod", "production"} =>
      /\ persistent
      /\ env.DATABASE_URL = "plain" => env.DB_ALLOW_INSECURE
      /\ "client_ca" \in env.AUTHZ_TLS /\ "cert" \in env.HTTP_TLS
      /\ AdminToken(env) \notin {"given", "generated"}
      /\ env.AUDIT_SALT = "own" /\ env.SIGNING_KEY_FILE

(***************************************************************************)
(* A process that says it stopped cleanly cut off neither a check nor an   *)
(* admin request: whatever it had accepted was answered before it exited   *)
(* (GracefulStop, then Shutdown, then the stores' Close).                  *)
(***************************************************************************)
CutsNothing ==
    /\ \A c \in Checks : check'[c] = "cut" => check[c] = "cut"
    /\ \A p \in Calls : call'[p].reply = "lost" => call[p].reply = "lost"

CleanExitAnswers == [][exit # "clean" /\ exit' = "clean" => CutsNothing]_vars

(***************************************************************************)
(* A signalled process ends, at whatever step of start-up or shutdown it   *)
(* is, with requests still running after ShutdownTimeout and evaluations   *)
(* still running after their check timed out: provided that statements     *)
(* return, GracefulStop, Shutdown and the stores' Close wait for nobody    *)
(* who waits for them.                                                     *)
(***************************************************************************)
SignalStops == signalled ~> phase = "stopped"

=============================================================================

-------------------------- MODULE LifecycleProofs --------------------------
(***************************************************************************)
(* The process and its tool catalog, for any environments, tools,          *)
(* definitions, requests, checks and number of starts.                     *)
(***************************************************************************)
EXTENDS Lifecycle, ToolCatalogProofs

\* The phases of start-up in the order runServe goes through them.
Phases == {"stopped", "serving"} \cup Starting \cup Draining
BeforeLoad == {"stopped", "config", "verify", "migrate_policies", "migrate_audit", "bootstrap",
               "migrate_tools", "seed_look", "seed", "load"}
Loaded == {"auth", "key", "listen_grpc", "listen_metrics", "listen_http"}
ToolsMigrated == {"seed_look", "seed", "load", "serving"} \cup Loaded \cup Draining
Bootstrapped == {"migrate_tools"} \cup ToolsMigrated

\* Where no check is open any more.
GrpcStoppedIn == {"drain_metrics", "drain_http"} \cup Closing

ProcessTypes ==
    /\ env \in Environments
    /\ schema \subseteq RequiredMigrations
    /\ migrator \in {"idle", "policies", "audit", "tools"}
    /\ policy \in BOOLEAN
    /\ phase \in Phases
    /\ signalled \in BOOLEAN
    /\ toSeed \subseteq Tools
    /\ ready \in BOOLEAN
    /\ check \in [Checks -> {"new", "open", "late", "answered", "cut"}]
    /\ exit \in {"none", "clean", "failed", "killed"}
    /\ starts \in 0..MaxStarts

\* Which migrations a start has seen or applied, by how far it got.
SchemaInv ==
    /\ phase \in {"migrate_policies", "migrate_audit"} => AutoMigrate(env)
    /\ persistent =>
         /\ phase = "migrate_audit" => MigrationsOf("policies") \subseteq schema
         /\ phase \in {"bootstrap", "migrate_tools"} =>
              RequiredMigrations \ (IF AutoMigrate(env) THEN MigrationsOf("tools") ELSE {})
                \subseteq schema
         /\ phase \in ToolsMigrated => RequiredMigrations \subseteq schema

\* No request is under way, and nothing but start-up itself touches the catalog, until the
\* process serves.
CatalogAtRest ==
    /\ ready => phase \in {"serving", "drain_grpc", "drain_metrics"}
    /\ phase \in BeforeLoad \cup Loaded => \A p \in Calls : ~InProgress(p)
    /\ phase \in BeforeLoad => live = NoTools
    /\ phase \in Loaded => live = rows
    /\ phase = "seed" => \A t \in toSeed : rows[t] = NoDef

ProcessInv ==
    /\ ProcessTypes
    /\ persistent <=> UsesDatabase
    /\ phase \notin {"stopped", "config"} => Accepted(env)
    /\ phase \in Bootstrapped => policy
    /\ SchemaInv
    /\ CatalogAtRest
    /\ phase \in GrpcStoppedIn => \A c \in Checks : check[c] # "open"
    /\ phase = "close_clean" => \A p \in Calls : ~InProgress(p)

LifeInv == CatalogInv /\ ProcessInv
-----------------------------------------------------------------------------
(* The process's own variables.                                            *)

\* Nobody changes the environment or the stores' kind while a process lives.
LEMMA Frame ==
    ASSUME [Next]_vars
    PROVE  UNCHANGED <<env, persistent>>
  <1>1. CASE StartStep
    BY <1>1 DEF StartStep, Configured, VerifyMigrations, MigrateAtStart, BootstrapDefaultPolicy,
       SeedLook, SeedNext, SeedOne, Seeded, LoadCatalog, LoadSnapshot, BuildAdminAuthenticator,
       LoadSigningKey, Listen, StartHTTP, StartFails, Ended, CatalogDies, NextPhase, catalogVars
  <1>2. CASE ShutdownStep \/ Launch \/ Signal \/ Crash \/ MigrateCommand
    BY <1>2 DEF ShutdownStep, BeginShutdown, GrpcStopped, MetricsStopped, HTTPStopped,
       HTTPShutdownTimeout, PoolsClosed, Launch, Signal, Crash, MigrateCommand, Ended, CatalogDies, NextPhase,
       catalogVars, processVars
  <1>3. ASSUME NEW c \in Checks, OpenCheck(c) \/ AnswerCheck(c) \/ TimeoutCheck(c) \/ FinishLate(c)
        PROVE  UNCHANGED <<env, persistent>>
    BY <1>3 DEF OpenCheck, AnswerCheck, TimeoutCheck, FinishLate, SetCheck, catalogVars
  <1>4. ASSUME NEW p \in Calls, AdminStep(p)
        PROVE  UNCHANGED <<env, persistent>>
    BY <1>4 DEF AdminStep, processVars, Request, RequestMalformed, Disconnect, CallStep, Lock,
       Get, Write, Reload, Restore, Emit
  <1>5. CASE UNCHANGED vars
    BY <1>5 DEF vars, processVars, catalogVars
  <1> QED
    BY <1>1, <1>2, <1>3, <1>4, <1>5 DEF Next, ServerStep

\* What a store's Migrate applies are migrations that are required.
LEMMA MigrationsAreRequired ==
    ASSUME NEW s \in {"policies", "audit", "tools"}
    PROVE  MigrationsOf(s) \subseteq RequiredMigrations
  BY DEF MigrationsOf, RequiredMigrations

\* A step of start-up or shutdown from one phase to another keeps the types.
LEMMA TypesMove ==
    ASSUME ProcessTypes, NEW from, NEW to \in Phases, NextPhase(from, to),
           schema' \subseteq RequiredMigrations, policy' \in BOOLEAN, toSeed' \subseteq Tools,
           UNCHANGED migrator
    PROVE  ProcessTypes'
  BY DEF ProcessTypes, NextPhase

\* The end of a process keeps the types.
LEMMA TypesEnd ==
    ASSUME ProcessTypes, NEW how \in {"clean", "failed", "killed"}, Ended(how)
    PROVE  ProcessTypes'
  <1>1. check' \in [Checks -> {"new", "open", "late", "answered", "cut"}]
    BY DEF Ended, ProcessTypes
  <1>2. policy' \in BOOLEAN
    BY DEF Ended
  <1>3. /\ UNCHANGED <<env, signalled, starts, schema, migrator>>
        /\ phase' = "stopped" /\ exit' = how /\ ready' = FALSE /\ toSeed' = {}
    BY DEF Ended
  <1> QED
    BY <1>1, <1>2, <1>3 DEF ProcessTypes, Phases

\* Every step of start-up keeps the types.
LEMMA TypesStart ==
    ASSUME ProcessTypes, StartStep
    PROVE  ProcessTypes'
  <1> USE DEF Phases, Starting, Draining, Closing
  <1>1. CASE \/ Configured \/ VerifyMigrations \/ Seeded \/ LoadCatalog
             \/ BuildAdminAuthenticator \/ LoadSigningKey \/ Listen
    <2>1. PICK from, to \in Phases : NextPhase(from, to)
      BY <1>1 DEF Configured, VerifyMigrations, Seeded, LoadCatalog, BuildAdminAuthenticator,
         LoadSigningKey, Listen
    <2>2. UNCHANGED <<schema, migrator, policy, toSeed>>
      BY <1>1 DEF Configured, VerifyMigrations, Seeded, LoadCatalog, BuildAdminAuthenticator,
         LoadSigningKey, Listen, databaseVars
    <2> QED
      BY <2>1, <2>2, TypesMove DEF ProcessTypes
  <1>2. ASSUME NEW s \in {"policies", "audit", "tools"}, NEW from, NEW to \in Phases,
               MigrateAtStart(s, from, to)
        PROVE  ProcessTypes'
    <2>1. schema' \subseteq RequiredMigrations
      BY <1>2, MigrationsAreRequired DEF MigrateAtStart, ProcessTypes
    <2> QED
      BY <1>2, <2>1, TypesMove DEF MigrateAtStart, ProcessTypes
  <1>3. CASE BootstrapDefaultPolicy
    BY <1>3, TypesMove DEF BootstrapDefaultPolicy, ProcessTypes
  <1>4. CASE SeedLook
    <2>1. toSeed' \subseteq Tools
      BY <1>4 DEF SeedLook, ToSeed
    <2> QED
      BY <1>4, <2>1, TypesMove DEF SeedLook, databaseVars, ProcessTypes
  <1>5. CASE SeedNext
    BY <1>5 DEF SeedNext, databaseVars, ProcessTypes
  <1>6. CASE StartHTTP
    BY <1>6 DEF StartHTTP, databaseVars, ProcessTypes
  <1>7. CASE StartFails
    BY <1>7, TypesEnd DEF StartFails
  <1> QED
    BY <1>1, <1>2, <1>3, <1>4, <1>5, <1>6, <1>7 DEF StartStep

\* Every other step keeps the types.
LEMMA TypesStep ==
    ASSUME ProcessTypes, [Next]_vars
    PROVE  ProcessTypes'
  <1> USE DEF Phases, Starting, Draining, Closing
  <1>1. CASE BeginShutdown \/ GrpcStopped \/ HTTPStopped \/ HTTPShutdownTimeout
    <2>1. PICK from, to \in Phases : NextPhase(from, to)
      BY <1>1 DEF BeginShutdown, GrpcStopped, HTTPStopped, HTTPShutdownTimeout
    <2> QED
      BY <1>1, <2>1, TypesMove DEF BeginShutdown, GrpcStopped, HTTPStopped, HTTPShutdownTimeout,
         databaseVars, ProcessTypes
  <1>2. CASE MetricsStopped
    BY <1>2 DEF MetricsStopped, databaseVars, ProcessTypes
  <1>3. CASE PoolsClosed \/ Crash
    BY <1>3, TypesEnd DEF PoolsClosed, Crash
  <1>4. CASE Launch
    <2>1. starts' \in 0..MaxStarts
      BY <1>4, LifecycleAssumption DEF Launch, ProcessTypes
    <2> QED
      BY <1>4, <2>1 DEF Launch, databaseVars, ProcessTypes
  <1>5. CASE Signal
    BY <1>5 DEF Signal, databaseVars, ProcessTypes
  <1>6. ASSUME NEW c \in Checks, OpenCheck(c) \/ AnswerCheck(c) \/ TimeoutCheck(c) \/ FinishLate(c)
        PROVE  ProcessTypes'
    <2>1. PICK to \in {"open", "answered", "late"} : check' = [check EXCEPT ![c] = to]
      BY <1>6 DEF OpenCheck, AnswerCheck, TimeoutCheck, FinishLate, SetCheck
    <2>2. check' \in [Checks -> {"new", "open", "late", "answered", "cut"}]
      BY <2>1 DEF ProcessTypes
    <2> QED
      BY <1>6, <2>2 DEF OpenCheck, AnswerCheck, TimeoutCheck, FinishLate, SetCheck,
         databaseVars, ProcessTypes
  <1>7. ASSUME NEW p \in Calls, AdminStep(p)
        PROVE  ProcessTypes'
    BY <1>7 DEF AdminStep, processVars, databaseVars, ProcessTypes
  <1>8. CASE MigrateCommand
    <2>1. schema' \subseteq RequiredMigrations
      BY <1>8, MigrationsAreRequired DEF MigrateCommand, ProcessTypes
    <2>2. migrator' \in {"idle", "policies", "audit", "tools"}
      BY <1>8 DEF MigrateCommand, ProcessTypes
    <2>3. UNCHANGED <<env, phase, signalled, toSeed, ready, check, exit, starts, policy>>
      BY <1>8 DEF MigrateCommand, processVars
    <2> QED
      BY <2>1, <2>2, <2>3 DEF ProcessTypes
  <1>9. CASE UNCHANGED vars
    BY <1>9 DEF vars, processVars, databaseVars, ProcessTypes
  <1> QED
    BY <1>1, <1>2, <1>3, <1>4, <1>5, <1>6, <1>7, <1>8, <1>9, TypesStart
       DEF Next, ServerStep, ShutdownStep
-----------------------------------------------------------------------------
(* How far a start has got.                                                *)

\* The moves of the phase: where runServe is before and after a step.
Moves(from, to) == phase = from /\ phase' = to

(***************************************************************************)
(* runServe's phases in their order, with what decides each of the moves.  *)
(***************************************************************************)
PhaseMoves ==
    \/ phase' = phase
    \/ phase' = "stopped"
    \/ Moves("stopped", "config")
    \/ Moves("config", "bootstrap") /\ Accepted(env) /\ ~UsesDatabase
    \/ Moves("config", "migrate_policies") /\ Accepted(env) /\ AutoMigrate(env)
    \/ Moves("config", "verify") /\ Accepted(env) /\ ~AutoMigrate(env)
    \/ Moves("verify", "bootstrap") /\ Migrated
    \/ Moves("migrate_policies", "migrate_audit") /\ MigrateAtStart("policies", phase, phase')
    \/ Moves("migrate_audit", "bootstrap") /\ MigrateAtStart("audit", phase, phase')
    \/ Moves("bootstrap", "migrate_tools") /\ policy'
    \/ Moves("migrate_tools", "seed_look") /\ MigrateAtStart("tools", phase, phase')
    \/ Moves("seed_look", "seed") /\ SeedLook
    \/ Moves("seed", "load")
    \/ Moves("load", "auth") /\ LoadSnapshot
    \/ Moves("auth", "key") \/ Moves("key", "listen_grpc")
    \/ Moves("listen_grpc", "listen_metrics") \/ Moves("listen_metrics", "listen_http")
    \/ Moves("listen_http", "serving")
    \/ Moves("serving", "drain_grpc")
    \/ Moves("drain_grpc", "drain_metrics") /\ \A c \in Checks : check[c] # "open"
    \/ Moves("drain_metrics", "drain_http")
    \/ Moves("drain_http", "close_clean") /\ HTTPStopped
    \/ Moves("drain_http", "close_failed")

\* Every step makes one of these moves.
LEMMA StepMoves ==
    ASSUME [Next]_vars
    PROVE  PhaseMoves
  <1>1. CASE StartStep
    <2>1. CASE Configured
      BY <2>1 DEF Configured, NextPhase, PhaseMoves, Moves
    <2>2. CASE VerifyMigrations
      BY <2>2 DEF VerifyMigrations, NextPhase, PhaseMoves, Moves
    <2>3. ASSUME NEW s, NEW from, NEW to, MigrateAtStart(s, from, to)
          PROVE  phase = from /\ phase' = to /\ MigrateAtStart(s, phase, phase')
      BY <2>3 DEF MigrateAtStart, NextPhase
    <2>4. CASE \/ MigrateAtStart("policies", "migrate_policies", "migrate_audit")
               \/ MigrateAtStart("audit", "migrate_audit", "bootstrap")
               \/ MigrateAtStart("tools", "migrate_tools", "seed_look")
      BY <2>3, <2>4 DEF PhaseMoves, Moves
    <2>5. CASE BootstrapDefaultPolicy \/ SeedLook \/ Seeded \/ LoadCatalog
      BY <2>5 DEF BootstrapDefaultPolicy, SeedLook, Seeded, LoadCatalog, NextPhase, PhaseMoves,
         Moves
    <2>6. CASE \/ BuildAdminAuthenticator \/ LoadSigningKey \/ Listen \/ StartHTTP \/ SeedNext
               \/ StartFails
      BY <2>6 DEF BuildAdminAuthenticator, LoadSigningKey, Listen, StartHTTP, SeedNext, StartFails,
         Ended, NextPhase, PhaseMoves, Moves
    <2> QED
      BY <1>1, <2>1, <2>2, <2>4, <2>5, <2>6 DEF StartStep
  <1>2. CASE ShutdownStep
    BY <1>2 DEF ShutdownStep, BeginShutdown, GrpcStopped, MetricsStopped, HTTPStopped,
       HTTPShutdownTimeout, PoolsClosed, Ended, NextPhase, PhaseMoves, Moves
  <1>3. CASE Launch \/ Signal \/ Crash \/ MigrateCommand
    BY <1>3 DEF Launch, Signal, Crash, MigrateCommand, Ended, processVars, PhaseMoves, Moves
  <1>4. ASSUME NEW c \in Checks, OpenCheck(c) \/ AnswerCheck(c) \/ TimeoutCheck(c) \/ FinishLate(c)
        PROVE  phase' = phase
    BY <1>4 DEF OpenCheck, AnswerCheck, TimeoutCheck, FinishLate, SetCheck
  <1>5. ASSUME NEW p \in Calls, AdminStep(p)
        PROVE  phase' = phase
    BY <1>5 DEF AdminStep, processVars
  <1>6. CASE UNCHANGED vars
    BY <1>6 DEF vars, processVars, PhaseMoves
  <1> QED
    BY <1>1, <1>2, <1>3, <1>4, <1>5, <1>6 DEF Next, ServerStep, PhaseMoves

\* The schema only grows, and the default policy is only lost with the process.
LEMMA DatabaseGrows ==
    ASSUME ProcessTypes, [Next]_vars
    PROVE  schema \subseteq schema' /\ (policy /\ phase' # "stopped" => policy')
  <1>1. CASE StartStep
    BY <1>1 DEF StartStep, Configured, VerifyMigrations, MigrateAtStart, BootstrapDefaultPolicy,
       SeedLook, SeedNext, Seeded, LoadCatalog, BuildAdminAuthenticator,
       LoadSigningKey, Listen, StartHTTP, StartFails, Ended, databaseVars
  <1>2. CASE ShutdownStep \/ Launch \/ Signal \/ Crash \/ MigrateCommand
    BY <1>2 DEF ShutdownStep, BeginShutdown, GrpcStopped, MetricsStopped, HTTPStopped,
       HTTPShutdownTimeout, PoolsClosed, Launch, Signal, Crash, MigrateCommand, Ended, databaseVars
  <1>3. ASSUME NEW c \in Checks, OpenCheck(c) \/ AnswerCheck(c) \/ TimeoutCheck(c) \/ FinishLate(c)
        PROVE  UNCHANGED databaseVars
    BY <1>3 DEF OpenCheck, AnswerCheck, TimeoutCheck, FinishLate, SetCheck, databaseVars
  <1>4. ASSUME NEW p \in Calls, AdminStep(p)
        PROVE  UNCHANGED databaseVars
    BY <1>4 DEF AdminStep, databaseVars
  <1>5. CASE UNCHANGED vars
    BY <1>5 DEF vars, databaseVars
  <1> QED
    BY <1>1, <1>2, <1>3, <1>4, <1>5 DEF Next, ServerStep, databaseVars

\* A phase that has come after the configuration, the bootstrap or the migrations keeps what
\* it came through.
LEMMA ProgressKept ==
    ASSUME ProcessInv, [Next]_vars
    PROVE  /\ phase' \notin {"stopped", "config"} => Accepted(env)'
           /\ phase' \in Bootstrapped => policy'
           /\ SchemaInv'
  <1> USE DEF Bootstrapped, ToolsMigrated, Loaded, Draining, Closing
  <1>1. PhaseMoves
    BY StepMoves
  <1>2. /\ Accepted(env)' <=> Accepted(env)
        /\ AutoMigrate(env)' <=> AutoMigrate(env)
        /\ persistent' = persistent
        /\ persistent <=> UsesDatabase
    BY Frame DEF ProcessInv
  <1>3. schema \subseteq schema' /\ (policy /\ phase' # "stopped" => policy')
    BY DatabaseGrows DEF ProcessInv
  <1>4. phase' \notin {"stopped", "config"} => Accepted(env)'
    BY <1>1, <1>2 DEF PhaseMoves, Moves, ProcessInv
  <1>5. phase' \in Bootstrapped => policy'
    BY <1>1, <1>3 DEF PhaseMoves, Moves, ProcessInv
  <1>6. /\ MigrationsOf("policies") = {"001"}
        /\ MigrationsOf("audit") = {"002", "003"}
        /\ MigrationsOf("tools") = {"004"}
    BY DEF MigrationsOf
  <1>7. phase' \in {"migrate_policies", "migrate_audit"} => AutoMigrate(env)'
    BY <1>1, <1>2 DEF PhaseMoves, Moves, ProcessInv, SchemaInv
  <1>8. ASSUME persistent
        PROVE  /\ phase' = "migrate_audit" => MigrationsOf("policies") \subseteq schema'
               /\ phase' \in {"bootstrap", "migrate_tools"} =>
                    RequiredMigrations \ (IF AutoMigrate(env) THEN MigrationsOf("tools") ELSE {})
                      \subseteq schema'
               /\ phase' \in ToolsMigrated => RequiredMigrations \subseteq schema'
    <2> USE <1>8, <1>6
    <2>1. CASE phase' = phase \/ phase' = "stopped"
      BY <2>1, <1>3 DEF ProcessInv, SchemaInv
    <2>2. CASE phase' = "migrate_audit" /\ phase # "migrate_audit"
      BY <2>2, <1>1, <1>2 DEF PhaseMoves, Moves, MigrateAtStart, ProcessInv, SchemaInv
    <2>3. CASE phase' = "bootstrap" /\ phase # "bootstrap"
      <3>1. \/ ~UsesDatabase
            \/ Migrated
            \/ phase = "migrate_audit" /\ MigrateAtStart("audit", phase, phase')
        BY <2>3, <1>1 DEF PhaseMoves, Moves
      <3>2. CASE Migrated
        BY <3>2, <2>3, <1>3 DEF Migrated
      <3>3. CASE phase = "migrate_audit" /\ MigrateAtStart("audit", phase, phase')
        <4>1. AutoMigrate(env) /\ "001" \in schema
          BY <3>3 DEF ProcessInv, SchemaInv
        <4>2. schema' = schema \cup {"002", "003"}
          BY <3>3, <4>1, <1>2 DEF MigrateAtStart
        <4> QED
          BY <2>3, <4>1, <4>2 DEF RequiredMigrations
      <3> QED
        BY <3>1, <3>2, <3>3, <1>2
    <2>4. CASE phase' = "migrate_tools" /\ phase # "migrate_tools"
      BY <2>4, <1>1, <1>3 DEF PhaseMoves, Moves, ProcessInv, SchemaInv
    <2>5. CASE phase' = "seed_look" /\ phase # "seed_look"
      BY <2>5, <1>1, <1>2, <1>3 DEF PhaseMoves, Moves, MigrateAtStart, ProcessInv, SchemaInv
    <2>6. CASE phase' \in ToolsMigrated /\ phase \in ToolsMigrated
      BY <2>6, <1>3 DEF ProcessInv, SchemaInv
    <2>7. \/ phase' = phase \/ phase' = "stopped"
          \/ phase' \in {"config", "verify", "migrate_policies"}
          \/ phase' \in {"migrate_audit", "bootstrap", "migrate_tools", "seed_look"} /\ phase' # phase
          \/ phase' \in ToolsMigrated /\ phase \in ToolsMigrated
      BY <1>1 DEF PhaseMoves, Moves
    <2> QED
      BY <2>1, <2>2, <2>3, <2>4, <2>5, <2>6, <2>7
  <1>9. SchemaInv'
    BY <1>2, <1>7, <1>8 DEF SchemaInv
  <1> QED
    BY <1>4, <1>5, <1>9
-----------------------------------------------------------------------------
(* The catalog in the process.                                             *)

\* The steps that have nothing to do with the catalog.
Elsewhere ==
    \/ Configured \/ VerifyMigrations \/ BootstrapDefaultPolicy \/ SeedLook \/ Seeded
    \/ MigrateAtStart("policies", "migrate_policies", "migrate_audit")
    \/ MigrateAtStart("audit", "migrate_audit", "bootstrap")
    \/ MigrateAtStart("tools", "migrate_tools", "seed_look")
    \/ BuildAdminAuthenticator \/ LoadSigningKey \/ Listen \/ StartHTTP
    \/ BeginShutdown \/ GrpcStopped \/ MetricsStopped \/ HTTPStopped \/ HTTPShutdownTimeout
    \/ Launch \/ Signal \/ MigrateCommand
    \/ \E c \in Checks : OpenCheck(c) \/ AnswerCheck(c) \/ TimeoutCheck(c) \/ FinishLate(c)
    \/ UNCHANGED vars

\* They do not touch it.
LEMMA ElsewhereStutters ==
    ASSUME Elsewhere
    PROVE  UNCHANGED catalogVars
  BY DEF Elsewhere, Configured, VerifyMigrations, BootstrapDefaultPolicy, SeedLook, Seeded,
     MigrateAtStart, BuildAdminAuthenticator, LoadSigningKey, Listen, StartHTTP, BeginShutdown,
     GrpcStopped, MetricsStopped, HTTPStopped, HTTPShutdownTimeout, Launch, Signal, MigrateCommand, OpenCheck, AnswerCheck,
     TimeoutCheck, FinishLate, SetCheck, vars

\* A step has to do with the catalog, or ends the process, or neither.
LEMMA StepKinds ==
    ASSUME [Next]_vars
    PROVE  \/ Elsewhere
           \/ SeedNext
           \/ LoadCatalog
           \/ \E how \in {"clean", "failed", "killed"} : Ended(how)
           \/ \E p \in Calls : AdminStep(p)
  BY DEF Next, ServerStep, StartStep, ShutdownStep, Elsewhere, StartFails, PoolsClosed, Crash

\* No request arrives, moves on or loses its client in a process that does not listen yet.
LEMMA NobodyCalls ==
    ASSUME ProcessInv, phase \in BeforeLoad \cup Loaded, NEW p \in Calls
    PROVE  ~AdminStep(p)
  <1>1. ~ready
    BY DEF ProcessInv, CatalogAtRest, BeforeLoad, Loaded
  <1>2. call[p].step \in {"new", "done"}
    BY DEF ProcessInv, CatalogAtRest, InProgress
  <1> QED
    BY <1>1, <1>2 DEF AdminStep, Disconnect, InProgress, CallStep, Lock, Get, Write, Reload,
       Restore, Emit

\* Every step keeps the catalog's invariant.
LEMMA CatalogStep ==
    ASSUME LifeInv, [Next]_vars
    PROVE  CatalogInv'
  <1>1. CASE Elsewhere
    BY <1>1, ElsewhereStutters, CatalogStutters DEF LifeInv
  <1>2. CASE SeedNext
    <2>1. PICK t \in toSeed : SeedOne(t)
      BY <1>2 DEF SeedNext
    <2>2. t \in Tools
      BY DEF LifeInv, ProcessInv, ProcessTypes
    <2>3. (\A p \in Calls : ~InProgress(p)) /\ live = NoTools
      BY <1>2 DEF SeedNext, LifeInv, ProcessInv, CatalogAtRest, BeforeLoad
    <2> QED
      BY <2>1, <2>2, <2>3, CatalogSeed DEF LifeInv
  <1>3. CASE LoadCatalog
    <2>1. \A p \in Calls : ~InProgress(p)
      BY <1>3 DEF LoadCatalog, NextPhase, LifeInv, ProcessInv, CatalogAtRest, BeforeLoad
    <2> QED
      BY <1>3, <2>1, CatalogLoad DEF LoadCatalog, LifeInv
  <1>4. ASSUME NEW how \in {"clean", "failed", "killed"}, Ended(how)
        PROVE  CatalogInv'
    BY <1>4, CatalogEnds DEF Ended, LifeInv
  <1>5. ASSUME NEW p \in Calls, AdminStep(p)
        PROVE  CatalogInv'
    BY <1>5, CatalogCalls DEF AdminStep, LifeInv
  <1> QED
    BY <1>1, <1>2, <1>3, <1>4, <1>5, StepKinds

\* The end of a process leaves the catalog at rest.
LEMMA EndRests ==
    ASSUME LifeInv, NEW how, Ended(how)
    PROVE  CatalogAtRest'
  <1>1. phase' = "stopped" /\ ready' = FALSE /\ live' = NoTools
    BY DEF Ended, CatalogDies
  <1>2. ASSUME NEW p \in Calls
        PROVE  call'[p].step \in {"new", "done"}
    BY DEF Ended, CatalogDies, InProgress, Answered
  <1> QED
    BY <1>1, <1>2 DEF CatalogAtRest, InProgress, BeforeLoad, Loaded, NoTools

\* A step elsewhere leaves it at rest: the phase moves on within the phases before the table
\* is loaded, or within those after, until the process listens.
LEMMA ElsewhereRests ==
    ASSUME ProcessInv, [Next]_vars, Elsewhere
    PROVE  CatalogAtRest'
  <1>1. UNCHANGED <<rows, live, call>>
    BY ElsewhereStutters DEF catalogVars
  <1>2. CASE StartHTTP
    BY <1>2 DEF StartHTTP, CatalogAtRest, BeforeLoad, Loaded
  <1>3. CASE SeedLook
    <2>1. phase = "seed_look" /\ phase' = "seed" /\ ready' = ready
      BY <1>3 DEF SeedLook, NextPhase
    <2>2. \A t \in toSeed' : rows[t] = NoDef
      BY <1>3 DEF SeedLook, ToSeed, NoTools
    <2> QED
      BY <1>1, <2>1, <2>2 DEF ProcessInv, CatalogAtRest, BeforeLoad, Loaded, InProgress, NoTools
  <1>4. CASE ~StartHTTP /\ ~SeedLook
    <2>1. toSeed' = toSeed /\ (ready' => ready) /\ (phase' = "seed" => phase = "seed")
      BY <1>4 DEF Elsewhere, Configured, VerifyMigrations, BootstrapDefaultPolicy, Seeded,
         MigrateAtStart, BuildAdminAuthenticator, LoadSigningKey, Listen, BeginShutdown,
         GrpcStopped, MetricsStopped, HTTPStopped, HTTPShutdownTimeout, Launch, Signal, MigrateCommand, OpenCheck, AnswerCheck,
         TimeoutCheck, FinishLate, SetCheck, NextPhase, processVars, vars
    <2>2. /\ phase' \in BeforeLoad => phase \in BeforeLoad
          /\ phase' \in Loaded => phase \in Loaded
          /\ ready' => phase' \in {"serving", "drain_grpc", "drain_metrics"}
      BY <1>4, <2>1 DEF Elsewhere, Configured, VerifyMigrations, BootstrapDefaultPolicy, Seeded,
         MigrateAtStart, BuildAdminAuthenticator, LoadSigningKey, Listen, BeginShutdown,
         GrpcStopped, MetricsStopped, HTTPStopped, HTTPShutdownTimeout, Launch, Signal, MigrateCommand, OpenCheck, AnswerCheck,
         TimeoutCheck, FinishLate, SetCheck, NextPhase, processVars, vars,
         ProcessInv, CatalogAtRest, BeforeLoad, Loaded
    <2> QED
      BY <1>1, <2>1, <2>2 DEF ProcessInv, CatalogAtRest, InProgress, NoTools
  <1> QED
    BY <1>2, <1>3, <1>4

\* Every step keeps the catalog at rest until the process serves.
LEMMA RestStep ==
    ASSUME LifeInv, [Next]_vars
    PROVE  CatalogAtRest'
  <1>1. CASE Elsewhere
    BY <1>1, ElsewhereRests DEF LifeInv
  <1>2. CASE SeedNext
    <2>1. PICK t \in toSeed : SeedOne(t) /\ toSeed' = toSeed \ {t}
      BY <1>2 DEF SeedNext
    <2>2. phase = "seed" /\ UNCHANGED <<phase, ready, live, call>>
      BY <1>2, <2>1 DEF SeedNext, SeedOne
    <2>3. \A u \in toSeed' : rows'[u] = rows[u]
      BY <2>1 DEF SeedOne, LifeInv, ProcessInv, ProcessTypes, CatalogInv, CatalogTypes
    <2> QED
      BY <2>1, <2>2, <2>3 DEF LifeInv, ProcessInv, CatalogAtRest, BeforeLoad, Loaded, InProgress,
         NoTools
  <1>3. CASE LoadCatalog
    BY <1>3 DEF LoadCatalog, LoadSnapshot, NextPhase, LifeInv, ProcessInv, CatalogAtRest,
       BeforeLoad, Loaded, InProgress
  <1>4. ASSUME NEW how \in {"clean", "failed", "killed"}, Ended(how)
        PROVE  CatalogAtRest'
    BY <1>4, EndRests
  <1>5. ASSUME NEW p \in Calls, AdminStep(p)
        PROVE  CatalogAtRest'
    <2>1. phase \notin BeforeLoad \cup Loaded
      BY <1>5, NobodyCalls DEF LifeInv
    <2>2. UNCHANGED <<phase, ready>>
      BY <1>5 DEF AdminStep, processVars
    <2> QED
      BY <2>1, <2>2 DEF LifeInv, ProcessInv, CatalogAtRest, BeforeLoad, Loaded
  <1> QED
    BY <1>1, <1>2, <1>3, <1>4, <1>5, StepKinds

\* A check is opened by a process that accepts checks only, and none is left open when
\* GracefulStop returns.
LEMMA ChecksStep ==
    ASSUME ProcessInv, [Next]_vars, phase' \in GrpcStoppedIn
    PROVE  \A c \in Checks : check'[c] # "open"
  <1>1. \A c \in Checks : check[c] # "open"
    <2>1. phase \in GrpcStoppedIn \/ \A c \in Checks : check[c] # "open"
      BY StepMoves DEF PhaseMoves, Moves, GrpcStoppedIn, Closing
    <2> QED
      BY <2>1 DEF ProcessInv
  <1>2. CASE check' = check
    BY <1>1, <1>2
  <1>3. ASSUME NEW c \in Checks, OpenCheck(c) \/ AnswerCheck(c) \/ TimeoutCheck(c) \/ FinishLate(c)
        PROVE  \A d \in Checks : check'[d] # "open"
    <2>1. ~OpenCheck(c)
      BY DEF OpenCheck, SetCheck, GrpcAccepts, GrpcStoppedIn, Closing
    <2>2. PICK to \in {"answered", "late"} : check' = [check EXCEPT ![c] = to]
      BY <1>3, <2>1 DEF AnswerCheck, TimeoutCheck, FinishLate, SetCheck
    <2> QED
      BY <1>1, <2>2 DEF ProcessInv, ProcessTypes
  <1>4. ASSUME NEW how, Ended(how)
        PROVE  FALSE
    BY <1>4 DEF Ended, GrpcStoppedIn, Closing
  <1>5. \/ check' = check
        \/ \E how : Ended(how)
        \/ \E c \in Checks : OpenCheck(c) \/ AnswerCheck(c) \/ TimeoutCheck(c) \/ FinishLate(c)
    <2>1. CASE Elsewhere
      BY <2>1 DEF Elsewhere, Configured, VerifyMigrations, BootstrapDefaultPolicy, SeedLook,
         Seeded, MigrateAtStart, BuildAdminAuthenticator, LoadSigningKey, Listen, StartHTTP,
         BeginShutdown, GrpcStopped, MetricsStopped, HTTPStopped, HTTPShutdownTimeout, Launch, Signal, MigrateCommand, NextPhase,
         processVars, vars
    <2>2. CASE SeedNext \/ LoadCatalog
      BY <2>2 DEF SeedNext, LoadCatalog, NextPhase
    <2>3. CASE \E p \in Calls : AdminStep(p)
      BY <2>3 DEF AdminStep, processVars
    <2> QED
      BY <2>1, <2>2, <2>3, StepKinds
  <1> QED
    BY <1>2, <1>3, <1>4, <1>5

\* No request is left when the process is about to end cleanly, and none arrives.
LEMMA ClosingStep ==
    ASSUME ProcessInv, [Next]_vars, phase' = "close_clean"
    PROVE  \A p \in Calls : call'[p].step \in {"new", "done"}
  <1>1. CASE HTTPStopped
    BY <1>1 DEF HTTPStopped, catalogVars, InProgress
  <1>2. CASE ~HTTPStopped
    <2>1. phase = "close_clean"
      BY <1>2, StepMoves DEF PhaseMoves, Moves
    <2>2. ~ready /\ \A p \in Calls : call[p].step \in {"new", "done"}
      BY <2>1 DEF ProcessInv, CatalogAtRest, InProgress
    <2>3. \A p \in Calls : ~AdminStep(p)
      BY <2>2 DEF AdminStep, Disconnect, InProgress, CallStep, Lock, Get, Write, Reload, Restore,
         Emit
    <2>4. ~SeedNext /\ ~LoadCatalog
      BY <2>1 DEF SeedNext, LoadCatalog, NextPhase
    <2>5. ASSUME NEW how, Ended(how)
          PROVE  FALSE
      BY <2>5 DEF Ended
    <2>6. Elsewhere
      BY <2>3, <2>4, <2>5, StepKinds
    <2>7. call' = call
      BY <2>6, ElsewhereStutters DEF catalogVars
    <2> QED
      BY <2>2, <2>7
  <1> QED
    BY <1>1, <1>2
-----------------------------------------------------------------------------
(* The invariant of the whole.                                             *)

LEMMA LifeInvStep ==
    ASSUME LifeInv, [Next]_vars
    PROVE  LifeInv'
  <1>1. CatalogInv'
    BY CatalogStep
  <1>2. ProcessTypes'
    BY TypesStep DEF LifeInv, ProcessInv
  <1>3. (persistent <=> UsesDatabase)'
    BY Frame DEF LifeInv, ProcessInv, UsesDatabase
  <1>4. /\ (phase \notin {"stopped", "config"} => Accepted(env))'
        /\ (phase \in Bootstrapped => policy)'
        /\ SchemaInv'
    BY ProgressKept DEF LifeInv, Bootstrapped, ToolsMigrated, Loaded, Draining, Closing
  <1>5. CatalogAtRest'
    BY RestStep
  <1>6. (phase \in GrpcStoppedIn => \A c \in Checks : check[c] # "open")'
    BY ChecksStep DEF LifeInv, GrpcStoppedIn, Closing
  <1>7. (phase = "close_clean" => \A p \in Calls : ~InProgress(p))'
    BY ClosingStep DEF LifeInv, InProgress
  <1> QED
    BY <1>1, <1>2, <1>3, <1>4, <1>5, <1>6, <1>7 DEF LifeInv, ProcessInv

\* A process that has not been started yet.
LEMMA LifeInvStarts ==
    ASSUME Init
    PROVE  LifeInv
  <1>1. CatalogInv
    BY CatalogStarts DEF Init
  <1>2. phase = "stopped" /\ ready = FALSE /\ live = NoTools
    BY DEF Init, CatalogInit
  <1>3. ProcessTypes
    <2>1. starts \in 0..MaxStarts
      BY LifecycleAssumption DEF Init
    <2>2. schema \subseteq RequiredMigrations
      BY DEF Init, RequiredMigrations
    <2> QED
      BY <2>1, <2>2 DEF Init, ProcessTypes, Phases
  <1>4. persistent <=> UsesDatabase
    BY DEF Init
  <1>5. SchemaInv
    BY <1>2 DEF SchemaInv, ToolsMigrated, Loaded, Draining, Closing
  <1>6. CatalogAtRest
    BY <1>2 DEF Init, CatalogInit, CatalogAtRest, InProgress, Loaded
  <1> QED
    BY <1>1, <1>2, <1>3, <1>4, <1>5, <1>6 DEF LifeInv, ProcessInv, Bootstrapped, ToolsMigrated,
       Loaded, Draining, Closing, GrpcStoppedIn

\* The invariant holds whatever fails, is cut off or is started again.
LEMMA LifeInvHolds == Spec => []LifeInv
  <1>1. Init => LifeInv
    BY LifeInvStarts
  <1>2. LifeInv /\ [Next]_vars => LifeInv'
    BY LifeInvStep
  <1> QED
    BY <1>1, <1>2, PTL DEF Spec

(***************************************************************************)
(* The process, the database and the catalog keep their types, and no more *)
(* audit appends are counted as failed than there were requests.           *)
(***************************************************************************)
THEOREM TypeCorrect == Spec => []LifecycleTypeOK
  <1>1. ASSUME LifeInv
        PROVE  LifecycleTypeOK
    <2>1. missed \in 0..Cardinality(Calls)
      <3>1. Oks \subseteq Calls
        BY DEF Oks
      <3>2. /\ Cardinality(Oks) \in Nat /\ Cardinality(Calls) \in Nat
            /\ Cardinality(Oks) <= Cardinality(Calls)
        BY <3>1, CatalogAssumption, FS_Subset, FS_CardinalityType
      <3> QED
        BY <1>1, <3>2 DEF LifeInv, CatalogInv, CountInv, CatalogTypes
    <2>2. CatalogTypeOK
      BY <1>1, <2>1 DEF LifeInv, CatalogInv, CatalogTypes, CatalogTypeOK, Requested
    <2> QED
      BY <1>1, <2>2 DEF LifeInv, ProcessInv, ProcessTypes, LifecycleTypeOK, Phases
  <1> QED
    BY <1>1, LifeInvHolds, PTL

(***************************************************************************)
(* A process accepts checks only with every migration its stores need, an  *)
(* active default policy and a snapshot of the whole table.                *)
(***************************************************************************)
THEOREM AcceptsOnlyWhole == Spec => []ServesOnlyWhole
  <1>1. ASSUME LifeInv
        PROVE  ServesOnlyWhole
    BY <1>1 DEF LifeInv, ProcessInv, SchemaInv, CatalogAtRest, ServesOnlyWhole, GrpcAccepts,
       Bootstrapped, ToolsMigrated, Loaded
  <1> QED
    BY <1>1, LifeInvHolds, PTL

(***************************************************************************)
(* A production process that accepts checks is hardened, whatever          *)
(* environments it may be started in: for every combination of the         *)
(* settings, not only for the ones tried.                                  *)
(***************************************************************************)
THEOREM ProductionHolds == Spec => []ProductionIsHardened
  <1>1. ASSUME LifeInv
        PROVE  ProductionIsHardened
    <2> SUFFICES ASSUME GrpcAccepts, env.ENV \in {"prod", "production"}
                 PROVE  /\ persistent
                        /\ env.DATABASE_URL = "plain" => env.DB_ALLOW_INSECURE
                        /\ "client_ca" \in env.AUTHZ_TLS /\ "cert" \in env.HTTP_TLS
                        /\ AdminToken(env) \notin {"given", "generated"}
                        /\ env.AUDIT_SALT = "own" /\ env.SIGNING_KEY_FILE
      BY DEF ProductionIsHardened
    <2>1. Accepted(env) /\ (persistent <=> UsesDatabase)
      BY <1>1 DEF LifeInv, ProcessInv, GrpcAccepts
    <2>2. IsProduction(env)
      BY DEF IsProduction, Environment
    <2>3. ProductionRequirements(env)
      BY <2>1, <2>2 DEF Accepted, Validate
    <2> QED
      BY <2>1, <2>3 DEF ProductionRequirements, UsesDatabase
  <1> QED
    BY <1>1, LifeInvHolds, PTL

(***************************************************************************)
(* Whenever nobody holds catalogMu, a tool on which the live snapshot and  *)
(* the table differ is one that some admin was told about.                 *)
(***************************************************************************)
THEOREM NoSilentDivergence == Spec => []DivergenceIsReported
  <1>1. ASSUME LifeInv
        PROVE  DivergenceIsReported
    <2> SUFFICES ASSUME mu = NoOne, live # NoTools, NEW t \in Tools, rows[t] # live[t]
                 PROVE  Reported(t)
      BY DEF DivergenceIsReported
    <2>1. \A p \in Calls : call[p].step \notin Held
      BY <1>1, CatalogAssumption DEF LifeInv, CatalogInv, MutexInv
    <2> QED
      BY <1>1, <2>1 DEF LifeInv, CatalogInv, DivergenceInv, Held
  <1> QED
    BY <1>1, LifeInvHolds, PTL

(***************************************************************************)
(* The counter of failed appends is never below the number of changes      *)
(* answered "ok" that the audit trail does not have.                       *)
(***************************************************************************)
THEOREM CounterMissesNone == Spec => []UnrecordedIsCounted
  <1>1. ASSUME LifeInv
        PROVE  UnrecordedIsCounted
    BY <1>1 DEF LifeInv, CatalogInv, CountInv, Unrecorded, UnrecordedIsCounted
  <1> QED
    BY <1>1, LifeInvHolds, PTL

-----------------------------------------------------------------------------
(* What a step may never do.                                               *)

(***************************************************************************)
(* Start-up never changes a stored definition: it seeds rows that were     *)
(* absent when it looked, and nobody else writes while it runs.            *)
(***************************************************************************)
THEOREM StartIsHarmless == Spec => StartKeepsCatalog
  <1>1. ASSUME LifeInv, [Next]_vars, persistent, phase \in Starting, NEW t \in Tools,
               rows[t] # NoDef
        PROVE  rows'[t] = rows[t]
    <2>1. \A p \in Calls : ~InProgress(p)
      BY <1>1 DEF LifeInv, ProcessInv, CatalogAtRest, Starting, BeforeLoad, Loaded
    <2>2. CASE Elsewhere \/ LoadCatalog
      BY <2>2, ElsewhereStutters DEF catalogVars, LoadCatalog, LoadSnapshot
    <2>3. CASE SeedNext
      <3>1. PICK u \in toSeed : SeedOne(u)
        BY <2>3 DEF SeedNext
      <3>2. rows[u] = NoDef
        BY <1>1, <2>3 DEF SeedNext, LifeInv, ProcessInv, CatalogAtRest
      <3> QED
        BY <1>1, <3>1, <3>2 DEF SeedOne, LifeInv, CatalogInv, CatalogTypes
    <2>4. ASSUME NEW how, Ended(how)
          PROVE  rows' = rows
      <3>1. InFlight = {}
        BY <2>1 DEF InFlight, InProgress
      <3> QED
        BY <1>1, <2>4, <3>1 DEF Ended, CatalogDies
    <2>5. ASSUME NEW p \in Calls
          PROVE  ~AdminStep(p)
      BY <1>1, NobodyCalls DEF LifeInv, Starting, BeforeLoad, Loaded
    <2> QED
      BY <1>1, <2>2, <2>3, <2>4, <2>5, StepKinds
  <1>2. LifeInv /\ [Next]_vars =>
          [persistent /\ phase \in Starting =>
             \A t \in Tools : rows[t] # NoDef => rows'[t] = rows[t]]_vars
    BY <1>1
  <1> QED
    BY <1>2, LifeInvHolds, PTL DEF Spec, StartKeepsCatalog

\* A process says that it ended cleanly when Shutdown had returned without an error.
LEMMA CleanExits ==
    ASSUME [Next]_vars, exit # "clean", exit' = "clean"
    PROVE  phase = "close_clean" /\ Ended("clean")
  <1>1. CASE Elsewhere
    BY <1>1 DEF Elsewhere, Configured, VerifyMigrations, BootstrapDefaultPolicy, SeedLook, Seeded,
       MigrateAtStart, BuildAdminAuthenticator, LoadSigningKey, Listen, StartHTTP, BeginShutdown,
       GrpcStopped, MetricsStopped, HTTPStopped, HTTPShutdownTimeout, Launch, Signal, MigrateCommand, OpenCheck, AnswerCheck,
       TimeoutCheck, FinishLate, SetCheck, NextPhase, processVars, vars
  <1>2. CASE SeedNext \/ LoadCatalog
    BY <1>2 DEF SeedNext, LoadCatalog, NextPhase
  <1>3. CASE \E p \in Calls : AdminStep(p)
    BY <1>3 DEF AdminStep, processVars
  <1>4. CASE Crash \/ StartFails
    BY <1>4 DEF Crash, StartFails, Ended
  <1>5. CASE PoolsClosed
    BY <1>5 DEF PoolsClosed, Ended
  <1>6. PoolsClosed \/ Crash \/ StartFails \/ Elsewhere \/ SeedNext \/ LoadCatalog
        \/ \E p \in Calls : AdminStep(p)
    BY DEF Next, ServerStep, StartStep, ShutdownStep, Elsewhere
  <1> QED
    BY <1>1, <1>2, <1>3, <1>4, <1>5, <1>6

(***************************************************************************)
(* A process that says it stopped cleanly has cut off no check and lost no *)
(* admin request.                                                          *)
(***************************************************************************)
THEOREM CleanMeansClean == Spec => CleanExitAnswers
  <1>1. ASSUME LifeInv, [Next]_vars, exit # "clean", exit' = "clean"
        PROVE  CutsNothing
    <2>1. phase = "close_clean" /\ Ended("clean")
      BY <1>1, CleanExits
    <2>2. /\ \A c \in Checks : check[c] # "open"
          /\ \A p \in Calls : ~InProgress(p)
      BY <1>1, <2>1 DEF LifeInv, ProcessInv, GrpcStoppedIn, Closing
    <2>3. \A c \in Checks : check'[c] = "cut" => check[c] = "cut"
      BY <2>1, <2>2 DEF Ended
    <2>4. \A p \in Calls : call'[p] = call[p]
      BY <2>1, <2>2 DEF Ended, CatalogDies
    <2> QED
      BY <2>3, <2>4 DEF CutsNothing
  <1>2. LifeInv /\ [Next]_vars => [exit # "clean" /\ exit' = "clean" => CutsNothing]_vars
    BY <1>1
  <1> QED
    BY <1>2, LifeInvHolds, PTL DEF Spec, CleanExitAnswers

\* The step of a request that answers it tells the truth.
LEMMA ReplyIsTrue ==
    ASSUME CatalogInv, NEW p \in Calls,
           Request(p) \/ RequestMalformed(p) \/ Disconnect(p) \/ CallStep(p),
           NEW q \in Calls, call[q].reply # call'[q].reply
    PROVE  TrueReply(q)
  <1>1. /\ call[q].tool \in Tools
        /\ rows \in [Tools -> MaybeDef]
        /\ call \in Requested
    BY DEF CatalogInv, CatalogTypes, Requested, Requests
  <1>2. CASE Request(p) \/ Disconnect(p) \/ Lock(p) \/ Reload(p)
    <2>1. CASE Request(p)
      <3>1. PICK i \in Inputs[p] :
              call' = [call EXCEPT ![p] = [@ EXCEPT !.step = "lock", !.tool = i[1], !.def = i[2]]]
        BY <2>1 DEF Request
      <3>2. call'[q] = IF q = p THEN [call[p] EXCEPT !.step = "lock", !.tool = i[1], !.def = i[2]]
                       ELSE call[q]
        BY <1>1, <3>1 DEF Requested
      <3>3. [call[p] EXCEPT !.step = "lock", !.tool = i[1], !.def = i[2]].reply = call[p].reply
        BY <1>1 DEF Requested, Requests
      <3> QED
        BY <3>2, <3>3
    <2>2. CASE Disconnect(p)
      BY <1>1, <2>2 DEF Disconnect, Requested, Requests
    <2>3. ASSUME NEW s \in Steps, Goto(p, s)
          PROVE  call'[q].reply = call[q].reply
      BY <1>1, <2>3 DEF Goto, Requested, Requests
    <2> QED
      BY <1>2, <2>1, <2>2, <2>3 DEF Lock, Reload, Steps
  <1>3. CASE RequestMalformed(p)
    BY <1>1, <1>3 DEF RequestMalformed, Answered, TrueReply, Requested
  <1>4. CASE Get(p)
    BY <1>1, <1>4 DEF Get, Finish, Answered, TrueReply, Requested, Requests
  <1>5. CASE Write(p)
    BY <1>1, <1>5 DEF Write, Goto, Finish, Answered, TrueReply, Requested, Requests
  <1>6. CASE Restore(p)
    BY <1>1, <1>6 DEF Restore, Restored, Finish, Answered, TrueReply, Requested, Requests
  <1>7. CASE Emit(p)
    BY <1>1, <1>7 DEF Emit, Finish, Answered, TrueReply, Requested, Requests, CatalogInv,
       ProgressInv, Progress
  <1> QED
    BY <1>2, <1>3, <1>4, <1>5, <1>6, <1>7 DEF CallStep

(***************************************************************************)
(* A reply tells what became of the request, however requests, clients     *)
(* that leave, faults, restarts and the end of the process interleave.     *)
(***************************************************************************)
THEOREM RepliesTellTheTruth == Spec => RepliesAreTrue
  <1>1. ASSUME LifeInv, [Next]_vars, NEW q \in Calls, call[q].reply # call'[q].reply
        PROVE  TrueReply(q)
    <2>1. CASE Elsewhere \/ SeedNext \/ LoadCatalog
      BY <1>1, <2>1, ElsewhereStutters DEF catalogVars, SeedNext, SeedOne, LoadCatalog,
         LoadSnapshot
    <2>2. ASSUME NEW how, Ended(how)
          PROVE  TrueReply(q)
      BY <1>1, <2>2 DEF Ended, CatalogDies, Answered, TrueReply
    <2>3. ASSUME NEW p \in Calls, AdminStep(p)
          PROVE  TrueReply(q)
      BY <1>1, <2>3, ReplyIsTrue DEF AdminStep, LifeInv
    <2> QED
      BY <2>1, <2>2, <2>3, <1>1, StepKinds
  <1>2. LifeInv /\ [Next]_vars =>
          [\A p \in Calls : call[p].reply # call'[p].reply => TrueReply(p)]_catalogVars
    BY <1>1
  <1> QED
    BY <1>2, LifeInvHolds, PTL DEF Spec, RepliesAreTrue

=============================================================================

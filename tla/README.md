# AgentGate in TLA+

AgentGate is an external authorization service for AI agents. A gateway (Envoy or
agentgateway) asks it over gRPC ext_authz whether a tool call may pass; AgentGate
identifies the caller, classifies the tool, evaluates a Cedar policy, mints a credential
for the tool's backend, records the decision in a hash-chained audit log, and answers. An
administrator manages policies and the tool catalog over an HTTP API. Everything runs in
one Go process (`src/agentgate/cmd/agentgate`) on a Postgres database, or on in-memory
stores.

This directory holds TLA+ specifications of that program, the TLC runs that check them
on small instances, and TLAPS proofs for every value of the constants. Paths such as
`audit/service.go` are relative to `src/agentgate/internal`.

## 1. The system

### Components, their state and operations

| component | source | state | operations | modelled in |
|---|---|---|---|---|
| policy store | `policystore/` | rows (workspace, version, state) | CreatePolicy, GetPolicy, GetActivePolicy, ActivatePolicy, RollbackPolicy, Migrate | `PolicyStore`, `PolicyStoreTx`, `Lifecycle` |
| policy manager | `policymanager/manager.go` | `engines`, `activeVersions` under a RWMutex | CreateCandidate, Activate, Rollback, LoadActivePolicies | `PolicyManager` |
| tool catalog | `toolcatalog/`, `govapi/tools_catalog.go` | rows, a live snapshot, `catalogMu` | PUT, DELETE, Reload, rollbackTool, SeedIfEmpty | `ToolCatalog`, `Lifecycle` |
| process | `cmd/agentgate/main.go`, `config/`, `httpserver/`, `tlsconfig/` | configuration, listeners, readiness | serve, migrate, shut down | `Lifecycle`, `Config`, `PolicyManager` (`bootstrapDefaultPolicy`) |
| governance API | `govapi/handler.go`, `govapi/middleware.go` | none | the mutating calls; middlewares; audit pages; dry runs | `PolicyManager`, `ToolCatalog`, `AdminGate`, `AuditTrail`, `CheckPipeline` |
| OIDC verifier | `oidcverify/` | the JWKS cache | get, refresh, fetch, Verify | `KeySet`, `AdminGate` |
| rate limiter | `ratelimit/ratelimit.go` | a bucket per subject or address | Allow | `RateLimiter`, `AdminGate` |
| adapter, identity, context | `authz/adapter.go`, `identity/`, `contextassembly/`, `toolregistry/`, `argdecl/` | none | Adapt and what it calls | `Adaptation`, `CheckPipeline` |
| decision engine, credential issuer | `decision/`, `policy/`, `credential/` | none | Evaluate, Issue | `PolicyEngine`, `CheckPipeline` |
| ext_authz server | `authz/server.go` | one goroutine per check | Check | `AuditedDecision`, `CheckPipeline` |
| audited decision service | `audit/service.go` | its mutex | EvaluateWithCredential, OnMutation | `AuditedDecision`, `CheckPipeline` |
| audit store | `audit/postgres.go`, `audit/memory.go`, `audit/chain.go` | rows in sequence order | AppendDecision, GetLatestRecord, ListRecords, ListRecordsBefore | `AuditedDecision`, `AuditTrail` |
| chain verifier | `audit/verifier.go` | none | VerifyWorkspace | `AuditTrail` |
| redaction, metrics, logging, API docs | `audit/redact.go`, `metrics/` … | counters | | not modelled |
| gateway, console, web sites, deployments | `src/gateway`, `src/frontend` … | | | not modelled |

### How they interact

* `govapi` handlers run one goroutine per request behind the middlewares: authenticate to
  choose a bucket, charge it, limit the body, authenticate again if that failed. Policy
  handlers call the Manager, which calls the store (several round trips, no lock held),
  swaps its cache under its own mutex and calls `OnMutation` of the audited decision
  service. Catalog handlers hold `catalogMu` over read, write, reload, undo and event.
* `Check` adapts the request against one catalog snapshot and starts a goroutine that
  evaluates it on the Manager's cached engine, reads the active version from the cache a
  second time, has a credential minted for an ALLOW, then takes the service's mutex,
  reads the latest audit row and appends the next. `Check` waits for the goroutine or for
  its 3-second deadline, whichever comes first.
* Decisions and mutations append to one chain per workspace, which the admin API pages
  through and `agentgate verify-audit` recomputes.
* A crash forgets caches, mutexes and calls in progress. The database survives, and so may
  a statement or transaction whose client is gone. `agentgate migrate` may run beside it.

### What is hard

Calls interleave between their round trips; what was read before a lock is used after
it; a COMMIT may take effect although its caller gets an error; deadlines and departing
clients race late results; keys and buckets age between two looks at them; a start has to
cope with whatever an earlier one left half done. `PROJECT.json` lists these hazards, each
at its line, with the property that would catch it.

What makes each component correct:

* *Policy store*: activation is atomic, at most one version of a workspace is active, no
  transaction waits for ever.
* *Policy manager*: what is enforced was committed as active and parses; between calls
  it is the active version; the events tell what was made active; a reply names the
  version its call made active, or a later one; a process that serves has a default
  policy, and start-up gets there in the end.
* *Tool catalog*: the table and the live snapshot agree, or an admin was told they may not;
  replies are true; changes that are missing from the audit trail were counted.
* *Process*: serves only on a fully migrated database with a policy and the catalog it
  loaded, and hardened in production; seeding overwrites nothing; stops when told to and
  then has answered everybody if it says so.
* *Admin gate*: one fetch of keys at a time; retired keys die out and new ones are picked
  up; no bucket gives more than its burst and what it refills; only admins are served.
* *Check*: an ALLOW meets every condition the documents set, on one snapshot and one
  policy, is told only on a committed row (O-002) and carries the right credential; told
  reasons are true, or tell of a fault that happened; undeclared arguments have no say;
  nothing is recorded twice; an answer that waited for its row agrees with it; every check
  is answered; a row names the policy that was evaluated; a dry run foretells the check.
* *Audit trail*: the chain is linked; the verifier accepts exactly the genuine chains;
  pages leave nothing out.

## 2. The modules

| module | content |
|---|---|
| `PolicyStore` | what `policystore.Store` promises: every call one atomic step on `policies` |
| `PolicyStoreTx` | the Postgres implementation of activation and rollback, statement by statement |
| `PolicyManager` | the Manager, the mutating policy calls, start-up, crashes; extends `PolicyStore` |
| `DecisionLedger` | what the decision path promises: a growing ledger and allow-only-if-recorded |
| `AuditedDecision` | Check, EvaluateWithCredential, OnMutation and the audit chain, step by step |
| `ToolCatalog` | the table, the snapshot and the steps of PUT and DELETE with their faults |
| `Config` | `Load`'s defaults and `Validate` as operators on an environment |
| `Lifecycle` | one life of the process after another; extends `ToolCatalog` and `Config` |
| `KeySet` | the JWKS cache as operators: lookup, claim of the slot, outcome of a fetch |
| `RateLimiter` | `Allow` as an operator on the limiter's state |
| `AdminGate` | concurrent admin requests in the middlewares; extends `KeySet` and `RateLimiter` |
| `Adaptation` | from a CheckRequest to a `decision.Request`, as operators |
| `PolicyEngine` | `Engine.Evaluate`, Cedar's part of it, and what a credential says; extends `Adaptation` |
| `CheckPipeline` | a check from request to answer while admins change things; extends `PolicyEngine` |
| `AuditTrail` | rows, hashes, damage, pages and the verifier |
| `MC…` | the instances for TLC |
| `…Proofs` | theorems |

**PolicyStore.** `policies[ws][v]` is the state column of a row, "absent" if there is no
row. Content is left out: `CreateCandidate` names a policy by the hash of its content and
no method changes a stored content. `MemoryStore` is exactly this, since every method holds
the store's mutex from its first to its last line.

**PolicyManager.** `cached[ws]` stands for `engines[ws]` and `activeVersions[ws]`, which
only change together. `call[t]` is the local state of a thread: a handler goroutine, or
the thread of `runServe` (`Boot`) while it starts. Actions follow the code's round trips:
`Receive` (the request, and validation of a candidate before the store is touched), `Peek`
(the handler's read of the version it will report as rolled back from), `ReadTarget`
(GetPolicy, parse, and the transaction's read of what is active, which it will report as
the previous version and makes before it holds any lock), `WriteCandidate` or
`WriteActive` (the store's transaction), `Swap` (the section under the mutex), `Emit`
(OnMutation), `Reread` (the GetActivePolicy whose result is the reply). `Hydrate`, `Serve`
and `AbortStart` are `bootstrapDefaultPolicy`; it uses the same write, swap and emit steps
to create and activate the baseline. A write ends in one of the `Outcomes`, or of the
`BootOutcomes` for start-up's own writes: "committed", "rejected", or "unknown" (it
committed but its caller gets an error). `overtaken` and `misread` are history: the calls
during which another one activated, and whether some transaction replaced another version
than it had read. The commit of a process that has died is not modelled as coming later: a
write either took effect before the crash or never does. The store is the Postgres one,
which outlives the process; with the in-memory stores a restart is simply `Init`.

**PolicyStoreTx.** One workspace. `rows` is what is committed; `owner` and `draft` are the
row locks and what their holders wrote; `tx[t]` is where a transaction is. A statement
sees what was committed when it starts; an UPDATE waits for the row's lock and looks at
the row again; the entry into `idx_policies_unique_active` waits for a transaction in
progress that may take or free the place and fails if the place is taken. `WaitsFor` and
`DeadlockVictim` stand for the server's deadlock detection. The Postgres rules are
external to the repository and are modelled as READ COMMITTED documents them.

**AuditedDecision.** One workspace (the chain and its advisory lock are per workspace; the
mutex is shared by all, and more workspaces would only add waiting). `job[j]` is the local
state of a check's goroutine or of an OnMutation call, `answer[c]` what Check returned,
`chain` the committed rows and `orphan` a transaction whose client gave up on COMMIT and
which the server has not finished. A row's hash covers its predecessor's hash and its own
unique execution id, so `prev` is the position of the row it links to, 0 for GenesisHash.
`Evaluate` and `Provenance` are two separate reads of the Manager's cache, because the
code makes two. `Issue` takes the mutex for the read of the issuer, for every decision,
and lets it go before the issuer is asked, which is for an ALLOW only. `Faults` says what
may fail: "issue", "read", "reject", "orphan". An error of canonicalisation has the effect
of "reject".

**DecisionLedger.** `ledger` grows by at most one entry per check or mutation and `told[c]`
turns "allow" only if the ledger holds the entry. A deny may be told at any time, also after
the deadline, recorded or not: the code promises no more.

**ToolCatalog.** `rows` is the table `tool_definitions`, `live` the snapshot that checks
read, `mu` the holder of `catalogMu`, `call[p]` a PUT or DELETE. Each store call is a
step: `Get`, `Write`, `Reload`, `Restore` (rollbackTool), `Emit` (OnMutation). A definition
is a model value; those in `Unbuildable` pass `Validate` and fail `NewDeclarationSet` (an
argument whose name is blank). `Disconnect` cancels a request's context, which Postgres
looks at before and while it runs a statement and the in-memory store never does;
`Restore` runs without it. `InFlight` is what a statement of a dead process may still do;
a statement that a live process gave up on has its effect, or none, by the time of the reply.

**Config and Lifecycle.** An environment is a record of the settings that decide something
later. `phase` is where `runServe` is; every step of start-up that needs the database fails
once signalled. `schema` is the table of applied migrations, which a starting process or
the `migrate` command, in a process of its own that may stop anywhere, extends store by
store. A check is open, answered, "late" (answered by its timeout and still evaluated), or
cut off. Shutdown is `GrpcStopped` (GracefulStop), `MetricsStopped`, `HTTPStopped` or
`HTTPShutdownTimeout`, and `PoolsClosed`, the deferred Close of the stores, which waits for
whoever still uses a connection: the holder of `catalogMu` and late evaluations. The
policies' bootstrap is one step here; `PolicyManager` has its
detail. `rows`, `schema` and `policy` survive a process on Postgres and nothing survives it
in memory.

**KeySet, RateLimiter, AdminGate.** The cache and the limiter are values, and each
critical section of the code is an operator from one value to the next; `AdminGate` gives
them to concurrent requests with a clock. `Check` is the part of authenticating that needs
the cache's mutex: an answer, or the claim of the refresh slot before the fetch, which
ends in `FetchSucceeds` or `FetchFails` within `FetchTimeout` (Tick waits for it) and is
used with what was read before. A bucket holds `Unit` times its tokens, so that a rate
below one token per tick is a number. Subjects and addresses are one space of keys, as in
the code: a token's subject may be the address of somebody else. The start-up fetch is
stamped when it is over, so the first keys may have been withdrawn, and others published,
up to `FetchTimeout` before the clock starts. What a token says (signature, issuer,
audience, type) is one flag; its key, times and role are not. In "static" mode the shared
token is compared.

**Adaptation, PolicyEngine, CheckPipeline.** The adapter's steps in the code's order, with
the reason of the first that fails; `FirstGiven` is its fallback from header to route to
default. Arguments are values of each JSON kind; policies are sets of rules with an
effect, roles, risks and a condition on one argument, which may ask for its presence
first. `CheckPipeline` takes the snapshot at `Arrive` (the one `Current()` of Adapt) and
the engine at `Evaluate`, and changes both at any time in between. `StandIn` is what Check
has audited for a request it refuses. The response carries the adapter's reason for those,
the engine's otherwise, and evaluation_error once the deadline has passed (`TimeOut`),
after which the goroutine goes on; `EvaluateFails` and `RecordFails` are errors of an
evaluator (the one that `runServe` wires in returns none) and of the append. A dry run is
a `Trial`: a sample in the admin's words, which `Converted` makes into a request as the
handler does, on its own defaults; a check of the same call gets there from the gateway's
claims, headers and catalog.

**AuditTrail.** `table` maps sequence numbers to rows; a row holds its record, canonical
payload, the previous hash and its own. A hash is the sequence of payloads it was made
from, which is injective as SHA-256 is taken to be; `ComputeCanonicalPayload` sorts the
roles. `Damage` changes one stored item, loses a row or exchanges two and computes no hash:
the chain has no key, so whoever recomputes it goes unnoticed. `original` and `grown` are
history. A page is the newest rows of a set of numbers (`NthNewest`, `Page`), as the
statement's ORDER BY and LIMIT have it; the verifier looks at each row and at the one before
it, and its result is the first that does not fit.

Names follow the code. Operators whose comment begins "Mutant of" are not part of the
specification: each is the changed form of one definition, and shows that the property it
is paired with in `PROJECT.json` can fail.

## 3. The runs

Passing runs:

| run | instance | shows | states |
|---|---|---|---|
| `pm_concurrent` | 2 admins, 4 calls, 1 workspace, 3 versions of which one does not parse, 1 crash, writes commit or are rejected | `TypeOK`, `CacheIsCommitted`, `ServingEnforcesDefault`, `TrailAccountsForActive`, `RepliesDescribeTheCall` | 1 073 000 |
| `pm_serial` | 1 admin, 2 workspaces, 2 crashes, writes commit or are rejected, those of start-up commit and may be reported as errors | `EnforcedIsActive`, `EventuallyServes` | 364 000 |
| `ad_faults` | 2 checks, 1 activation, 2 versions, every fault, 1 crash | `TypeOK`, `AllowIsDurable`, `OneRowEach`, `ImplementsLedger` | 996 000 |
| `ad_healthy` | the same with one check that cannot be adapted; issuance fails and appends are rejected | `ChainIntact`, `AnsweredAsRecorded`, `ChecksAreAnswered` | 46 000 |
| `tx_activate` | 3 transactions, 3 versions, cancellation anywhere | `TypeOK`, `ImplementsStore`, `ActivationsEnd` | 96 608 |
| `lifecycle` | 20 environments, databases at 4 migrations, 2 tools, 2 catalog requests, 1 check, 2 starts, every fault, shutdown down to the Close of the stores | `LifecycleTypeOK`, `DivergenceIsReported`, `UnrecordedIsCounted`, `ServesOnlyWhole`, `ProductionIsHardened`, `RepliesAreTrue`, `StartKeepsCatalog`, `CleanExitAnswers`, `SignalStops` | 512 000 |
| `gate` | 3 requests, 2 keys, 1 rotation, clock to 6, burst of 1 that is reset before it has refilled, a subject that is somebody's address | `TypeOK`, `OneFetchAtATime`, `RateIsBounded`, `ServedIsEarned`, `RetiredKeysExpire`, `RotationIsPickedUp` | 3 695 000 |
| `pipeline` | 1 check of 34 kinds, 4 snapshots, 4 policies, 4 assignments of engines, 2 workspaces, 2 changes, 2 dry runs, every fault and the deadline | `TypeOK`, `AllowIsEarned`, `ReasonsAreTrue`, `UndeclaredHasNoSay`, `AnswersAreOnRecord`, `DryRunForetells` | 1 435 000 |
| `trail` | 3 rows, 2 damages, pages of 1 or 2 | `VerdictIsExact`, `PagesAreWhole` | 1 003 000 |

Runs that end in a violation, each of one property that a document, a comment or a test
states, and each a finding in `PROJECT.json`:

| run | property | what happens |
|---|---|---|
| `pm_race` | `EnforcedIsActive` | two activations commit in one order and swap the cache in the other |
| `ad_provenance` | `ProvenanceIsExact` | an activation between evaluation and the second read of the cache: the row names a policy that was not evaluated |
| `ad_read_fault` | `ChainIntact` | any error of GetLatestRecord counts as an empty chain |

What else the models show to differ from the documents, without a run of its own; each is
noted at its hazard:

* After a restart only the default workspace is hydrated (`main.go:728`).
* The previous version that `ActivatePolicy` and `RollbackPolicy` return was read before the
  row was locked and may not be the one that was replaced (`policystore/postgres.go:211`,
  `:252`). Two events may then name the same predecessor; `TrailAccountsForActive` says what
  holds of the trail even so.
* The reply to an activation is a read of its own and may name the version of another call
  that activated in between.
* A policy change whose append fails has no audit row (`audit/service.go:260`).
* A DENY may be told without a row (`audit/service.go:222`), and a check that ran out of time
  is told DENY while its row may say ALLOW.
* A transaction the audit service gave up on may commit between the next read and the next
  insert, and two rows then link to the same one (`ad_healthy` leaves such transactions out).
* A catalog change whose client disconnects is live without an audit row; it is counted.
  A catalog whose tools were all deleted is seeded again by the next start, and a partial
  seed is taken for complete. Once a definition with a blank argument name is in the table
  without the admin knowing, no start succeeds.
* Rows lost at the end of the audit table go unnoticed by `verify-audit`. A row appended
  after a failed read links to genesis, and damage that moves it to the front is accepted;
  so may be, after three damages, a row appended between them: hence the precondition of
  `VerdictIsExact`.
* The row of a malformed request names neither its caller nor its workspace, and ignores
  `x-request-id`, which the row of an adapted one uses.
* `AGENTGATE_SHUTDOWN_TIMEOUT` bounds the HTTP shutdown, not gRPC's `GracefulStop` and not
  the Close of the stores behind it.
* While one request fetches keys, another with a key just published is told that its token
  is invalid (`oidcverify/jwks.go:68`).
* A burst that takes longer than the idle timeout to refill is handed out faster than the
  rate; `Validate` allows it, the defaults do not have it. `RateIsBounded` names the rate
  that holds then (`Fastest`). It bounds a bucket and not a person: an address comes from
  X-Forwarded-For, and one client may choose many.

### Bounds and why they are enough

* *Two admins, two checks, one activation*: a race here is between two callers, or a
  caller and an activation; each pair of steps meets in each order. `tx_activate` has
  three transactions because a cycle of waits with a bystander needs three.
* *Three versions in `pm_concurrent`*: one active, one to replace it, one that does not
  parse. *Two versions in `AuditedDecision`*: one evaluated and one activated meanwhile.
* *`MaxCalls`*: four calls are create, activate, activate another, roll back.
* *`MaxCrashes`, `MaxStarts`*: a second crash starts from a state the first one can already
  leave; the start after it is checked from every such state.
* *`lifecycle`*: the two requests are for one tool, because the handlers share nothing but
  the mutex and the reload; the second tool is there for partial seeds. The environments are
  a production and a development one, and each of them with one setting changed.
* *`gate`*: three requests are one that fetches, one that meets the fetch, one after it;
  `MaxTime` 6, counted from the end of start-up's fetch, is beyond the longest grace of a key
  that was withdrawn during it, and is two refills of the burst and three idle timeouts. The
  burst of one takes longer to refill than the idle timeout. `RefreshMin` is one tick more than a fetch may take, as 30 s is more than the
  5 s of `httpTimeout`.
* *`pipeline`*: a request is a good one with one thing changed, or with arguments of every
  kind; checks share no state but the snapshot and the engines, so one is enough, and two
  changes may fall before, between or after its two reads of them. It starts from any of four
  engine assignments and four catalogs: without an engine, with one that permits, with one
  that forbids on an argument, and with one in another workspace only. Two backends and two
  tool names make two pairs that share the registry's key. A dry run of each risk has a
  policy that some check runs on. The append that commits after its client gave up is
  collapsed into the failing instant; `AuditedDecision` has it.
* *`trail`*: three rows are a first, a last and one in between; two damages may cover up
  each other. Pages of one row and of two end inside and at the end of the trail.
* `orphan` holds one row because the advisory lock lets one transaction in.
* The cfg files' first lines say what each instance is for. Admin threads are
  interchangeable, and symmetry is used for safety only.

`CHECK_DEADLOCK` is on for the Manager, the decision path and the transactions: a state in
which the bounds are used up and all calls have been answered has a `Finished` step; any
other state without a step is an error. In `lifecycle`, `gate`, `pipeline` and `trail`
behaviours end where a bound is used up (no start, tick, request or row left), and the check
is off; that a process or a check does not get stuck is what `SignalStops` and
`ChecksAreAnswered` say.

### Fairness

* `PolicyManager!FairSpec`: weak fairness of every thread's next step and of start-up:
  goroutines are scheduled and store calls return; the supervisor of the deployment
  restarts a stopped process. No request, no crash and no failed write has to happen. With
  start-up's writes rejected for ever it rightly aborts for ever, so `BootOutcomes` has no
  "rejected" in `pm_serial`.
* `AuditedDecision!FairSpec`: weak fairness of a goroutine's steps and of the server that
  finishes an abandoned transaction; strong fairness of the two acquisitions of the mutex
  (for the issuer and for the append), because `sync.Mutex` hands itself to a waiter that
  has starved for a millisecond. The deadline is not assumed to fire: `ChecksAreAnswered`
  holds without it, which matters for a check that could not be adapted, since it runs
  outside the deadline's `select`.
* `PolicyStoreTx!FairSpec`: weak fairness of a transaction's next statement or of the
  server's abort of it.
* `Lifecycle!Fairness`: weak fairness of `runServe`'s next step, of answering or timing
  out each open check, of the end of a late evaluation and of an admin request's next
  step. It rests on one assumption, that a statement which reached the database returns,
  with a result or an error. Nothing in the code bounds `GracefulStop` or the Close of the
  stores, so `SignalStops` does not hold without it: a statement that never returns keeps
  a process alive. That goes for a check that was refused as well, since it records its
  refusal outside the deadline's `select` and behind the audit mutex, which looks at no
  context.

## 4. The proofs

`tlapm` on each `…Proofs` module checks these theorems with no bound on any constant.
Every safety invariant, every action property and both refinements that the passing runs
check have a theorem; what is left to TLC is liveness.

Each row names the inductive invariant the theorem rests on, where the property is not
inductive itself. TLC checked those invariants on small instances before they were proved.

**PolicyManagerProofs**

| theorem | property | argument |
|---|---|---|
| `TypeCorrect` | `TypeOK` | inductive as it stands; `CreateType` and `ReplaceType` are what the store's operators preserve |
| `CacheCommitted` | `CacheIsCommitted` | `CacheInv` adds what a call knows when it is about to write (the target parses) and to swap (it was committed as active); `StepKeepsRows`: no write takes a version back to candidate |
| `ServingImpliesDefault` | `ServingEnforcesDefault` | `BootInv` follows the start-up thread; it uses `CacheInv`, since what is swapped parses and so is a version |
| `TrailAccounts` | `TrailAccountsForActive` | `TrailInv`: for each version, what has come into it and what has gone out of it, told or on its way, differ by whether it is active, as long as no transaction has misread; that what was told was made active needs no such condition. `BalanceCommit` and `BalanceEmit` say how a step moves those counts. For any number of admins and for writes that end as they say: "unknown" is in no set of outcomes |
| `EnforcesTheActive` | `EnforcedIsActive` | `EnforcedInv`: start-up enforces nothing before its swap, and a call between write and swap holds the active version. For one admin, whose own writes end as they say |
| `RepliesDescribe` | `RepliesDescribeTheCall` | `ReplyInv`: what a call remembers for its reply, at each of its steps, and that it was overtaken if that no longer is the active version. For any number of admins and whatever the outcomes |

**PolicyStoreTxProofs**

| theorem | property | argument |
|---|---|---|
| `TypeCorrect` | `TypeOK` | inductive as it stands |
| `OneActiveRow` | at most one active row | part of `TxInv`, which says what a transaction holds at each of its statements: its target's lock, and, from the index's entry on, the only claim on the active place |
| `TransactionsAreAtomic` | `ImplementsStore` | a step simulation under `TxInv`: the commit is the store's step, everything else stutters |

**AuditedDecisionProofs**

| theorem | property | argument |
|---|---|---|
| `TypeCorrect` | `TypeOK` | inductive as it stands |
| `AllowsAreDurable` | `AllowIsDurable` | `AllowInv`: no ALLOW reaches the append without a credential, and one that a goroutine has returned is in the chain; `RowsStayStep`: no step changes a committed row |
| `RowsAreApart` | `OneRowEach` | `RowInv`: a job that has left a row, committed or on its way, is done with |
| `AnswersAgree` | `AnsweredAsRecorded` | `RecordedInv`: row and answer say what the job returned. For no abandoned transactions |
| `ChainStaysIntact` | `ChainIntact` | `ChainInv`: whoever is between read and insert holds the mutex, and what it read is still the newest row. For no abandoned transactions and no failed reads |
| `DecisionsImplementLedger` | `ImplementsLedger` | a step simulation under `RowInv`, `AllowInv` and `NotYetTold`, whatever fails |

**LifecycleProofs** (over `ToolCatalogProofs`, lemmas on what each step of a catalog
request keeps)

| theorem | property | argument |
|---|---|---|
| `TypeCorrect`, `AcceptsOnlyWhole`, `ProductionHolds`, `NoSilentDivergence`, `CounterMissesNone` | `LifecycleTypeOK`, `ServesOnlyWhole`, `ProductionIsHardened`, `DivergenceIsReported`, `UnrecordedIsCounted` | `LifeInv` is `CatalogInv` (who holds `catalogMu`, what table and snapshot are at each step of a request, and how many failed appends were counted) with `ProcessInv` (which migrations, policy and snapshot a start has by how far it got, and that no request is under way before it serves) |
| `StartIsHarmless`, `CleanMeansClean`, `RepliesTellTheTruth` | `StartKeepsCatalog`, `CleanExitAnswers`, `RepliesAreTrue` | action properties, step by step from `LifeInv` |

**AdminGateProofs**

| theorem | property | argument |
|---|---|---|
| `TypeCorrect` | `TypeOK` | with `LimiterInv`: a bucket's last update is past |
| `ServedHaveEarned` | `ServedIsEarned` | `PlaceInv`: what a request has shown and paid at each step |
| `OneFetch` | `OneFetchAtATime` | `FetchInv`: a fetch is the last attempt and younger than `RefreshMin`, so nobody else may claim the slot |
| `RetiredKeys`, `RotationPickedUp` | `RetiredKeysExpire`, `RotationIsPickedUp` | `KeysInv`: cached and published keys differ only in what changed since the last fetch that succeeded, or, for the fetch at start-up, up to `FetchTimeout` before its stamp |
| `RateBounded` | `RateIsBounded` | `RateInv`: what a bucket holds and what it gave out since any time is at most a full bucket and what was refilled since, at the rate `Fastest`, which an idle reset does not exceed. Whatever the rate, the burst, the idle timeout and the keys |

**CheckPipelineProofs**

| theorem | property | argument |
|---|---|---|
| `TypeCorrect`, `AllowsAreEarned`, `ReasonsHold`, `UndeclaredIsIgnored`, `AnswersRecorded`, `DryRunsForetell` | `TypeOK`, `AllowIsEarned`, `ReasonsAreTrue`, `UndeclaredHasNoSay`, `AnswersAreOnRecord`, `DryRunForetells` | `PipelineInv`: what a check holds at each stage is the adapter's and the engine's operators applied to its input, its one snapshot and its one policy, and what it is told is that or tells of a fault it met. `DryRunsForetell` compares two ways to a request, `Converted` from a sample and `Adapt` from the gateway's data, which agree on what the engine looks at. The rest are lemmas about those operators, among them that Evaluate and Adapt see declared arguments only |

**AuditTrailProofs**

| theorem | property | argument |
|---|---|---|
| `TrailInvariant`, `VerdictsAreExact` | `VerdictIsExact` | see below |
| `PagesAreComplete` | `PagesAreWhole` | `ReaderInv`: the cursor is the last row seen. `PageHolds`: a page is the newest rows of its set in order and has no gap; `PagesJoin`: neither have two that meet at the cursor |

The verifier trusts no stored item, only that a hash is made from everything before it, so
its verdict comes down to which hash begins with which part of the chain. `TrailInv` says:
undamaged, there is one chain (`ChainInv`); while nothing was appended to a damaged table,
whatever hash goes on from the chain is the chain's own, wherever damage has put it
(`UngrownInv`); after one damage and any appends, a hash that leaves the chain belongs to a
later row than it fits (`OnceDamagedInv`); and hence, in the states `VerdictIsExact` speaks
of, a row that fits behind genuine ones is genuine (`FaithfulInv`). The precondition is
needed: a row appended to a damaged table takes its prev_hash from there, and two more
damages may put it where it fits. Rows 1 and 2 are exchanged, row 3 is appended behind the
row that is now second, rows 1 and 2 are exchanged back, and row 3 is exchanged with row 2:
three damages, after which row 3 fits in the second place, and the verifier names the third.
`grown` remembers the damages there had been at the first such append. The instance
of `trail` has two damages; with three, `TrailInv` was checked by TLC before it was proved.

The proofs rest on the named assumptions on the constants (`ManagerAssumption`,
`AuditAssumption` and so on), which TLC evaluates in every run. Most say that a constant has
its type or that a bound is a number. Those that are more:

* `Admins`, `Calls` and `Requests` are finite: counts of them have to be numbers.
* A fetch ends before the refresh slot is free again and `RefreshMin` is at most `MaxAge`
  (`KeySet`): they are 5 s, 30 s and 1 h, and nothing configures them.
* No backend and no tool name is empty (`Adaptation`): the adapter refuses an empty name and
  replaces an empty backend by the default one.
* `MaxLimit` and `DefaultLimit` of the audit pages are positive.

Four theorems have a hypothesis on what may fail or who calls, and each is needed:
`pm_race` shows two admins break `EnforcedIsActive`, and a commit that is reported as an
error breaks it (`EnforcesTheActive`); such a commit leaves a version active that no event
tells of (`TrailAccounts`); an abandoned transaction that commits late breaks
`AnsweredAsRecorded` (`AnswersAgree`), and that or a failed read, which `ad_read_fault`
shows, breaks `ChainIntact` (`ChainStaysIntact`).

Beyond their runs, the theorems cover writes that commit and are reported as errors
(`CacheCommitted`, `ServingImpliesDefault`, `RepliesDescribe`; the runs leave that outcome to
start-up, so for an admin's writes it rests on the proofs alone), every combination of
faults, any number of admins, checks, transactions, requests, keys and restarts, any settings
and any set of requests, catalogs and policies.

What the properties leave out on purpose: `DivergenceIsReported` does not speak of a
process whose live catalog is empty, and a report, once made, excuses a tool's divergence
for ever; `RepliesAreTrue` and `ProductionIsHardened` are close to the handlers' and
`Validate`'s own conditions; `AllowIsEarned` looks a tool up by the code's own key, so two
pairs that share a key are one tool to it; `ChainIntact` and `AnsweredAsRecorded` say
nothing where reads fail or abandoned transactions commit, and `VerdictIsExact` takes a
trail that lost its last rows for genuine.

Only model-checked: `EventuallyServes`, `ChecksAreAnswered`, `ActivationsEnd` and
`SignalStops`, liveness under fairness, which the prover's temporal backend does not reach;
that the three violated properties are violated; and whatever depends on sorting, which the
proofs take as a function they know nothing of: `VerdictIsExact` does not need more.

## 5. What is not modelled

* Contents: texts of policies and messages, the bytes of arguments and their redaction,
  schemas (a fingerprint is a value), signatures, metrics, logging and layout.
* Read-only views: `Validate`, `Preview`, lists of policies and tools.
* The configuration without an issuer, where an ALLOW may carry no credential. The branch of
  `Check` for an error of the audited service (`authz/server.go:200`), which returns none:
  it makes an evaluator's error a DENY (`EvaluateFails`).
* A commit of a policy transaction, or of a catalog statement of a live process, that takes
  effect after its caller was told of an error or has died, other than at that instant.
  `PolicyStoreTx` and `InFlight` have the parts of it that they need.
* The counter of failed appends as far as policy changes go; that of catalog changes is
  (`UnrecordedIsCounted`).
* Several processes on one database: the deployment runs one, and the audit chain's
  serialisation relies on it.
* Liveness of the admin middlewares: a request ends when its fetch does, and the HTTP
  client bounds that.
* TLS handshakes and the reloading of certificates, which the standard library does.
* The metrics registry: counters behind a mutex. The mock authorization service, the
  demonstration servers and the scripted agent around AgentGate, the gateway, the console
  and the web sites are not part of the service.

## 6. Plan

1. The composition of the Manager with the decision path over one cache and one chain,
   with the workspaces' chains side by side.
2. More theorems: what of `AnsweredAsRecorded` and of the chain still holds when an
   abandoned transaction commits late; what of `TrailAccountsForActive` holds after a crash.
3. The metrics registry's concurrent snapshot, if a property of it is found that matters.

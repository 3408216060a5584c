-------------------------- MODULE AuditedDecision --------------------------
(***************************************************************************)
(* The decision path of one workspace: authz.Server.Check, the goroutine   *)
(* in which it runs AuditedDecisionService.EvaluateWithCredential, policy  *)
(* activations that swap the engine and report themselves through          *)
(* OnMutation, and the audit chain both of them append to.                 *)
(*                                                                         *)
(* The service's mutex is held from GetLatestRecord to the end of          *)
(* AppendDecision, and briefly for the read of the issuer (one is          *)
(* configured).  The latest row is read outside the transaction that       *)
(* inserts the next one; the insert takes a per-workspace advisory lock in *)
(* the database, which an abandoned transaction keeps until the server has *)
(* finished it.                                                            *)
(*                                                                         *)
(* A row's hash covers its predecessor's hash and its own unique execution *)
(* id, so it is represented by the row's position in the chain; 0 is       *)
(* GenesisHash.                                                            *)
(***************************************************************************)
EXTENDS Integers, Sequences, FiniteSets

CONSTANTS
    Checks,       \* ext_authz checks
    Unadaptable,  \* those that Adapter.Adapt refuses
    Mutations,    \* policy activations
    Versions,     \* policy versions
    NoVersion,    \* no policy: Cedar was not reached
    Permits,      \* pairs <<v, c>>: version v permits check c
    NoOne,        \* nobody holds the mutex
    Faults,       \* what may go wrong: see FaultKinds
    MaxCrashes    \* bound: crashes over a behaviour

(***************************************************************************)
(* "issue": the credential issuer fails; "read": GetLatestRecord fails;    *)
(* "reject": AppendDecision fails without a trace; "orphan": it fails but  *)
(* its COMMIT has reached the server, which finishes the transaction later.*)
(***************************************************************************)
FaultKinds == {"issue", "read", "reject", "orphan"}

Jobs == Checks \cup Mutations

ASSUME AuditAssumption ==
    /\ Unadaptable \subseteq Checks
    /\ Checks \cap Mutations = {}
    /\ NoVersion \notin Versions
    /\ NoOne \notin Jobs
    /\ Permits \subseteq Versions \X Checks
    /\ Faults \subseteq FaultKinds
    /\ MaxCrashes \in Nat

VARIABLES
    engine,       \* the engine in the Manager's cache, by version
    mutex,        \* AuditedDecisionService.mu: its holder during an append
    job,          \* job[j]: the local state of a check's goroutine or of an OnMutation call
    answer,       \* answer[c]: what Check returned to the gateway
    chain,        \* committed rows of audit_events, in sequence_number order
    orphan,       \* the abandoned transaction that holds the advisory lock, at most one row
    crashes       \* crashes so far

vars == <<engine, mutex, job, answer, chain, orphan, crashes>>

Steps == {"new", "evaluate", "provenance", "issue", "lock", "latest", "append", "returned", "dead"}
Decisions == {"none", "allow", "deny", "mutation"}

\* evaluated is what Cedar ran on, version what the decision is attributed to.
Job == [step: Steps, decision: Decisions,
        evaluated: Versions \cup {NoVersion}, version: Versions \cup {NoVersion},
        credential: BOOLEAN, prev: Nat]

Row == [who: Jobs, decision: Decisions, version: Versions \cup {NoVersion},
        credential: BOOLEAN, prev: Nat]

\* "lost": the process died before it answered, and the gateway refuses the request.
Answer == [told: {"none", "waiting", "allow", "deny", "timeout", "lost"},
           version: Versions \cup {NoVersion}, credential: BOOLEAN]

TypeOK ==
    /\ engine \in Versions \cup {NoVersion}
    /\ mutex \in Jobs \cup {NoOne}
    /\ job \in [Jobs -> Job]
    /\ answer \in [Checks -> Answer]
    /\ chain \in Seq(Row)
    /\ orphan \in Seq(Row)
    /\ crashes \in 0..MaxCrashes

Fresh == [step |-> "new", decision |-> "none", evaluated |-> NoVersion,
          version |-> NoVersion, credential |-> FALSE, prev |-> 0]

Told(what) == [told |-> what, version |-> NoVersion, credential |-> FALSE]

Init ==
    /\ engine \in Versions \cup {NoVersion}
    /\ mutex = NoOne
    /\ job = [j \in Jobs |-> Fresh]
    /\ answer = [c \in Checks |-> Told("none")]
    /\ chain = <<>>
    /\ orphan = <<>>
    /\ crashes = 0

-----------------------------------------------------------------------------
(* Check, up to the mutex.                                                 *)

\* Adapt succeeds and the evaluation goroutine starts; or it fails and Check itself
\* evaluates a stand-in request with Known = false, which never reaches Cedar.
Arrive(c) ==
    /\ job[c].step = "new"
    /\ answer' = [answer EXCEPT ![c] = Told("waiting")]
    /\ job' = [job EXCEPT ![c] =
                 IF c \in Unadaptable
                 THEN [@ EXCEPT !.step = "issue", !.decision = "deny"]
                 ELSE [@ EXCEPT !.step = "evaluate"]]
    /\ UNCHANGED <<engine, mutex, chain, orphan, crashes>>

\* EvaluateWithActivePolicy: GetActiveEngine, then a pure evaluation on that engine.
Evaluate(c) ==
    /\ job[c].step = "evaluate"
    /\ job' = [job EXCEPT ![c] =
                 IF engine = NoVersion
                 THEN [@ EXCEPT !.step = "issue", !.decision = "deny"]
                 ELSE [@ EXCEPT !.step = "provenance",
                                !.decision = IF <<engine, c>> \in Permits THEN "allow" ELSE "deny",
                                !.evaluated = engine,
                                !.version = engine]]
    /\ UNCHANGED <<engine, mutex, answer, chain, orphan, crashes>>

\* GetActiveProvenance: a second look at the Manager's cache.
Provenance(c) ==
    /\ job[c].step = "provenance"
    /\ job' = [job EXCEPT ![c] =
                 [@ EXCEPT !.version = IF engine # NoVersion THEN engine ELSE job[c].version,
                           !.step = "issue"]]
    /\ UNCHANGED <<engine, mutex, answer, chain, orphan, crashes>>

\* The issuer is read under the mutex, and asked outside it for an ALLOW; its failure turns
\* the ALLOW into a DENY.
Issue(c) ==
    /\ job[c].step = "issue"
    /\ mutex = NoOne
    /\ \/ job' = [job EXCEPT ![c] =
                    [@ EXCEPT !.step = "lock", !.credential = job[c].decision = "allow"]]
       \/ /\ "issue" \in Faults /\ job[c].decision = "allow"
          /\ job' = [job EXCEPT ![c] = [@ EXCEPT !.step = "lock", !.decision = "deny"]]
    /\ UNCHANGED <<engine, mutex, answer, chain, orphan, crashes>>

-----------------------------------------------------------------------------
(* Policy activation, as this path sees it.                                *)

\* The Manager swaps its engine and calls OnMutation.
SwapEngine(m) ==
    /\ job[m].step = "new"
    /\ \E v \in Versions :
         /\ engine' = v
         /\ job' = [job EXCEPT ![m] =
                      [@ EXCEPT !.step = "lock", !.decision = "mutation", !.version = v]]
    /\ UNCHANGED <<mutex, answer, chain, orphan, crashes>>

-----------------------------------------------------------------------------
(* The append, the same for EvaluateWithCredential and OnMutation.         *)

\* Mutant of Lock: the read of the latest row is not under the mutex.
LockNothing(j) ==
    /\ job[j].step = "lock"
    /\ job' = [job EXCEPT ![j].step = "latest"]
    /\ UNCHANGED <<engine, mutex, answer, chain, orphan, crashes>>

Lock(j) ==
    /\ job[j].step = "lock"
    /\ mutex = NoOne
    /\ mutex' = j
    /\ job' = [job EXCEPT ![j].step = "latest"]
    /\ UNCHANGED <<engine, answer, chain, orphan, crashes>>

\* Mutant of GetLatest: off by one on the latest row.
GetLatestOffByOne(j) ==
    /\ job[j].step = "latest"
    /\ job' = [job EXCEPT ![j].step = "append", ![j].prev = Len(chain) - 1]
    /\ UNCHANGED <<engine, mutex, answer, chain, orphan, crashes>>

\* GetLatestRecord.  Any error is taken for "no record yet".
GetLatest(j) ==
    /\ job[j].step = "latest"
    /\ \/ job' = [job EXCEPT ![j] = [@ EXCEPT !.step = "append", !.prev = Len(chain)]]
       \/ /\ "read" \in Faults
          /\ job' = [job EXCEPT ![j] = [@ EXCEPT !.step = "append", !.prev = 0]]
    /\ UNCHANGED <<engine, mutex, answer, chain, orphan, crashes>>

RowOf(j) ==
    [who |-> j, decision |-> job[j].decision, version |-> job[j].version,
     credential |-> job[j].credential, prev |-> job[j].prev]

\* Mutant of Return: the mutex is not released.
ReturnLocked(j, decision, credential) ==
    /\ job' = [job EXCEPT ![j].step = "returned",
                          ![j].decision = decision, ![j].credential = credential]
    /\ UNCHANGED mutex

Return(j, decision, credential) ==
    /\ job' = [job EXCEPT ![j] = [@ EXCEPT !.step = "returned", !.decision = decision,
                                           !.credential = credential]]
    /\ mutex' = NoOne

\* Mutant of FailClosed: the decision stands although its append failed.
FailOpen(j) == Return(j, job[j].decision, job[j].credential)

\* An append that failed turns an ALLOW into a DENY and drops its credential; a DENY
\* stays what it was, and a mutation is only counted as a failure.
FailClosed(j) == Return(j, IF job[j].decision = "allow" THEN "deny" ELSE job[j].decision, FALSE)

\* Mutant of AppendDecision: an append that failed is tried again.
AppendWithRetry(j) ==
    /\ job[j].step = "append"
    /\ orphan = <<>>
    /\ \/ /\ chain' = Append(chain, RowOf(j))
          /\ Return(j, job[j].decision, job[j].credential)
          /\ UNCHANGED orphan
       \/ /\ "orphan" \in Faults
          /\ orphan' = <<RowOf(j)>>
          /\ UNCHANGED <<mutex, job, chain>>
    /\ UNCHANGED <<engine, answer, crashes>>

\* AppendDecision: the insert waits for the advisory lock.
AppendDecision(j) ==
    /\ job[j].step = "append"
    /\ \/ /\ orphan = <<>>
          /\ chain' = Append(chain, RowOf(j))
          /\ Return(j, job[j].decision, job[j].credential)
          /\ UNCHANGED orphan
       \/ /\ "reject" \in Faults
          /\ FailClosed(j)
          /\ UNCHANGED <<chain, orphan>>
       \/ /\ "orphan" \in Faults
          /\ orphan = <<>>
          /\ orphan' = <<RowOf(j)>>
          /\ FailClosed(j)
          /\ UNCHANGED chain
    /\ UNCHANGED <<engine, answer, crashes>>

\* The server commits or rolls back the transaction it was left with.
FinishOrphan ==
    /\ orphan # <<>>
    /\ chain' \in {chain, chain \o orphan}
    /\ orphan' = <<>>
    /\ UNCHANGED <<engine, mutex, job, answer, crashes>>

-----------------------------------------------------------------------------
(* The answer.                                                             *)

\* Mutant of Respond: the answer names the policy in force when it is sent.
RespondWithCurrentVersion(c) ==
    /\ answer[c].told = "waiting"
    /\ job[c].step = "returned"
    /\ answer' = [answer EXCEPT ![c] =
                    [told |-> IF job[c].decision = "allow" THEN "allow" ELSE "deny",
                     version |-> engine, credential |-> job[c].credential]]
    /\ UNCHANGED <<engine, mutex, job, chain, orphan, crashes>>

\* Check receives the goroutine's result (or its own, after a failed Adapt).  Only an ALLOW
\* names the policy version.
Respond(c) ==
    /\ answer[c].told = "waiting"
    /\ job[c].step = "returned"
    /\ answer' = [answer EXCEPT ![c] =
                    IF job[c].decision = "allow"
                    THEN [told |-> "allow", version |-> job[c].version,
                          credential |-> job[c].credential]
                    ELSE Told("deny")]
    /\ UNCHANGED <<engine, mutex, job, chain, orphan, crashes>>

\* Mutant of Timeout: a check that Cedar allowed is let through when the audit is slow.
TimeoutLetsThrough(c) ==
    /\ c \notin Unadaptable
    /\ answer[c].told = "waiting"
    /\ answer' = [answer EXCEPT ![c] = Told(IF job[c].decision = "allow" THEN "allow" ELSE "timeout")]
    /\ UNCHANGED <<engine, mutex, job, chain, orphan, crashes>>

\* ctx.Done() first: Check denies and leaves the goroutine to finish on its own.
Timeout(c) ==
    /\ c \notin Unadaptable
    /\ answer[c].told = "waiting"
    /\ answer' = [answer EXCEPT ![c] = Told("timeout")]
    /\ UNCHANGED <<engine, mutex, job, chain, orphan, crashes>>

\* The process dies and comes back with whatever engine it hydrates.  The database and
\* a transaction left in it survive.
Crash ==
    /\ crashes < MaxCrashes
    /\ crashes' = crashes + 1
    /\ engine' \in Versions \cup {NoVersion}
    /\ mutex' = NoOne
    /\ job' = [j \in Jobs |->
                 IF job[j].step = "new" THEN job[j] ELSE [job[j] EXCEPT !.step = "dead"]]
    /\ answer' = [c \in Checks |->
                    IF answer[c].told = "waiting" THEN Told("lost") ELSE answer[c]]
    /\ UNCHANGED <<chain, orphan>>

-----------------------------------------------------------------------------

Append1(j) == Lock(j) \/ GetLatest(j) \/ AppendDecision(j)

CheckStep(c) == Evaluate(c) \/ Provenance(c) \/ Issue(c) \/ Respond(c)

\* Everything was started and has come to rest.
Finished ==
    /\ \A j \in Jobs : job[j].step \in {"returned", "dead"}
    /\ \A c \in Checks : answer[c].told # "waiting"
    /\ orphan = <<>>
    /\ UNCHANGED vars

Next ==
    \/ \E c \in Checks : Arrive(c) \/ CheckStep(c) \/ Timeout(c)
    \/ \E m \in Mutations : SwapEngine(m)
    \/ \E j \in Jobs : Append1(j)
    \/ FinishOrphan \/ Crash \/ Finished

Spec == Init /\ [][Next]_vars

\* Goroutines are scheduled, sync.Mutex hands itself to a waiter in the end (hence SF on
\* Issue and Lock), store calls return and the database server finishes what it was left with.
\* Nobody has to arrive, time out or crash.
FairSpec ==
    /\ Spec
    /\ \A c \in Checks : WF_vars(CheckStep(c)) /\ SF_vars(Issue(c))
    /\ \A j \in Jobs : SF_vars(Lock(j)) /\ WF_vars(GetLatest(j)) /\ WF_vars(AppendDecision(j))
    /\ WF_vars(FinishOrphan)

-----------------------------------------------------------------------------
(* Properties.                                                             *)

\* O-002: the gateway is told "allow", with its credential, only if a committed row says
\* so for that very check, under the same policy version and with the credential
\* (service.go:83-87, 206-226; server.go:194-212).
AllowIsDurable ==
    \A c \in Checks : answer[c].told = "allow" =>
        \E i \in DOMAIN chain :
            /\ chain[i].who = c
            /\ chain[i].decision = "allow"
            /\ chain[i].version = answer[c].version
            /\ chain[i].credential /\ answer[c].credential

\* A check or a mutation leaves at most one row, committed or on its way, whatever errors
\* its append returned: nothing is retried (service.go:205-226, 260-264).
OneRowEach ==
    \A i, k \in DOMAIN (chain \o orphan) :
        (chain \o orphan)[i].who = (chain \o orphan)[k].who => i = k

\* Every row hashes the row before it: VerifyWorkspace finds the chain valid
\* (verifier.go:25-123; "maintain sequential chain", service.go:155).
ChainIntact == \A i \in DOMAIN chain : chain[i].prev = i - 1

\* Where an answer (not a timeout) and a row exist for the same check they agree on the
\* decision and, for an ALLOW, on the policy version (service.go:125, 178; server.go:205-215).
AnsweredAsRecorded ==
    \A c \in Checks, i \in DOMAIN chain :
        (chain[i].who = c /\ answer[c].told \in {"allow", "deny"}) =>
            /\ chain[i].decision = answer[c].told
            /\ answer[c].told = "allow" => chain[i].version = answer[c].version

\* "Every decision carries the exact policy version/hash used for evaluation":
\* the version a row names is the one Cedar ran on (PRODUCTION-INVARIANTS.md:36-39).
ProvenanceIsExact ==
    \A c \in Checks, i \in DOMAIN chain :
        chain[i].who = c => chain[i].version = job[c].evaluated

\* Every check is answered, however many appends and abandoned transactions it has to
\* wait for; one that could not be adapted has no timeout to fall back on
\* (server.go:101-161).
ChecksAreAnswered == \A c \in Checks : answer[c].told = "waiting" ~> answer[c].told # "waiting"

-----------------------------------------------------------------------------
(* The ledger this implements.                                             *)

Ledger == INSTANCE DecisionLedger WITH
    ledger <- [i \in DOMAIN chain |-> [who |-> chain[i].who, decision |-> chain[i].decision]],
    told <- [c \in Checks |->
               CASE answer[c].told = "allow" -> "allow"
                 [] answer[c].told \in {"deny", "timeout"} -> "deny"
                 [] OTHER -> "none"]

\* The decision path implements DecisionLedger.
ImplementsLedger == Ledger!Spec

=============================================================================

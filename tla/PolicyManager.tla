--------------------------- MODULE PolicyManager ---------------------------
(***************************************************************************)
(* policymanager.Manager over a policystore.Store: the admin API's create, *)
(* activate and rollback calls, which run concurrently (one goroutine per  *)
(* HTTP request) and take several steps each, the in-memory engine cache   *)
(* they swap under the Manager's mutex, the mutation events they hand to   *)
(* the listener, and the process's life: a crash forgets the cache and the *)
(* calls in progress but not the store (Postgres), a start hydrates the    *)
(* default workspace or seeds its baseline policy before any request is    *)
(* served.                                                                 *)
(*                                                                         *)
(* The Manager holds its mutex for the swap alone.  Every store call is a  *)
(* step of its own, so between a call's steps any other call may move.     *)
(***************************************************************************)
EXTENDS PolicyStore, Integers, Sequences, FiniteSets

CONSTANTS
    Parses,       \* the versions whose content Cedar parses
    Default,      \* the workspace "default"
    Baseline,     \* the version "v1.0.0" that bootstrapDefaultPolicy seeds
    Admins,       \* threads that serve the admin API
    Boot,         \* the thread of runServe before it serves
    Outcomes,     \* how a store write of an admin call may end: see WriteOutcomes
    BootOutcomes, \* how a store write of the start-up sequence may end
    MaxCalls,     \* bound: admin calls over a behaviour
    MaxCrashes    \* bound: crashes over a behaviour

(***************************************************************************)
(* A write either commits and says so, is rejected, or commits while the   *)
(* caller gets an error (the connection is lost on COMMIT, or the request  *)
(* context ends while the statement runs).                                 *)
(***************************************************************************)
WriteOutcomes == {"committed", "rejected", "unknown"}

ASSUME ManagerAssumption ==
    /\ Default \in Workspaces
    /\ Baseline \in Parses
    /\ Parses \subseteq Versions
    /\ Boot \notin Admins /\ IsFiniteSet(Admins)
    /\ Outcomes \subseteq WriteOutcomes
    /\ BootOutcomes \subseteq WriteOutcomes
    /\ MaxCalls \in Nat
    /\ MaxCrashes \in Nat

VARIABLES
    cached,       \* cached[ws]: the version loaded in engines[ws] and named by activeVersions[ws]
    proc,         \* the process: "starting", "serving" or "down"
    call,         \* call[t]: the admin call (or start-up call) of thread t
    emitted,      \* the mutation events given to the listener, oldest first
    calls,        \* admin calls made
    crashes,      \* crashes so far
    overtaken,    \* history: the calls during which another one activated in their workspace
    misread       \* history: an activation replaced another version than the one it had read

vars == <<policies, cached, proc, call, emitted, calls, crashes, overtaken, misread>>
history == <<overtaken, misread>>

Threads == Admins \cup {Boot}
\* The store may be up or down at start-up and while the process serves.
OutcomesOf(t) == IF t = Boot THEN BootOutcomes ELSE Outcomes

Kinds == {"create", "activate", "rollback"}

\* "peek": handleRollback reads the active version; "read": GetPolicy and parse; "write": the store's write; "swap": the cache;
\* "emit": the listener; "reread": the GetActivePolicy that makes the reply.
Steps == {"idle", "peek", "read", "write", "swap", "emit", "reread", "ok", "failed"}

\* prev is what the store read as active before it wrote, from what handleRollback peeked, and
\* reply what the last GetActivePolicy returned.
Call(step, kind, ws, v) ==
    [step |-> step, kind |-> kind, ws |-> ws, version |-> v,
     prev |-> NoVersion, from |-> NoVersion, reply |-> NoVersion]

Idle == Call("idle", "create", Default, NoVersion)

Resting == {"idle", "ok", "failed"}

Event(c) == [action |-> c.kind, ws |-> c.ws, prev |-> c.prev, new |-> c.version]

TypeOK ==
    /\ StoreTypeOK
    /\ cached \in [Workspaces -> Versions \cup {NoVersion}]
    /\ proc \in {"starting", "serving", "down"}
    /\ call \in [Threads -> [step: Steps, kind: Kinds, ws: Workspaces,
                             version: Versions \cup {NoVersion},
                             prev: Versions \cup {NoVersion},
                             from: Versions \cup {NoVersion},
                             reply: Versions \cup {NoVersion}]]
    /\ emitted \in Seq([action: Kinds, ws: Workspaces,
                        prev: Versions \cup {NoVersion}, new: Versions \cup {NoVersion}])
    /\ calls \in 0..MaxCalls
    /\ crashes \in 0..MaxCrashes
    /\ overtaken \subseteq Threads
    /\ misread \in BOOLEAN

Init ==
    /\ StoreInit
    /\ cached = [ws \in Workspaces |-> NoVersion]
    /\ proc = "starting"
    /\ call = [t \in Threads |-> Idle]
    /\ emitted = <<>>
    /\ calls = 0
    /\ crashes = 0
    /\ overtaken = {}
    /\ misread = FALSE

Goto(t, step) == call' = [call EXCEPT ![t] = [@ EXCEPT !.step = step]]

-----------------------------------------------------------------------------
(* The admin API.                                                          *)

\* A request arrives.  CreateCandidate validates the content before it touches the
\* store, and names it by its hash, never by the baseline's name.  Activate and Rollback
\* start by reading the version from the store.
Receive(t) ==
    /\ proc = "serving"
    /\ t \in Admins
    /\ call[t].step \in Resting
    /\ calls < MaxCalls
    /\ calls' = calls + 1
    /\ \E kind \in Kinds, ws \in Workspaces, v \in Versions :
         /\ kind = "create" => v # Baseline
         /\ call' = [call EXCEPT ![t] =
                       Call(CASE kind = "activate" -> "read"
                              [] kind = "rollback" -> "peek"
                              [] kind = "create" -> IF v \in Parses THEN "write" ELSE "failed",
                            kind, ws, v)]
    /\ overtaken' = overtaken \ {t}
    /\ UNCHANGED <<policies, cached, proc, emitted, crashes, misread>>

\* Mutant of Peek: what was active is asked of the Manager and not of the store.
PeekCached(t) ==
    /\ call[t].step = "peek"
    /\ call' = [call EXCEPT ![t] = [@ EXCEPT !.step = "read", !.from = cached[call[t].ws]]]
    /\ UNCHANGED <<policies, cached, proc, emitted, calls, crashes, history>>

\* handleRollback reads what it will report as rolled back from, ignoring an error.
Peek(t) ==
    LET c == call[t]
    IN  /\ c.step = "peek"
        /\ \E from \in {GetActivePolicy(c.ws)} \cup (IF "rejected" \in OutcomesOf(t) THEN {NoVersion} ELSE {}) :
             call' = [call EXCEPT ![t] = [c EXCEPT !.step = "read", !.from = from]]
        /\ UNCHANGED <<policies, cached, proc, emitted, calls, crashes, history>>

\* GetPolicy, then LoadFromBytes on what it returned; and then the store's transaction reads
\* what is active, without a lock.  A version that is stored stays so, so that the two reads
\* are one step, at the time of the second.
ReadTarget(t) ==
    LET c == call[t]
    IN  /\ c.step = "read"
        /\ \/ /\ Stored(c.ws, c.version)
              /\ c.version \in Parses
              /\ call' = [call EXCEPT ![t] = [c EXCEPT !.step = "write",
                                                     !.prev = GetActivePolicy(c.ws)]]
           \/ /\ \/ ~Stored(c.ws, c.version)
                 \/ c.version \notin Parses
                 \/ "rejected" \in OutcomesOf(t)
              /\ Goto(t, "failed")
        /\ UNCHANGED <<policies, cached, proc, emitted, calls, crashes, history>>

\* Mutant of WriteCandidate: at start-up an existing baseline is a failure.
WriteCandidateNotIdempotent(t) ==
    LET c == call[t]
    IN  /\ c.step = "write"
        /\ c.kind = "create"
        /\ \/ CreatePolicy(c.ws, c.version) /\ Goto(t, "emit")
           \/ Stored(c.ws, c.version) /\ Goto(t, "failed") /\ UNCHANGED policies
        /\ UNCHANGED <<cached, proc, emitted, calls, crashes, history>>

\* CreatePolicy.  A version that exists already is returned as it is, without an event.
\* At start-up a failure is only logged, and activation is tried all the same.
WriteCandidate(t) ==
    LET c == call[t]
        next(step) ==
            call' = [call EXCEPT ![t] =
                       IF t = Boot /\ step # "emit"
                       THEN Call("read", "activate", c.ws, c.version)
                       ELSE [c EXCEPT !.step = step]]
    IN  /\ c.step = "write"
        /\ c.kind = "create"
        /\ \/ /\ "committed" \in OutcomesOf(t)
              /\ CreatePolicy(c.ws, c.version)
              /\ next("emit")
           \/ /\ "unknown" \in OutcomesOf(t)
              /\ CreatePolicy(c.ws, c.version)
              /\ next("failed")
           \/ /\ Stored(c.ws, c.version)
              /\ next("ok")
              /\ UNCHANGED policies
           \/ /\ "rejected" \in OutcomesOf(t)
              /\ next("failed")
              /\ UNCHANGED policies
        /\ UNCHANGED <<cached, proc, emitted, calls, crashes, history>>

\* The commit of an activation, seen by the others.  With nothing to demote the transaction
\* only promotes its target, and the unique index admits no second active row; otherwise it
\* demotes what is active when it writes, which need not be what it read.
CommitActive(t) ==
    LET c == call[t]
        active == GetActivePolicy(c.ws)
    IN  /\ c.prev = NoVersion => active \in {NoVersion, c.version}
        /\ \/ c.kind = "activate" /\ ActivatePolicy(c.ws, c.version)
           \/ c.kind = "rollback" /\ RollbackPolicy(c.ws, c.version)
        /\ overtaken' = overtaken \cup {u \in Threads \ {t} : call[u].ws = c.ws}
        /\ misread' = (misread \/ c.prev # active)

\* Mutant of WriteActive: an error of the store is not looked at.
WriteActiveIgnoresError(t) ==
    /\ call[t].step = "write"
    /\ call[t].kind \in {"activate", "rollback"}
    /\ Goto(t, "swap")
    /\ \/ CommitActive(t)
       \/ "rejected" \in OutcomesOf(t) /\ UNCHANGED <<policies, history>>
    /\ UNCHANGED <<cached, proc, emitted, calls, crashes>>

\* Mutant of WriteActive: the previous version is taken from the cache.
WriteActivePrevFromCache(t) ==
    LET c == call[t]
    IN  /\ c.step = "write"
        /\ c.kind \in {"activate", "rollback"}
        /\ \/ /\ CommitActive(t)
              /\ call' = [call EXCEPT ![t] = [c EXCEPT !.step = "swap", !.prev = cached[c.ws]]]
           \/ "rejected" \in OutcomesOf(t) /\ Goto(t, "failed") /\ UNCHANGED <<policies, history>>
        /\ UNCHANGED <<cached, proc, emitted, calls, crashes>>

\* ActivatePolicy or RollbackPolicy; both return the version they read as active.  A transaction
\* that another one got ahead of may meet the unique index or be the victim of a deadlock.
WriteActive(t) ==
    LET c == call[t]
    IN  /\ c.step = "write"
        /\ c.kind \in {"activate", "rollback"}
        /\ \/ "committed" \in OutcomesOf(t) /\ CommitActive(t) /\ Goto(t, "swap")
           \/ "unknown" \in OutcomesOf(t) /\ CommitActive(t) /\ Goto(t, "failed")
           \/ /\ "rejected" \in OutcomesOf(t) \/ GetActivePolicy(c.ws) # c.prev
              /\ Goto(t, "failed")
              /\ UNCHANGED <<policies, history>>
        /\ UNCHANGED <<cached, proc, emitted, calls, crashes>>

\* engines[ws] and activeVersions[ws] change together under the Manager's mutex.
Swap(t) ==
    /\ call[t].step = "swap"
    /\ cached' = [cached EXCEPT ![call[t].ws] = call[t].version]
    /\ Goto(t, "emit")
    /\ UNCHANGED <<policies, proc, emitted, calls, crashes, history>>

\* listener.OnMutation.
Emit(t) ==
    LET c == call[t]
    IN  /\ c.step = "emit"
        /\ emitted' = Append(emitted, Event(c))
        /\ call' = [call EXCEPT ![t] =
                      IF c.kind # "create" THEN [c EXCEPT !.step = "reread"]
                      ELSE IF t = Boot THEN Call("read", "activate", c.ws, c.version)
                      ELSE [c EXCEPT !.step = "ok"]]
        /\ UNCHANGED <<policies, cached, proc, calls, crashes, history>>

\* The reply names whatever is active by now; an error here fails a call that was done.
Reread(t) ==
    LET c == call[t]
    IN  /\ c.step = "reread"
        /\ \/ call' = [call EXCEPT ![t] = [c EXCEPT !.step = "ok", !.reply = GetActivePolicy(c.ws)]]
           \/ "rejected" \in OutcomesOf(t) /\ Goto(t, "failed")
        /\ UNCHANGED <<policies, cached, proc, emitted, calls, crashes, history>>

-----------------------------------------------------------------------------
(* The process.                                                            *)

\* Mutant of Hydrate: the baseline is loaded whatever the store has active.
HydrateBaseline ==
    /\ proc = "starting"
    /\ call[Boot].step = "idle"
    /\ \/ /\ GetActivePolicy(Default) # NoVersion
          /\ cached' = [cached EXCEPT ![Default] = Baseline]
          /\ proc' = "serving"
          /\ UNCHANGED call
       \/ /\ GetActivePolicy(Default) = NoVersion
          /\ call' = [call EXCEPT ![Boot] = Call("write", "create", Default, Baseline)]
          /\ UNCHANGED <<cached, proc>>
    /\ UNCHANGED <<policies, emitted, calls, crashes, history>>

\* bootstrapDefaultPolicy: LoadActivePolicies(["default"]) first; if nothing is active
\* the baseline is created and activated.  Nothing else runs yet.  What is active was parsed
\* before it was activated, so loading it does not fail for its content.
Hydrate ==
    LET active == GetActivePolicy(Default)
    IN  /\ proc = "starting"
        /\ call[Boot].step = "idle"
        /\ \/ /\ active \in Parses
              /\ cached' = [cached EXCEPT ![Default] = active]
              /\ proc' = "serving"
              /\ UNCHANGED call
           \/ /\ active = NoVersion
              /\ call' = [call EXCEPT ![Boot] =
                            Call("write", "create", Default, Baseline)]
              /\ UNCHANGED <<cached, proc>>
        /\ UNCHANGED <<policies, emitted, calls, crashes, history>>

\* Mutant of Serve: the error of bootstrapDefaultPolicy is only logged.
ServeAnyway ==
    /\ proc = "starting"
    /\ call[Boot].step \in {"ok", "failed"}
    /\ proc' = "serving"
    /\ call' = [call EXCEPT ![Boot] = Idle]
    /\ UNCHANGED <<policies, cached, emitted, calls, crashes, history>>

\* bootstrapDefaultPolicy returned nil; runServe goes on to listen.
Serve ==
    /\ proc = "starting"
    /\ call[Boot].step = "ok"
    /\ proc' = "serving"
    /\ call' = [call EXCEPT ![Boot] = Idle]
    /\ UNCHANGED <<policies, cached, emitted, calls, crashes, history>>

\* The process ends: killed at any point, or by runServe's "return 1" when the store
\* fails during start-up.  The cache and the calls in progress are gone.
Stop ==
    /\ proc' = "down"
    /\ cached' = [ws \in Workspaces |-> NoVersion]
    /\ call' = [t \in Threads |-> Idle]
    /\ overtaken' = {}
    /\ UNCHANGED <<policies, emitted, calls, misread>>

Crash ==
    /\ proc # "down"
    /\ crashes < MaxCrashes
    /\ crashes' = crashes + 1
    /\ Stop

AbortStart ==
    /\ proc = "starting"
    /\ \/ call[Boot].step = "failed"
       \/ call[Boot].step = "idle" /\ "rejected" \in BootOutcomes
    /\ Stop
    /\ UNCHANGED crashes

Restart ==
    /\ proc = "down"
    /\ proc' = "starting"
    /\ UNCHANGED <<policies, cached, call, emitted, calls, crashes, history>>

-----------------------------------------------------------------------------

\* The bound on calls is used up and every call has been answered.
Finished ==
    /\ proc = "serving"
    /\ calls = MaxCalls
    /\ \A t \in Threads : call[t].step \in Resting
    /\ UNCHANGED vars

Step(t) ==
    \/ Peek(t) \/ ReadTarget(t) \/ WriteCandidate(t) \/ WriteActive(t)
    \/ Swap(t) \/ Emit(t) \/ Reread(t)

Next ==
    \/ \E t \in Threads : Receive(t) \/ Step(t)
    \/ Hydrate \/ Serve \/ Crash \/ AbortStart \/ Restart \/ Finished

Spec == Init /\ [][Next]_vars

\* Goroutines are scheduled and the supervisor restarts a stopped process; nobody is
\* obliged to call the API or to crash.
FairSpec ==
    /\ Spec
    /\ \A t \in Threads : WF_vars(Step(t))
    /\ WF_vars(Hydrate) /\ WF_vars(Serve) /\ WF_vars(AbortStart) /\ WF_vars(Restart)

-----------------------------------------------------------------------------
(* Properties.                                                             *)

Activations == {"activate", "rollback"}

\* Whatever crashes, is rejected or overlaps, the engine the Manager enforces is one
\* Cedar parses and one the store has made active at some time: never a bare candidate,
\* never a version whose activation did not commit (manager.go:134-154, 255-274).
CacheIsCommitted ==
    \A ws \in Workspaces : cached[ws] # NoVersion =>
        /\ cached[ws] \in Parses
        /\ policies[ws][cached[ws]] \in {"active", "historical"}

\* Once the process serves, the default workspace has an engine, at whatever point an
\* earlier start or call was cut off (main.go:726-758).
ServingEnforcesDefault ==
    proc = "serving" => cached[Default] # NoVersion

\* Between calls, the engine that is enforced is the version the store calls active
\* ("The in-memory cache is updated immediately on successful activation",
\* manager.go:132).  A call between its store write and its swap is the only excuse.
EnforcedIsActive ==
    \A ws \in Workspaces :
        (cached[ws] # NoVersion /\ \A t \in Threads : ~(call[t].step = "swap" /\ call[t].ws = ws))
            => cached[ws] = GetActivePolicy(ws)

\* The activations told to the listener, with those still on their way to it, as long as no
\* crash cut one off: each version that was ever made active was told to be, none is told to
\* have been replaced that was not; and read as edges from prev to new they account exactly
\* for the active version, in whatever order concurrent calls emit them, unless an activation
\* replaced another version than the one it had read (manager.go:145-163, 180-198;
\* postgres.go:211, 252).
TrailAccountsForActive ==
    crashes = 0 => \A ws \in Workspaces :
        LET pending == {t \in Threads : call[t].ws = ws /\ call[t].kind \in Activations
                                          /\ call[t].step \in {"swap", "emit"}}
            told == {i \in DOMAIN emitted : emitted[i].ws = ws /\ emitted[i].action \in Activations}
            into(v) == Cardinality({i \in told : emitted[i].new = v})
                         + Cardinality({t \in pending : call[t].version = v})
            outOf(v) == Cardinality({i \in told : emitted[i].prev = v})
                         + Cardinality({t \in pending : call[t].prev = v})
        IN  \A v \in Versions :
              /\ policies[ws][v] \in {"active", "historical"} <=> into(v) > 0
              /\ outOf(v) > 0 => into(v) > 0
              /\ ~misread => into(v) - outOf(v) = IF GetActivePolicy(ws) = v THEN 1 ELSE 0

\* What a successful call tells its client is a version that was made active; and unless
\* another call activated in the workspace meanwhile, it is the one this call activated, and
\* what a rollback says it replaced is what it did, or nothing if the read of it failed
\* (handler.go:320-324, 339-361).
RepliesDescribeTheCall ==
    \A t \in Admins :
        LET c == call[t]
        IN  (c.step = "ok" /\ c.kind \in Activations) =>
                /\ c.reply \in Versions
                /\ policies[c.ws][c.reply] \in {"active", "historical"}
                /\ t \in overtaken \/ c.reply = c.version
                /\ c.kind = "rollback" => t \in overtaken \/ c.from \in {c.prev, NoVersion}

\* Start-up gets through its hydrate-or-seed sequence in the end, whatever a crash left
\* half done in the store (main.go:726-758).
EventuallyServes == <>[](proc = "serving")

=============================================================================

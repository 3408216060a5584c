---------------------------- MODULE ToolCatalog ----------------------------
(***************************************************************************)
(* The tool catalog: the table tool_definitions, the live Snapshot that    *)
(* every check reads, and the admin API's PUT and DELETE, which write the  *)
(* table, reload the snapshot from it, undo the write if the reload fails, *)
(* and record the change in the audit trail.  The handlers hold catalogMu  *)
(* from their first read to their reply; each store call is a step, and    *)
(* the client may disconnect, or the connection to the store break, before *)
(* or while it runs.                                                       *)
(*                                                                         *)
(* This module holds the state and the operations; Lifecycle runs them in  *)
(* a process that starts, serves and stops.                                *)
(***************************************************************************)
EXTENDS Naturals, FiniteSets

CONSTANTS
    Tools,        \* tool ids: a backend and a tool name
    Defs,         \* what ToolDefinition.Validate accepts: risk, schema, arguments
    Unbuildable,  \* those of Defs that no Snapshot can be built with
    NoDef,        \* stands for "no row"
    Seed,         \* the bootstrap file: Seed[t] is a definition or NoDef
    Calls,        \* the PUT and DELETE requests of a behaviour
    Inputs,       \* Inputs[p]: the tool and definition p may carry, NoDef for a DELETE
    NoOne,        \* stands for "nobody holds catalogMu"
    Faults        \* what may go wrong: see FaultKinds

(***************************************************************************)
(* "reject": a statement fails without effect; "unknown": it commits and   *)
(* the caller gets an error; "list": List fails; "disconnect": the client  *)
(* goes away, which cancels the request's context; "append": the audit     *)
(* record of a change is not written.                                      *)
(***************************************************************************)
FaultKinds == {"reject", "unknown", "list", "disconnect", "append"}

ASSUME CatalogAssumption ==
    /\ Tools # {}
    /\ NoDef \notin Defs
    /\ Unbuildable \subseteq Defs
    /\ Seed \in [Tools -> Defs \cup {NoDef}]
    /\ NoOne \notin Calls /\ IsFiniteSet(Calls)
    /\ Inputs \in [Calls -> SUBSET (Tools \X (Defs \cup {NoDef}))]
    /\ Faults \subseteq FaultKinds

VARIABLES
    persistent,   \* the stores are Postgres; the in-memory ones neither fail nor survive
    rows,         \* tool_definitions
    live,         \* the definitions of Catalog.Current()
    mu,           \* the holder of catalogMu
    call,         \* call[p]: where request p is
    recorded,     \* the requests whose mutation event is in the audit trail
    missed        \* AuditAppendFailuresTotal for these events, summed over restarts

catalogVars == <<persistent, rows, live, mu, call, recorded, missed>>

MaybeDef == Defs \cup {NoDef}
NoTools == [t \in Tools |-> NoDef]

\* "new": not received yet; "lock": waits for catalogMu; "restore": rollbackTool.
Steps == {"new", "lock", "get", "write", "reload", "restore", "emit", "done"}

\* "failed": nothing was changed; "unwritten": failed to store or delete; "undone": the
\* reload failed and the write was undone; "inconsistent": the undo failed too; "lost": the
\* process died.
Replies == {"none", "ok", "invalid", "not_found", "failed", "unwritten", "undone",
            "inconsistent", "lost"}

Requests == [step: Steps, tool: Tools, def: MaybeDef, prev: MaybeDef, gone: BOOLEAN,
             reply: Replies]

CatalogTypeOK ==
    /\ persistent \in BOOLEAN
    /\ rows \in [Tools -> MaybeDef]
    /\ live \in [Tools -> MaybeDef]
    /\ mu \in Calls \cup {NoOne}
    /\ call \in [Calls -> Requests]
    /\ recorded \subseteq Calls
    /\ missed \in 0..Cardinality(Calls)

CatalogInit ==
    /\ persistent \in BOOLEAN
    /\ rows = NoTools
    /\ live = NoTools
    /\ mu = NoOne
    /\ call = [p \in Calls |-> [step |-> "new", tool |-> CHOOSE t \in Tools : TRUE,
                               def |-> NoDef, prev |-> NoDef, gone |-> FALSE, reply |-> "none"]]
    /\ recorded = {}
    /\ missed = 0

May(fault) == persistent /\ fault \in Faults
InProgress(p) == call[p].step \notin {"new", "done"}

-----------------------------------------------------------------------------
(* The steps of a request.                                                 *)

Goto(p, step) == call' = [call EXCEPT ![p].step = step]

\* What is left of a request once it is answered.
Answered(p, reply) ==
    [step |-> "done", tool |-> call[p].tool, def |-> NoDef, prev |-> NoDef,
     gone |-> FALSE, reply |-> reply]

Finish(p, reply) ==
    /\ call' = [call EXCEPT ![p] = Answered(p, reply)]
    /\ mu' = NoOne

\* The request's context has ended, which only Postgres looks at.
Cancelled(p) == persistent /\ call[p].gone

\* A statement has no effect and reports an error.
Fails(p) == May("reject") \/ Cancelled(p)

\* A statement takes effect and reports an error: the connection breaks, or the context
\* ends, while it runs.
Unsure(p) == ~Cancelled(p) /\ (May("unknown") \/ May("disconnect"))

\* A PUT or DELETE arrives.  The path and the definition are validated before the lock.
Request(p) ==
    /\ call[p].step = "new"
    /\ \E i \in Inputs[p] :
         call' = [call EXCEPT ![p] = [@ EXCEPT !.step = "lock", !.tool = i[1], !.def = i[2]]]
    /\ UNCHANGED <<persistent, rows, live, mu, recorded, missed>>

\* Mutant of RequestMalformed: what was decoded of the body is stored.
RequestUnvalidated(p) ==
    /\ call[p].step = "new"
    /\ call' = [call EXCEPT ![p] = [@ EXCEPT !.step = "lock", !.def = "malformed"]]
    /\ UNCHANGED <<persistent, rows, live, mu, recorded, missed>>

\* ToolDefinition.Validate refuses the path or the definition.
RequestMalformed(p) ==
    /\ call[p].step = "new"
    /\ call' = [call EXCEPT ![p] = Answered(p, "invalid")]
    /\ UNCHANGED <<persistent, rows, live, mu, recorded, missed>>

\* The server cancels the context of a request whose client has gone.
Disconnect(p) ==
    /\ "disconnect" \in Faults
    /\ InProgress(p)
    /\ ~call[p].gone
    /\ call' = [call EXCEPT ![p].gone = TRUE]
    /\ UNCHANGED <<persistent, rows, live, mu, recorded, missed>>

\* Mutant of Lock: catalogMu is not taken.
LockNothing(p) ==
    /\ call[p].step = "lock"
    /\ Goto(p, "get")
    /\ UNCHANGED <<persistent, rows, live, mu, recorded, missed>>

Lock(p) ==
    /\ call[p].step = "lock"
    /\ mu = NoOne
    /\ mu' = p
    /\ Goto(p, "get")
    /\ UNCHANGED <<persistent, rows, live, recorded, missed>>

\* Store.Get: what a failed reload will be rolled back to.
Get(p) ==
    /\ call[p].step = "get"
    /\ \/ /\ Fails(p)
          /\ Finish(p, "failed")
       \/ /\ ~Cancelled(p)
          /\ call[p].def = NoDef
          /\ rows[call[p].tool] = NoDef
          /\ Finish(p, "not_found")
       \/ /\ ~Cancelled(p)
          /\ call[p].def # NoDef \/ rows[call[p].tool] # NoDef
          /\ call' = [call EXCEPT ![p].step = "write", ![p].prev = rows[call[p].tool]]
          /\ UNCHANGED mu
    /\ UNCHANGED <<persistent, rows, live, recorded, missed>>

\* Mutant of Restored: with no previous definition there is nothing to put back.
RestoredIfAny(p) ==
    IF call[p].prev = NoDef THEN rows ELSE [rows EXCEPT ![call[p].tool] = call[p].prev]

\* What the request leaves in the table; the table a rollback leaves.
Written(p) == [rows EXCEPT ![call[p].tool] = call[p].def]
Restored(p) == [rows EXCEPT ![call[p].tool] = call[p].prev]

\* Store.Upsert or Store.Delete under the request's context.  A context that ends while
\* the statement runs, or a connection that breaks, reports an error for a statement that
\* may have taken effect; the handler then returns without a reload.
Write(p) ==
    /\ call[p].step = "write"
    /\ \/ /\ ~Cancelled(p)
          /\ rows' = Written(p)
          /\ Goto(p, "reload")
          /\ UNCHANGED mu
       \/ /\ Fails(p)
          /\ UNCHANGED rows
          /\ Finish(p, "unwritten")
       \/ /\ Unsure(p)
          /\ rows' = Written(p)
          /\ Finish(p, "unwritten")
    /\ UNCHANGED <<persistent, live, recorded, missed>>

\* buildSnapshot: an argument name of blanks only passes Validate and not NewDeclarationSet.
Buildable == \A t \in Tools : rows[t] \notin Unbuildable

\* Catalog.Reload: List, a new Snapshot from the rows and the swap.
Reload(p) ==
    /\ call[p].step = "reload"
    /\ \/ /\ ~Cancelled(p) /\ Buildable
          /\ live' = rows
          /\ Goto(p, "emit")
       \/ /\ May("list") \/ Cancelled(p) \/ ~Buildable
          /\ Goto(p, "restore")
          /\ UNCHANGED live
    /\ UNCHANGED <<persistent, rows, mu, recorded, missed>>

\* rollbackTool, under a context that the client's departure does not cancel.
Restore(p) ==
    /\ call[p].step = "restore"
    /\ \/ rows' = Restored(p) /\ Finish(p, "undone")
       \/ May("reject") /\ UNCHANGED rows /\ Finish(p, "inconsistent")
       \/ May("unknown") /\ rows' = Restored(p) /\ Finish(p, "inconsistent")
    /\ UNCHANGED <<persistent, live, recorded, missed>>

\* Mutant of Emit: a failed append is not counted.
EmitSilently(p) ==
    /\ call[p].step = "emit"
    /\ recorded' = IF Cancelled(p) THEN recorded ELSE recorded \cup {p}
    /\ Finish(p, "ok")
    /\ UNCHANGED <<persistent, rows, live, missed>>

\* emitToolMutation: OnMutation reports no error, it only counts a failed append; a
\* statement that commits may be counted as failed too.
Emit(p) ==
    /\ call[p].step = "emit"
    /\ \/ /\ ~Cancelled(p)
          /\ recorded' = recorded \cup {p}
          /\ UNCHANGED missed
       \/ /\ May("append") \/ Cancelled(p)
          /\ UNCHANGED recorded
          /\ missed' = missed + 1
       \/ /\ Unsure(p)
          /\ recorded' = recorded \cup {p}
          /\ missed' = missed + 1
    /\ Finish(p, "ok")
    /\ UNCHANGED <<persistent, rows, live>>

CallStep(p) == Lock(p) \/ Get(p) \/ Write(p) \/ Reload(p) \/ Restore(p) \/ Emit(p)

-----------------------------------------------------------------------------
(* What start-up does to the catalog.                                      *)

\* Mutant of ToSeed: the table is not looked at.
ToSeedAlways == {t \in Tools : Seed[t] \in Defs}

\* SeedIfEmpty's first look at the table.
ToSeed == IF rows = NoTools THEN {t \in Tools : Seed[t] \in Defs} ELSE {}

SeedOne(t) ==
    /\ rows' = [rows EXCEPT ![t] = Seed[t]]
    /\ UNCHANGED <<persistent, live, mu, call, recorded, missed>>

LoadSnapshot ==
    /\ Buildable
    /\ live' = rows
    /\ UNCHANGED <<persistent, rows, mu, call, recorded, missed>>

(***************************************************************************)
(* The process is gone: the snapshot, the mutex and every request with it. *)
(* A statement it had sent may still take effect; with the in-memory store *)
(* the rows are gone too.                                                  *)
(***************************************************************************)
InFlight ==
    {Written(p) : p \in {q \in Calls : call[q].step = "write" /\ ~Cancelled(q)}}
      \cup {Restored(p) : p \in {q \in Calls : call[q].step = "restore"}}

CatalogDies ==
    /\ IF persistent THEN rows' \in {rows} \cup InFlight ELSE rows' = NoTools
    /\ live' = NoTools
    /\ mu' = NoOne
    /\ call' = [p \in Calls |-> IF InProgress(p) THEN Answered(p, "lost") ELSE call[p]]
    /\ UNCHANGED <<persistent, recorded, missed>>

-----------------------------------------------------------------------------
(***************************************************************************)
(* A reply tells what became of the request: after "ok" its definition is  *)
(* both stored and live, after an undone reload the table holds what it    *)
(* held before the request, and "not found" is said of an absent row only  *)
(* (handleCatalogPut, handleCatalogDelete), however requests, disconnects  *)
(* and faults interleave.                                                  *)
(***************************************************************************)
TrueReply(p) ==
    LET t == call[p].tool
    IN  /\ call'[p].reply = "ok" => rows'[t] = call[p].def /\ live'[t] = call[p].def
        /\ call'[p].reply = "undone" => rows'[t] = call[p].prev /\ live'[t] = live[t]
        /\ call'[p].reply = "not_found" => rows'[t] = NoDef

RepliesAreTrue ==
    [][\A p \in Calls : call[p].reply # call'[p].reply => TrueReply(p)]_catalogVars

(***************************************************************************)
(* The table and the live snapshot agree on a tool whenever no request     *)
(* holds catalogMu, unless an admin was told that a write to it failed or  *)
(* that the catalog may be inconsistent (reloadFailureMessage).            *)
(***************************************************************************)
Reported(t) ==
    \E p \in Calls : call[p].tool = t /\ call[p].reply \in {"unwritten", "inconsistent"}

DivergenceIsReported ==
    mu = NoOne /\ live # NoTools =>
      \A t \in Tools : rows[t] # live[t] => Reported(t)

(***************************************************************************)
(* Every change that was answered "ok" and is not in the audit trail has   *)
(* been counted as a failed append (OnMutation), so that an alarm on the   *)
(* counter misses none.                                                    *)
(***************************************************************************)
UnrecordedIsCounted ==
    Cardinality({p \in Calls : call[p].reply = "ok" /\ p \notin recorded}) <= missed

=============================================================================

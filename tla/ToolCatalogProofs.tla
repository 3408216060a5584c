------------------------- MODULE ToolCatalogProofs -------------------------
(***************************************************************************)
(* What the steps of an admin request do to the tool catalog, for any      *)
(* tools, definitions and requests: CatalogInv is kept by every step of a  *)
(* request, by seeding and loading as start-up does them, and by the end   *)
(* of the process.  LifecycleProofs puts these together.                   *)
(***************************************************************************)
EXTENDS ToolCatalog, FiniteSetTheorems, TLAPS

Requested == [Calls -> Requests]

\* The steps a request takes with catalogMu in its hands.
Held == {"get", "write", "reload", "restore", "emit"}

\* The requests answered "ok", and those of them that left no event in the trail.
Oks == {p \in Calls : call[p].reply = "ok"}
Unrecorded == {p \in Calls : call[p].reply = "ok" /\ p \notin recorded}

CatalogTypes ==
    /\ persistent \in BOOLEAN
    /\ rows \in [Tools -> MaybeDef]
    /\ live \in [Tools -> MaybeDef]
    /\ mu \in Calls \cup {NoOne}
    /\ call \in Requested
    /\ recorded \subseteq Calls
    /\ missed \in Nat

\* A request has no reply before it is done, and one of them at a time holds the mutex.
MutexInv ==
    \A p \in Calls :
        /\ call[p].step # "done" => call[p].reply = "none"
        /\ call[p].step \in Held <=> mu = p

\* What a request between its write and its reply knows of the table and the snapshot.
Progress(p) ==
    /\ call[p].step = "write" => call[p].prev = rows[call[p].tool]
    /\ call[p].step \in {"reload", "restore"} =>
         /\ rows[call[p].tool] = call[p].def
         /\ live # NoTools /\ call[p].prev # live[call[p].tool] => Reported(call[p].tool)
    /\ call[p].step = "emit" =>
         /\ rows[call[p].tool] = call[p].def
         /\ live[call[p].tool] = call[p].def

ProgressInv == \A p \in Calls : Progress(p)

\* A tool on which the table and the snapshot differ is reported, or is being changed.
DivergenceInv ==
    live # NoTools => \A t \in Tools : rows[t] # live[t] =>
        \/ Reported(t)
        \/ \E p \in Calls : call[p].tool = t /\ call[p].step \in {"reload", "restore"}

CountInv ==
    /\ missed <= Cardinality(Oks)
    /\ Cardinality(Unrecorded) <= missed

CatalogInv ==
    /\ CatalogTypes
    /\ MutexInv
    /\ ProgressInv
    /\ DivergenceInv
    /\ CountInv
-----------------------------------------------------------------------------
(* Steps of one request.                                                   *)

\* p's record becomes c, the others keep theirs.
Becomes(p, c) ==
    /\ c \in Requests
    /\ call' \in Requested
    /\ call'[p] = c
    /\ \A q \in Calls : q # p => call'[q] = call[q]

\* The fields a request is left with when it goes on to another step.
LEMMA GoesOn ==
    ASSUME CatalogTypes, NEW p \in Calls, NEW s \in Steps, Goto(p, s)
    PROVE  /\ Becomes(p, call'[p])
           /\ call'[p].step = s
           /\ call'[p].tool = call[p].tool
           /\ call'[p].def = call[p].def
           /\ call'[p].prev = call[p].prev
           /\ call'[p].reply = call[p].reply
  <1>1. call' = [call EXCEPT ![p].step = s]
    BY DEF Goto
  <1>2. [call[p] EXCEPT !.step = s] \in Requests
    BY DEF CatalogTypes, Requested, Requests
  <1> QED
    BY <1>1, <1>2 DEF CatalogTypes, Requested, Requests, Becomes

\* The fields a request is left with once it is answered.
LEMMA IsAnswered ==
    ASSUME CatalogTypes, NEW p \in Calls, NEW r \in Replies,
           call' = [call EXCEPT ![p] = Answered(p, r)]
    PROVE  /\ Becomes(p, Answered(p, r))
           /\ call'[p].step = "done"
           /\ call'[p].tool = call[p].tool
           /\ call'[p].reply = r
  <1>1. Answered(p, r) \in Requests
    BY DEF Answered, CatalogTypes, Requested, Requests, Steps, MaybeDef
  <1> QED
    BY <1>1 DEF Answered, CatalogTypes, Requested, Becomes

\* A request that holds the mutex is the only one between its lock and its reply.
LEMMA Alone ==
    ASSUME MutexInv, NEW p \in Calls, call[p].step \in Held
    PROVE  /\ mu = p
           /\ call[p].reply = "none"
           /\ \A q \in Calls : q # p => call[q].step \notin Held
  BY DEF MutexInv, Held

\* What was reported stays reported when a request that has no reply yet moves on.
LEMMA ReportedStays ==
    ASSUME NEW p \in Calls, NEW c, Becomes(p, c), call[p].reply = "none",
           NEW t \in Tools, Reported(t)
    PROVE  Reported(t)'
  <1>1. PICK q \in Calls : call[q].tool = t /\ call[q].reply \in {"unwritten", "inconsistent"}
    BY DEF Reported
  <1>2. q # p
    BY <1>1
  <1>3. call'[q] = call[q]
    BY <1>2 DEF Becomes
  <1> QED
    BY <1>1, <1>3 DEF Reported

\* The counts stay what they are when nobody gets "ok" and nothing is recorded or missed.
LEMMA CountKept ==
    ASSUME CountInv, UNCHANGED <<recorded, missed>>,
           \A q \in Calls : call'[q].reply = "ok" <=> call[q].reply = "ok"
    PROVE  CountInv'
  <1>1. Oks' = Oks /\ Unrecorded' = Unrecorded
    BY DEF Oks, Unrecorded
  <1> QED
    BY <1>1 DEF CountInv

\* Counting one more answered request.
LEMMA OneMoreOk ==
    ASSUME CatalogTypes, NEW p \in Calls, p \notin Oks, Oks' = Oks \cup {p}
    PROVE  Cardinality(Oks') = Cardinality(Oks) + 1
  <1>1. IsFiniteSet(Oks)
    BY CatalogAssumption, FS_Subset DEF Oks
  <1> QED
    BY <1>1, FS_AddElement

-----------------------------------------------------------------------------
(* A request that is outside the mutex before and after its step.          *)

LEMMA OutsideStep ==
    ASSUME CatalogInv, NEW p \in Calls, NEW c, Becomes(p, c),
           call[p].step \in {"new", "lock"},
           call'[p].step \in {"lock", "done"},
           call'[p].step # "done" => call'[p].reply = "none",
           call'[p].reply # "ok",
           UNCHANGED <<persistent, rows, live, mu, recorded, missed>>
    PROVE  CatalogInv'
  <1>1. CatalogTypes'
    BY DEF CatalogInv, CatalogTypes, Becomes
  <1>2. call[p].reply = "none" /\ mu # p
    BY DEF CatalogInv, MutexInv, Held
  <1>3. \A q \in Calls : q # p => call'[q] = call[q]
    BY DEF Becomes
  <1>4. MutexInv'
    BY <1>2, <1>3 DEF CatalogInv, MutexInv, Held
  <1>5. \A t \in Tools : Reported(t) => Reported(t)'
    BY <1>2, ReportedStays
  <1>6. ProgressInv'
    <2> SUFFICES ASSUME NEW q \in Calls
                 PROVE  Progress(q)'
      BY DEF ProgressInv
    <2>1. CASE q = p
      BY <2>1 DEF Progress
    <2>2. CASE q # p
      <3>1. call'[q] = call[q] /\ call[q].tool \in Tools
        BY <2>2, <1>3 DEF CatalogInv, CatalogTypes, Requested, Requests
      <3>2. Progress(q) /\ (Reported(call[q].tool) => Reported(call[q].tool)')
        BY <3>1, <1>5 DEF CatalogInv, ProgressInv
      <3> QED
        BY <3>1, <3>2 DEF Progress, NoTools
    <2> QED
      BY <2>1, <2>2
  <1>7. DivergenceInv'
    <2> SUFFICES ASSUME live # NoTools, NEW t \in Tools, rows[t] # live[t], ~Reported(t)'
                 PROVE  \E q \in Calls : /\ call'[q].tool = t
                                         /\ call'[q].step \in {"reload", "restore"}
      BY DEF DivergenceInv, NoTools
    <2>1. PICK q \in Calls : call[q].tool = t /\ call[q].step \in {"reload", "restore"}
      BY <1>5 DEF CatalogInv, DivergenceInv
    <2> QED
      BY <2>1, <1>3
  <1>8. CountInv'
    <2>1. \A q \in Calls : call'[q].reply = "ok" <=> call[q].reply = "ok"
      BY <1>2, <1>3
    <2> QED
      BY <2>1, CountKept DEF CatalogInv
  <1> QED
    BY <1>1, <1>4, <1>6, <1>7, <1>8 DEF CatalogInv

\* A request arrives and waits for the mutex.
LEMMA CatalogRequest ==
    ASSUME CatalogInv, NEW p \in Calls, Request(p)
    PROVE  CatalogInv'
  <1>1. PICK i \in Inputs[p] :
          call' = [call EXCEPT ![p] = [@ EXCEPT !.step = "lock", !.tool = i[1], !.def = i[2]]]
    BY DEF Request
  <1>2. i[1] \in Tools /\ i[2] \in MaybeDef
    BY CatalogAssumption DEF MaybeDef
  <1> DEFINE c == [call[p] EXCEPT !.step = "lock", !.tool = i[1], !.def = i[2]]
  <1>3. c \in Requests /\ c.step = "lock" /\ c.reply = call[p].reply
    BY <1>2 DEF CatalogInv, CatalogTypes, Requested, Requests, Steps
  <1>4. call' = [call EXCEPT ![p] = c]
    BY <1>1
  <1> HIDE DEF c
  <1>5. Becomes(p, c)
    BY <1>3, <1>4 DEF CatalogInv, CatalogTypes, Requested, Becomes
  <1>6. call[p].step = "new" /\ call[p].reply = "none"
    BY DEF Request, CatalogInv, MutexInv
  <1>7. call'[p] = c /\ UNCHANGED <<persistent, rows, live, mu, recorded, missed>>
    BY <1>5 DEF Becomes, Request
  <1> QED
    BY <1>3, <1>5, <1>6, <1>7, OutsideStep

\* A malformed request is answered at once.
LEMMA CatalogMalformed ==
    ASSUME CatalogInv, NEW p \in Calls, RequestMalformed(p)
    PROVE  CatalogInv'
  <1>1. /\ Becomes(p, Answered(p, "invalid"))
        /\ call'[p].step = "done" /\ call'[p].reply = "invalid"
    BY IsAnswered DEF RequestMalformed, CatalogInv, Replies
  <1> QED
    BY <1>1, OutsideStep DEF RequestMalformed
-----------------------------------------------------------------------------
(* A client goes away.                                                     *)

\* Losing its client changes nothing that the invariant speaks of.
LEMMA CatalogDisconnect ==
    ASSUME CatalogInv, NEW p \in Calls, Disconnect(p)
    PROVE  CatalogInv'
  <1>1. UNCHANGED <<persistent, rows, live, mu, recorded, missed>>
    BY DEF Disconnect
  <1>2. /\ call' \in Requested
        /\ \A q \in Calls : /\ call'[q].step = call[q].step
                            /\ call'[q].tool = call[q].tool
                            /\ call'[q].def = call[q].def
                            /\ call'[q].prev = call[q].prev
                            /\ call'[q].reply = call[q].reply
    <2>1. call' = [call EXCEPT ![p].gone = TRUE]
      BY DEF Disconnect
    <2>2. [call[p] EXCEPT !.gone = TRUE] \in Requests
      BY DEF CatalogInv, CatalogTypes, Requested, Requests
    <2> QED
      BY <2>1, <2>2 DEF CatalogInv, CatalogTypes, Requested, Requests
  <1>3. CatalogTypes'
    BY <1>1, <1>2 DEF CatalogInv, CatalogTypes
  <1>4. MutexInv'
    BY <1>1, <1>2 DEF CatalogInv, MutexInv
  <1>5. \A t \in Tools : Reported(t)' <=> Reported(t)
    BY <1>2 DEF Reported
  <1>6. ProgressInv'
    <2> SUFFICES ASSUME NEW q \in Calls
                 PROVE  Progress(q)'
      BY DEF ProgressInv
    <2>1. call[q].tool \in Tools /\ Progress(q)
      BY DEF CatalogInv, CatalogTypes, Requested, Requests, ProgressInv
    <2>2. Reported(call[q].tool) => Reported(call[q].tool)'
      BY <1>2, <1>5, <2>1
    <2> QED
      BY <1>1, <1>2, <2>1, <2>2 DEF Progress, NoTools
  <1>7. DivergenceInv'
    BY <1>1, <1>2, <1>5 DEF CatalogInv, DivergenceInv, NoTools
  <1>8. CountInv'
    BY <1>1, <1>2, CountKept DEF CatalogInv
  <1> QED
    BY <1>3, <1>4, <1>6, <1>7, <1>8 DEF CatalogInv

-----------------------------------------------------------------------------
(* A request with the mutex in its hands: what each step has to show.      *)

\* p is the one request that is past its lock.
Holds(p) ==
    /\ call[p].reply = "none"
    /\ \A q \in Calls : q # p => call[q].step \notin Held

\* The mutex changes hands with the steps.
LEMMA HolderMutex ==
    ASSUME CatalogTypes, MutexInv, NEW p \in Calls, NEW c, Becomes(p, c), Holds(p),
           call'[p].step # "done" => call'[p].reply = "none",
           \/ call'[p].step \in Held /\ mu' = p
           \/ call'[p].step \notin Held /\ mu' = NoOne
    PROVE  MutexInv'
  <1> SUFFICES ASSUME NEW q \in Calls
               PROVE  /\ call'[q].step # "done" => call'[q].reply = "none"
                      /\ call'[q].step \in Held <=> mu' = q
    BY DEF MutexInv
  <1>1. CASE q = p
    BY <1>1, CatalogAssumption
  <1>2. CASE q # p
    BY <1>2, CatalogAssumption DEF MutexInv, Becomes, Holds
  <1> QED
    BY <1>1, <1>2

\* Only the holder has anything to say of the table.
LEMMA HolderProgress ==
    ASSUME NEW p \in Calls, NEW c, Becomes(p, c), Holds(p), Progress(p)'
    PROVE  ProgressInv'
  <1> SUFFICES ASSUME NEW q \in Calls, q # p
               PROVE  Progress(q)'
    BY DEF ProgressInv
  <1>1. call'[q].step \notin Held
    BY DEF Becomes, Holds
  <1> QED
    BY <1>1 DEF Progress, Held

\* Only the holder's tool can come to differ, and a step that leaves the snapshot alone has
\* to answer for that one tool.
LEMMA HolderDivergence ==
    ASSUME DivergenceInv, NEW p \in Calls, NEW c, Becomes(p, c), Holds(p),
           UNCHANGED live, call'[p].tool = call[p].tool,
           \A t \in Tools : t # call[p].tool => rows'[t] = rows[t],
           live # NoTools /\ rows'[call[p].tool] # live[call[p].tool] =>
             Reported(call[p].tool)' \/ call'[p].step \in {"reload", "restore"}
    PROVE  DivergenceInv'
  <1> SUFFICES ASSUME live # NoTools, NEW t \in Tools, rows'[t] # live[t]
               PROVE  \/ Reported(t)'
                      \/ \E q \in Calls : /\ call'[q].tool = t
                                          /\ call'[q].step \in {"reload", "restore"}
    BY DEF DivergenceInv, NoTools
  <1>1. CASE t = call[p].tool
    BY <1>1
  <1>2. CASE t # call[p].tool
    <2>1. Reported(t)
      BY <1>2 DEF DivergenceInv, Holds, Held
    <2> QED
      BY <2>1, ReportedStays DEF Holds
  <1> QED
    BY <1>1, <1>2

\* The counts are only touched by an "ok".
LEMMA HolderCount ==
    ASSUME CountInv, NEW p \in Calls, NEW c, Becomes(p, c), Holds(p),
           UNCHANGED <<recorded, missed>>, call'[p].reply # "ok"
    PROVE  CountInv'
  <1>1. \A q \in Calls : call'[q].reply = "ok" <=> call[q].reply = "ok"
    BY DEF Becomes, Holds
  <1> QED
    BY <1>1, CountKept

-----------------------------------------------------------------------------
(* The steps of the holder.                                                *)

\* Taking the mutex: nobody else has it, so nobody else is past it.
LEMMA CatalogLock ==
    ASSUME CatalogInv, NEW p \in Calls, Lock(p)
    PROVE  CatalogInv'
  <1>1. /\ UNCHANGED <<persistent, rows, live, recorded, missed>>
        /\ mu = NoOne /\ mu' = p /\ call[p].step = "lock"
    BY DEF Lock
  <1>2. /\ Becomes(p, call'[p])
        /\ call'[p].step = "get"
        /\ call'[p].tool = call[p].tool
        /\ call'[p].reply = call[p].reply
    BY GoesOn DEF Lock, CatalogInv, Steps
  <1>3. Holds(p)
    BY <1>1, CatalogAssumption DEF CatalogInv, MutexInv, Holds
  <1>4. CatalogTypes'
    BY <1>1, <1>2 DEF CatalogInv, CatalogTypes, Becomes
  <1>5. MutexInv'
    BY <1>1, <1>2, <1>3, HolderMutex DEF CatalogInv, Holds, Held
  <1>6. Progress(p)'
    BY <1>2 DEF Progress
  <1>7. ProgressInv'
    BY <1>2, <1>3, <1>6, HolderProgress
  <1>8. live # NoTools /\ rows[call[p].tool] # live[call[p].tool] => Reported(call[p].tool)'
    <2> SUFFICES ASSUME live # NoTools, rows[call[p].tool] # live[call[p].tool]
                 PROVE  Reported(call[p].tool)'
      OBVIOUS
    <2>1. call[p].tool \in Tools
      BY DEF CatalogInv, CatalogTypes, Requested, Requests
    <2>2. Reported(call[p].tool)
      BY <1>1, <1>3, <2>1 DEF CatalogInv, DivergenceInv, Holds, Held
    <2> QED
      BY <1>2, <1>3, <2>1, <2>2, ReportedStays DEF Holds
  <1>9. DivergenceInv'
    BY <1>1, <1>2, <1>3, <1>8, HolderDivergence DEF CatalogInv
  <1>10. CountInv'
    BY <1>1, <1>2, <1>3, HolderCount DEF CatalogInv, Holds
  <1> QED
    BY <1>4, <1>5, <1>7, <1>9, <1>10 DEF CatalogInv
\* Store.Get: the request goes on with the row it found, or is answered.
LEMMA CatalogGet ==
    ASSUME CatalogInv, NEW p \in Calls, Get(p)
    PROVE  CatalogInv'
  <1> DEFINE t == call[p].tool
  <1>1. /\ UNCHANGED <<persistent, rows, live, recorded, missed>>
        /\ call[p].step = "get" /\ mu = p /\ Holds(p) /\ t \in Tools
    BY Alone DEF Get, CatalogInv, CatalogTypes, Requested, Requests, Held, Holds
  <1>2. PICK c :
          /\ Becomes(p, c)
          /\ call'[p].tool = t
          /\ \/ /\ call'[p].step = "done" /\ mu' = NoOne
                /\ call'[p].reply \in {"failed", "not_found"}
             \/ /\ call'[p].step = "write" /\ mu' = p
                /\ call'[p].prev = rows[t]
                /\ call'[p].reply = "none"
    <2>1. CASE \E r \in {"failed", "not_found"} : Finish(p, r)
      <3>1. PICK r \in {"failed", "not_found"} : Finish(p, r)
        BY <2>1
      <3> QED
        BY <3>1, IsAnswered DEF Finish, CatalogInv, Replies
    <2>2. CASE /\ call' = [call EXCEPT ![p].step = "write", ![p].prev = rows[t]]
               /\ UNCHANGED mu
      <3> DEFINE d == [call[p] EXCEPT !.step = "write", !.prev = rows[t]]
      <3>1. /\ d \in Requests
            /\ d.step = "write" /\ d.prev = rows[t]
            /\ d.tool = t /\ d.reply = call[p].reply
        BY DEF CatalogInv, CatalogTypes, Requested, Requests, Steps
      <3>2. call' = [call EXCEPT ![p] = d]
        BY <2>2 DEF CatalogInv, CatalogTypes, Requested
      <3> HIDE DEF d
      <3>3. Becomes(p, d)
        BY <3>1, <3>2 DEF CatalogInv, CatalogTypes, Requested, Becomes
      <3> QED
        BY <1>1, <2>2, <3>1, <3>3 DEF Becomes, Holds
    <2> QED
      BY <2>1, <2>2 DEF Get
  <1> HIDE DEF t
  <1>3. CatalogTypes'
    BY <1>1, <1>2 DEF CatalogInv, CatalogTypes, Becomes
  <1>4. MutexInv'
    BY <1>1, <1>2, HolderMutex DEF CatalogInv, Held
  <1>5. Progress(p)'
    BY <1>1, <1>2 DEF Progress
  <1>6. ProgressInv'
    BY <1>1, <1>2, <1>5, HolderProgress
  <1>7. live # NoTools /\ rows[t] # live[t] => Reported(t)
    BY <1>1 DEF CatalogInv, DivergenceInv, Holds, Held
  <1>8. Reported(t) => Reported(call[p].tool)'
    BY <1>1, <1>2, ReportedStays DEF Reported, Holds, t
  <1>9. DivergenceInv'
    BY <1>1, <1>2, <1>7, <1>8, HolderDivergence DEF CatalogInv, t
  <1>10. CountInv'
    BY <1>1, <1>2, HolderCount DEF CatalogInv
  <1> QED
    BY <1>3, <1>4, <1>6, <1>9, <1>10 DEF CatalogInv

\* A tool is reported by the reply that ends its request in an error.
LEMMA ReplyReports ==
    ASSUME NEW p \in Calls, call'[p].tool = call[p].tool,
           call'[p].reply \in {"unwritten", "inconsistent"}
    PROVE  Reported(call[p].tool)'
  BY DEF Reported

\* Store.Upsert or Store.Delete: an error is told, whether or not the row changed.
LEMMA CatalogWrite ==
    ASSUME CatalogInv, NEW p \in Calls, Write(p)
    PROVE  CatalogInv'
  <1> DEFINE t == call[p].tool
  <1>1. /\ UNCHANGED <<persistent, live, recorded, missed>>
        /\ call[p].step = "write" /\ mu = p /\ Holds(p)
        /\ t \in Tools /\ call[p].def \in MaybeDef
        /\ call[p].prev = rows[t]
    BY Alone DEF Write, CatalogInv, CatalogTypes, Requested, Requests, Held, Holds, ProgressInv,
       Progress
  <1>2. PICK c :
          /\ Becomes(p, c)
          /\ call'[p].tool = t
          /\ \/ /\ call'[p].step = "done" /\ mu' = NoOne
                /\ call'[p].reply = "unwritten"
                /\ rows' \in {rows, Written(p)}
             \/ /\ call'[p].step = "reload" /\ mu' = p
                /\ call'[p].def = call[p].def /\ call'[p].prev = call[p].prev
                /\ call'[p].reply = "none"
                /\ rows' = Written(p)
    <2>1. CASE Finish(p, "unwritten") /\ rows' \in {rows, Written(p)}
      BY <2>1, IsAnswered DEF Finish, CatalogInv, Replies
    <2>2. CASE Goto(p, "reload") /\ UNCHANGED mu /\ rows' = Written(p)
      <3>1. /\ Becomes(p, call'[p])
            /\ call'[p].step = "reload"
            /\ call'[p].tool = call[p].tool
            /\ call'[p].def = call[p].def
            /\ call'[p].prev = call[p].prev
            /\ call'[p].reply = call[p].reply
        BY <2>2, GoesOn DEF CatalogInv, Steps
      <3> QED
        BY <1>1, <2>2, <3>1 DEF Holds
    <2> QED
      BY <2>1, <2>2 DEF Write
  <1> HIDE DEF t
  <1>3. /\ rows' \in [Tools -> MaybeDef]
        /\ \A u \in Tools : u # t => rows'[u] = rows[u]
        /\ rows' = Written(p) => rows'[t] = call[p].def
    BY <1>1, <1>2 DEF Written, CatalogInv, CatalogTypes, t
  <1>4. CatalogTypes'
    BY <1>1, <1>2, <1>3 DEF CatalogInv, CatalogTypes, Becomes
  <1>5. MutexInv'
    BY <1>1, <1>2, HolderMutex DEF CatalogInv, Held
  <1>6. live # NoTools /\ rows[t] # live[t] => Reported(t)
    BY <1>1 DEF CatalogInv, DivergenceInv, Holds, Held
  <1>7. Reported(t) => Reported(call[p].tool)'
    BY <1>1, <1>2, ReportedStays DEF Reported, Holds, t
  <1>8. Progress(p)'
    BY <1>1, <1>2, <1>3, <1>6, <1>7 DEF Progress, NoTools
  <1>9. ProgressInv'
    BY <1>1, <1>2, <1>8, HolderProgress
  <1>10. call'[p].step = "reload" \/ Reported(call[p].tool)'
    BY <1>2, ReplyReports DEF t
  <1>11. DivergenceInv'
    BY <1>1, <1>2, <1>3, <1>10, HolderDivergence DEF CatalogInv, t
  <1>12. CountInv'
    BY <1>1, <1>2, HolderCount DEF CatalogInv
  <1> QED
    BY <1>4, <1>5, <1>9, <1>11, <1>12 DEF CatalogInv

\* Catalog.Reload: either the snapshot is the table, or the request goes on to undo its write.
LEMMA CatalogReload ==
    ASSUME CatalogInv, NEW p \in Calls, Reload(p)
    PROVE  CatalogInv'
  <1> DEFINE t == call[p].tool
  <1>1. /\ UNCHANGED <<persistent, rows, mu, recorded, missed>>
        /\ call[p].step = "reload" /\ mu = p /\ Holds(p)
        /\ t \in Tools
        /\ rows[t] = call[p].def
        /\ live # NoTools /\ call[p].prev # live[t] => Reported(t)
    BY Alone DEF Reload, CatalogInv, CatalogTypes, Requested, Requests, Held, Holds, ProgressInv,
       Progress
  <1>2. /\ Becomes(p, call'[p])
        /\ call'[p].step \in {"emit", "restore"}
        /\ call'[p].step = "emit" => live' = rows
        /\ call'[p].step = "restore" => live' = live
        /\ call'[p].tool = call[p].tool
        /\ call'[p].def = call[p].def
        /\ call'[p].prev = call[p].prev
        /\ call'[p].reply = "none"
    <2>1. CASE live' = rows /\ Goto(p, "emit")
      BY <1>1, <2>1, GoesOn DEF CatalogInv, Steps, Holds
    <2>2. CASE Goto(p, "restore") /\ UNCHANGED live
      BY <1>1, <2>2, GoesOn DEF CatalogInv, Steps, Holds
    <2> QED
      BY <2>1, <2>2 DEF Reload
  <1>3. CatalogTypes'
    BY <1>1, <1>2 DEF CatalogInv, CatalogTypes, Becomes
  <1>4. MutexInv'
    BY <1>1, <1>2, HolderMutex DEF CatalogInv, Held
  <1>5. Reported(t) => Reported(call[p].tool)'
    BY <1>1, <1>2, ReportedStays DEF Reported, Holds
  <1>6. Progress(p)'
    BY <1>1, <1>2, <1>5 DEF Progress, NoTools
  <1>7. ProgressInv'
    BY <1>1, <1>2, <1>6, HolderProgress
  <1>8. DivergenceInv'
    <2>1. CASE live' = rows
      BY <1>1, <2>1 DEF DivergenceInv
    <2>2. CASE live' = live /\ call'[p].step = "restore"
      BY <1>1, <1>2, <2>2, HolderDivergence DEF CatalogInv
    <2> QED
      BY <1>2, <2>1, <2>2
  <1>9. CountInv'
    BY <1>1, <1>2, HolderCount DEF CatalogInv
  <1> QED
    BY <1>3, <1>4, <1>7, <1>8, <1>9 DEF CatalogInv
\* rollbackTool: the old row is back, or the reply says that it may not be.
LEMMA CatalogRestore ==
    ASSUME CatalogInv, NEW p \in Calls, Restore(p)
    PROVE  CatalogInv'
  <1> DEFINE t == call[p].tool
  <1>1. /\ UNCHANGED <<persistent, live, recorded, missed>>
        /\ call[p].step = "restore" /\ mu = p /\ Holds(p)
        /\ t \in Tools /\ call[p].prev \in MaybeDef
        /\ live # NoTools /\ call[p].prev # live[t] => Reported(t)
    BY Alone DEF Restore, CatalogInv, CatalogTypes, Requested, Requests, Held, Holds,
       ProgressInv, Progress
  <1>2. PICK c :
          /\ Becomes(p, c)
          /\ call'[p].tool = t
          /\ call'[p].step = "done" /\ mu' = NoOne
          /\ \/ call'[p].reply = "undone" /\ rows' = Restored(p)
             \/ call'[p].reply = "inconsistent" /\ rows' \in {rows, Restored(p)}
    <2>1. PICK r \in {"undone", "inconsistent"} :
            /\ Finish(p, r)
            /\ r = "undone" => rows' = Restored(p)
            /\ rows' \in {rows, Restored(p)}
      BY DEF Restore
    <2>2. /\ Becomes(p, Answered(p, r))
          /\ call'[p].step = "done"
          /\ call'[p].tool = call[p].tool
          /\ call'[p].reply = r
      BY <2>1, IsAnswered DEF Finish, CatalogInv, Replies
    <2> QED
      BY <2>1, <2>2 DEF Finish
  <1> HIDE DEF t
  <1>3. /\ rows' \in [Tools -> MaybeDef]
        /\ \A u \in Tools : u # t => rows'[u] = rows[u]
        /\ rows' = Restored(p) => rows'[t] = call[p].prev
    BY <1>1, <1>2 DEF Restored, CatalogInv, CatalogTypes, t
  <1>4. CatalogTypes'
    BY <1>1, <1>2, <1>3 DEF CatalogInv, CatalogTypes, Becomes
  <1>5. MutexInv'
    BY <1>1, <1>2, HolderMutex DEF CatalogInv, Held
  <1>6. Reported(t) => Reported(call[p].tool)'
    BY <1>1, <1>2, ReportedStays DEF Reported, Holds, t
  <1>7. Progress(p)'
    BY <1>2 DEF Progress
  <1>8. ProgressInv'
    BY <1>1, <1>2, <1>7, HolderProgress
  <1>9. live # NoTools /\ rows'[t] # live[t] => Reported(call[p].tool)'
    <2>1. CASE call'[p].reply = "inconsistent"
      BY <2>1, <1>2, ReplyReports DEF t
    <2>2. CASE rows' = Restored(p)
      BY <2>2, <1>1, <1>3, <1>6
    <2> QED
      BY <1>2, <2>1, <2>2
  <1>10. DivergenceInv'
    BY <1>1, <1>2, <1>3, <1>9, HolderDivergence DEF CatalogInv, t
  <1>11. CountInv'
    BY <1>1, <1>2, HolderCount DEF CatalogInv
  <1> QED
    BY <1>4, <1>5, <1>8, <1>10, <1>11 DEF CatalogInv

\* The counts when a request is answered "ok": its event is recorded, or counted as missed.
LEMMA EmitCounts ==
    ASSUME CatalogTypes, CountInv, NEW p \in Calls, NEW c, Becomes(p, c),
           call[p].reply # "ok", call'[p].reply = "ok",
           \/ recorded' = recorded \cup {p} /\ missed' \in {missed, missed + 1}
           \/ recorded' = recorded /\ missed' = missed + 1
    PROVE  CountInv'
  <1>1. /\ IsFiniteSet(Oks) /\ IsFiniteSet(Unrecorded)
        /\ Cardinality(Oks) \in Nat /\ Cardinality(Unrecorded) \in Nat
    <2>1. Oks \subseteq Calls /\ Unrecorded \subseteq Calls
      BY DEF Oks, Unrecorded
    <2> QED
      BY <2>1, CatalogAssumption, FS_Subset, FS_CardinalityType
  <1>2. p \notin Oks /\ p \notin Unrecorded
    BY DEF Oks, Unrecorded
  <1>3. Oks' = Oks \cup {p}
    BY DEF Oks, Becomes
  <1>4. Cardinality(Oks') = Cardinality(Oks) + 1
    BY <1>2, <1>3, OneMoreOk
  <1>5. CASE recorded' = recorded \cup {p} /\ missed' \in {missed, missed + 1}
    <2>1. Unrecorded' = Unrecorded
      BY <1>5 DEF Unrecorded, Becomes
    <2> QED
      BY <2>1, <1>1, <1>4, <1>5 DEF CountInv, CatalogTypes
  <1>6. CASE recorded' = recorded /\ missed' = missed + 1
    <2>1. Unrecorded' = Unrecorded \/ Unrecorded' = Unrecorded \cup {p}
      BY <1>6 DEF Unrecorded, Becomes
    <2>2. Cardinality(Unrecorded \cup {p}) = Cardinality(Unrecorded) + 1
      BY <1>1, <1>2, FS_AddElement
    <2>3. \/ Cardinality(Unrecorded') = Cardinality(Unrecorded)
          \/ Cardinality(Unrecorded') = Cardinality(Unrecorded) + 1
      BY <2>1, <2>2, Zenon
    <2> QED
      BY <2>3, <1>1, <1>4, <1>6 DEF CountInv, CatalogTypes
  <1> QED
    BY <1>5, <1>6

\* emitToolMutation, and the reply "ok".
LEMMA CatalogEmit ==
    ASSUME CatalogInv, NEW p \in Calls, Emit(p)
    PROVE  CatalogInv'
  <1> DEFINE t == call[p].tool
  <1>1. /\ UNCHANGED <<persistent, rows, live>>
        /\ call[p].step = "emit" /\ mu = p /\ Holds(p)
        /\ t \in Tools
        /\ rows[t] = live[t]
    BY Alone DEF Emit, CatalogInv, CatalogTypes, Requested, Requests, Held, Holds,
       ProgressInv, Progress
  <1>2. PICK c :
          /\ Becomes(p, c)
          /\ call'[p].tool = t
          /\ call'[p].step = "done" /\ mu' = NoOne
          /\ call'[p].reply = "ok"
    BY IsAnswered DEF Emit, Finish, CatalogInv, Replies
  <1>3. \/ recorded' = recorded \cup {p} /\ missed' \in {missed, missed + 1}
        \/ recorded' = recorded /\ missed' = missed + 1
    BY DEF Emit
  <1> HIDE DEF t
  <1>4. CatalogTypes'
    BY <1>1, <1>2, <1>3 DEF CatalogInv, CatalogTypes, Becomes
  <1>5. MutexInv'
    BY <1>1, <1>2, HolderMutex DEF CatalogInv, Held
  <1>6. Progress(p)'
    BY <1>2 DEF Progress
  <1>7. ProgressInv'
    BY <1>1, <1>2, <1>6, HolderProgress
  <1>8. DivergenceInv'
    BY <1>1, <1>2, HolderDivergence DEF CatalogInv, t
  <1>9. CountInv'
    BY <1>1, <1>2, <1>3, EmitCounts DEF CatalogInv, Holds
  <1> QED
    BY <1>4, <1>5, <1>7, <1>8, <1>9 DEF CatalogInv

-----------------------------------------------------------------------------
(* What start-up and the end of a process do.                              *)

\* With no request under way and no snapshot yet, seeding a row concerns nobody.
LEMMA CatalogSeed ==
    ASSUME CatalogInv, NEW t \in Tools, SeedOne(t),
           \A p \in Calls : ~InProgress(p), live = NoTools
    PROVE  CatalogInv'
  <1>1. UNCHANGED <<persistent, live, mu, call, recorded, missed>>
    BY DEF SeedOne
  <1>2. rows' \in [Tools -> MaybeDef]
    BY CatalogAssumption DEF SeedOne, CatalogInv, CatalogTypes, MaybeDef
  <1>3. CatalogTypes' /\ MutexInv'
    BY <1>1, <1>2 DEF CatalogInv, CatalogTypes, MutexInv
  <1>4. ProgressInv'
    BY <1>1 DEF ProgressInv, Progress, InProgress
  <1>5. DivergenceInv'
    BY <1>1 DEF DivergenceInv, NoTools
  <1>6. CountInv'
    BY <1>1, CountKept DEF CatalogInv
  <1> QED
    BY <1>3, <1>4, <1>5, <1>6 DEF CatalogInv

\* With no request under way, loading makes the snapshot the table.
LEMMA CatalogLoad ==
    ASSUME CatalogInv, LoadSnapshot, \A p \in Calls : ~InProgress(p)
    PROVE  CatalogInv'
  <1>1. live' = rows /\ UNCHANGED <<persistent, rows, mu, call, recorded, missed>>
    BY DEF LoadSnapshot
  <1>2. CatalogTypes' /\ MutexInv'
    BY <1>1 DEF CatalogInv, CatalogTypes, MutexInv
  <1>3. ProgressInv'
    BY <1>1 DEF ProgressInv, Progress, InProgress
  <1>4. DivergenceInv'
    BY <1>1 DEF DivergenceInv
  <1>5. CountInv'
    BY <1>1, CountKept DEF CatalogInv
  <1> QED
    BY <1>2, <1>3, <1>4, <1>5 DEF CatalogInv

(***************************************************************************)
(* The process is gone: its requests have no reply or one that was given   *)
(* before, whatever became of the statement that was in flight.            *)
(***************************************************************************)
LEMMA CatalogEnds ==
    ASSUME CatalogInv, CatalogDies
    PROVE  CatalogInv'
  <1>1. live' = NoTools /\ mu' = NoOne /\ UNCHANGED <<persistent, recorded, missed>>
    BY DEF CatalogDies
  <1>2. ASSUME NEW p \in Calls
        PROVE  /\ call'[p] \in Requests
               /\ call'[p].step \in {"new", "done"}
               /\ call'[p].step # "done" => call'[p].reply = "none"
               /\ call'[p].reply = "ok" <=> call[p].reply = "ok"
    <2>1. call'[p] = IF InProgress(p) THEN Answered(p, "lost") ELSE call[p]
      BY DEF CatalogDies
    <2>2. CASE InProgress(p)
      <3>1. Answered(p, "lost") \in Requests
        BY DEF Answered, CatalogInv, CatalogTypes, Requested, Requests, Steps, MaybeDef, Replies
      <3> QED
        BY <2>1, <2>2, <3>1 DEF Answered, InProgress, CatalogInv, MutexInv
    <2>3. CASE ~InProgress(p)
      BY <2>1, <2>3 DEF InProgress, CatalogInv, CatalogTypes, Requested, MutexInv
    <2> QED
      BY <2>2, <2>3
  <1>3. call' \in Requested
    <2>1. call' = [p \in Calls |-> call'[p]]
      BY DEF CatalogDies
    <2> QED
      BY <1>2, <2>1 DEF Requested
  <1>4. rows' \in [Tools -> MaybeDef]
    <2>1. ASSUME NEW p \in Calls
          PROVE  Written(p) \in [Tools -> MaybeDef] /\ Restored(p) \in [Tools -> MaybeDef]
      BY DEF Written, Restored, CatalogInv, CatalogTypes, Requested, Requests
    <2>2. InFlight \subseteq [Tools -> MaybeDef]
      BY <2>1 DEF InFlight
    <2>3. NoTools \in [Tools -> MaybeDef]
      BY DEF NoTools, MaybeDef
    <2> QED
      BY <2>2, <2>3 DEF CatalogDies, CatalogInv, CatalogTypes
  <1>5. CatalogTypes'
    <2>1. NoTools \in [Tools -> MaybeDef]
      BY DEF NoTools, MaybeDef
    <2> QED
      BY <1>1, <1>3, <1>4, <2>1 DEF CatalogInv, CatalogTypes
  <1>6. MutexInv'
    BY <1>1, <1>2, CatalogAssumption DEF MutexInv, Held
  <1>7. ProgressInv'
    BY <1>2 DEF ProgressInv, Progress
  <1>8. DivergenceInv'
    BY <1>1 DEF DivergenceInv, NoTools
  <1>9. CountInv'
    BY <1>1, <1>2, CountKept DEF CatalogInv
  <1> QED
    BY <1>5, <1>6, <1>7, <1>8, <1>9 DEF CatalogInv

\* The catalog before anything happened.
LEMMA CatalogStarts ==
    ASSUME CatalogInit
    PROVE  CatalogInv
  <1>1. CatalogTypes
    <2>1. (CHOOSE t \in Tools : TRUE) \in Tools
      BY CatalogAssumption
    <2>2. NoTools \in [Tools -> MaybeDef]
      BY DEF NoTools, MaybeDef
    <2> QED
      BY <2>1, <2>2 DEF CatalogInit, CatalogTypes, Requested, Requests, Steps, Replies, MaybeDef
  <1>2. MutexInv
    BY CatalogAssumption DEF CatalogInit, MutexInv, Held
  <1>3. ProgressInv
    BY DEF CatalogInit, ProgressInv, Progress
  <1>4. DivergenceInv
    BY DEF CatalogInit, DivergenceInv
  <1>5. CountInv
    <2>1. Oks = {} /\ Unrecorded = {} /\ missed = 0
      BY DEF CatalogInit, Oks, Unrecorded
    <2> QED
      BY <2>1, FS_EmptySet DEF CountInv
  <1> QED
    BY <1>1, <1>2, <1>3, <1>4, <1>5 DEF CatalogInv

\* No variable of the catalog moves.
LEMMA CatalogStutters ==
    ASSUME CatalogInv, UNCHANGED catalogVars
    PROVE  CatalogInv'
  <1>1. UNCHANGED <<persistent, rows, live, mu, call, recorded, missed>>
    BY DEF catalogVars
  <1>2. CatalogTypes' /\ MutexInv'
    BY <1>1 DEF CatalogInv, CatalogTypes, MutexInv
  <1>3. ProgressInv'
    BY <1>1 DEF CatalogInv, ProgressInv, Progress, Reported, NoTools
  <1>4. DivergenceInv'
    BY <1>1 DEF CatalogInv, DivergenceInv, Reported, NoTools
  <1>5. CountInv'
    BY <1>1, CountKept DEF CatalogInv
  <1> QED
    BY <1>2, <1>3, <1>4, <1>5 DEF CatalogInv

\* The steps of a request, whichever it takes.
LEMMA CatalogCalls ==
    ASSUME CatalogInv, NEW p \in Calls,
           Request(p) \/ RequestMalformed(p) \/ Disconnect(p) \/ CallStep(p)
    PROVE  CatalogInv'
  BY CatalogRequest, CatalogMalformed, CatalogDisconnect, CatalogLock, CatalogGet, CatalogWrite,
     CatalogReload, CatalogRestore, CatalogEmit DEF CallStep

=============================================================================

----------------------------- MODULE AuditTrail -----------------------------
(***************************************************************************)
(* The audit table of one workspace as its readers see it: the admin API's *)
(* pages, which follow a cursor while rows are appended, and the           *)
(* verify-audit command, which recomputes the whole chain from one         *)
(* snapshot.  Rows are appended by AuditedDecisionService, here one call   *)
(* at a time (AuditedDecision has its concurrency), and may be damaged in  *)
(* the database, one stored item at a time.  Damage never computes a hash: *)
(* the chain has no key and could not tell a rewritten one.                *)
(***************************************************************************)
EXTENDS Integers, SequencesExt, FiniteSetsExt

CONSTANTS
    RoleLists,      \* the caller's roles as the token lists them, sequences of numbers
    Asked,          \* values of the "limit" parameter; NotGiven among them
    NotGiven,
    DefaultLimit, MaxLimit,     \* auditEventsDefaultLimit, auditEventsMaxLimit
    MaxRows,        \* bound: appends over a behaviour
    MaxDamages      \* bound: damages over a behaviour

ASSUME TrailAssumption ==
    /\ RoleLists \subseteq Seq(Nat)
    /\ Asked \subseteq Int \cup {NotGiven}
    /\ MaxLimit \in Nat /\ DefaultLimit \in 1..MaxLimit
    /\ MaxRows \in Nat /\ MaxDamages \in Nat

VARIABLES
    table,          \* the rows, by sequence_number, which is unique
    pending,        \* the append under way: <<>>, or the record and its prev_hash
    reader,         \* a client that pages through the trail
    appended,       \* history: rows appended so far
    original,       \* history: the rows as they were appended, as far as the table reaches:
                    \* nothing tells of rows lost at its end
    restarts,       \* history: some read of the newest row failed
    grown,          \* history: the damages there had been when a row was first appended to a
                    \* damaged table, 0 if none was
    damages

vars == <<table, pending, reader, appended, original, restarts, grown, damages>>

-----------------------------------------------------------------------------
(* Records, rows and hashes.                                               *)

\* The id stands for the execution id and the time; text for the other columns.
Record(id, roles) == [id |-> id, text |-> "recorded", roles |-> roles]
Altered(record) == [record EXCEPT !.text = "altered"]

\* The canonical payload has the roles sorted; the row keeps them as they were.
SortedRoles(roles) == SortSeq(roles, <)
ComputeCanonicalPayload(record) == [record EXCEPT !.roles = SortedRoles(@)]

\* SHA-256 of prev || payload, taken to be injective: the payloads it was made from.
GenesisHash == <<>>
NotAHash == <<Record(0, <<>>)>>
ComputeRowHash(prev, payload) == Append(prev, payload)

Row(record, prev) ==
    LET payload == ComputeCanonicalPayload(record)
    IN  [record |-> record, payload |-> payload, prev |-> prev,
         hash |-> ComputeRowHash(prev, payload)]

Newest == Max(DOMAIN table \cup {0})

\* ORDER BY sequence_number DESC LIMIT: the newest of the rows numbered in S.
NthNewest(S, i) == CHOOSE n \in S : Cardinality({m \in S : n <= m}) = i
Page(S, limit) == [i \in 1..Min({limit, Cardinality(S)}) |-> NthNewest(S, i)]

Closed == [open |-> FALSE, cursor |-> 0, seen |-> <<>>]

Init ==
    /\ table = <<>>
    /\ pending = <<>>
    /\ reader = Closed
    /\ appended = 0
    /\ original = <<>>
    /\ restarts = FALSE
    /\ grown = 0
    /\ damages = 0

-----------------------------------------------------------------------------
(* AuditedDecisionService.                                                 *)

\* GetLatestRecord; an error of it is taken for an empty table.
ReadLatest ==
    LET latest == IF Newest = 0 THEN GenesisHash ELSE table[Newest].hash
    IN  /\ pending = <<>>
        /\ appended < MaxRows
        /\ appended' = appended + 1
        /\ \E roles \in RoleLists, prev \in {latest, GenesisHash} :
             /\ pending' = <<Record(appended + 1, roles), prev>>
             /\ restarts' = (restarts \/ prev # latest)
        /\ UNCHANGED <<table, reader, original, grown, damages>>

\* AppendDecision numbers the row after the newest one there is by then, or fails.
AppendDecision ==
    /\ pending # <<>>
    /\ pending' = <<>>
    /\ \/ LET n == Newest + 1
              row == Row(pending[1], pending[2])
              With(rows) == [m \in DOMAIN rows \cup {n} |-> IF m = n THEN row ELSE rows[m]]
          IN  /\ table' = With(table)
              /\ original' = With(original)
              /\ grown' = IF grown = 0 THEN damages ELSE grown
       \/ UNCHANGED <<table, original, grown>>
    /\ UNCHANGED <<reader, appended, restarts, damages>>

-----------------------------------------------------------------------------
(* The database.                                                           *)

\* One item of a row changes.
Alter(n) ==
    /\ \E item \in {"record", "payload", "prev", "hash"} :
         \E value \in
             CASE item = "record" ->
                    {Altered(table[n].record)}
                      \cup {[table[n].record EXCEPT !.roles = l] : l \in RoleLists}
               [] item = "payload" ->
                    {Altered(table[n].payload)} \cup {table[m].payload : m \in DOMAIN table}
               [] item = "prev" -> {table[m].hash : m \in DOMAIN table} \cup {GenesisHash}
               [] item = "hash" -> {NotAHash} :
           table' = [table EXCEPT ![n][item] = value]
    /\ UNCHANGED original

Lose(n) ==
    LET left == DOMAIN table \ {n}
    IN  /\ table' = [m \in left |-> table[m]]
        /\ original' = [m \in {k \in DOMAIN original : k <= Max(left \cup {0})} |-> original[m]]

Exchange(n, m) ==
    /\ table' = [table EXCEPT ![n] = table[m], ![m] = table[n]]
    /\ UNCHANGED original

Damage ==
    /\ damages < MaxDamages
    /\ damages' = damages + 1
    /\ \E n \in DOMAIN table :
         \/ Alter(n)
         \/ Lose(n)
         \/ \E m \in DOMAIN table \ {n} : Exchange(n, m)
    /\ UNCHANGED <<pending, reader, appended, restarts, grown>>

-----------------------------------------------------------------------------
(* GET .../audit-events.                                                   *)

Before(cursor) == {n \in DOMAIN table : n < cursor}

ListRecords(limit) == Page(DOMAIN table, limit)

\* Mutant of ListRecordsBefore: up to and with the cursor.
ListRecordsUpTo(cursor, limit) == Page({n \in DOMAIN table : n <= cursor}, limit)

ListRecordsBefore(cursor, limit) == Page(Before(cursor), limit)

\* A limit that is not positive is refused.
Limit(asked) == IF asked = NotGiven THEN DefaultLimit ELSE Min({asked, MaxLimit})
Refused(asked) == asked # NotGiven /\ asked <= 0

\* The reply's next_before_sequence is its last row, and an empty page has none.
Read(page) ==
    reader' = IF page = <<>> THEN [reader EXCEPT !.open = FALSE, !.cursor = 0]
              ELSE [reader EXCEPT !.open = TRUE, !.cursor = Last(page),
                      !.seen = @ \o [i \in DOMAIN page |-> <<page[i], table[page[i]]>>]]

FirstPage ==
    /\ reader = Closed
    /\ \E asked \in {a \in Asked : ~Refused(a)} : Read(ListRecords(Limit(asked)))
    /\ UNCHANGED <<table, pending, appended, original, restarts, grown, damages>>

NextPage ==
    /\ reader.open
    /\ \E asked \in {a \in Asked : ~Refused(a)} :
         Read(ListRecordsBefore(reader.cursor, Limit(asked)))
    /\ UNCHANGED <<table, pending, appended, original, restarts, grown, damages>>

Next == ReadLatest \/ AppendDecision \/ Damage \/ FirstPage \/ NextPage

Spec == Init /\ [][Next]_vars

-----------------------------------------------------------------------------
(* agentgate verify-audit.                                                 *)

\* Mutant of RowFits: the hash is computed from the stored payload only.
RowFitsPayload(i, n, prev) ==
    /\ n = i
    /\ table[n].prev = prev
    /\ table[n].hash = ComputeRowHash(prev, table[n].payload)

\* What the verifier asks of the i-th row, numbered n, after one whose hash was prev.
RowFits(i, n, prev) ==
    LET payload == ComputeCanonicalPayload(table[n].record)
    IN  /\ n = i
        /\ table[n].prev = prev
        /\ table[n].payload = payload
        /\ table[n].hash = ComputeRowHash(prev, payload)

\* The result: the number of the first row that does not fit, or 0 if there is none.
VerifyWorkspace ==
    LET fits(n) == RowFits(Cardinality(Before(n)) + 1, n,
                           IF Before(n) = {} THEN GenesisHash ELSE table[Max(Before(n))].hash)
        unfit == {n \in DOMAIN table : ~fits(n)}
    IN  IF unfit = {} THEN 0 ELSE Min(unfit)

-----------------------------------------------------------------------------
(***************************************************************************)
(* The verifier is exact.  It reports the chain valid just if every row,   *)
(* from the first to the newest, holds the record it was appended with, up *)
(* to the order of its roles, and the payload and the hashes of an unbroken *)
(* chain; and what it reports otherwise is the first row that does not,    *)
(* whatever was appended behind it since.  A chain is broken by damage and *)
(* by an append whose read of the newest row failed or was overtaken; only *)
(* where both have happened may one cover up the other, because a row that *)
(* was appended after a failed read would fit at the front; and so may a   *)
(* row that took its prev_hash from a damaged table, once later damages    *)
(* have put it where it fits, which takes three in all (verifier.go; "no   *)
(* records have been altered or deleted out-of-band", docs/audit.md of the *)
(* website, which does not hold of the newest rows).                       *)
(***************************************************************************)
ChainUpTo(n) == [i \in 1..n |-> original[i].payload]

Genuine(n) ==
    /\ n \in DOMAIN table
    /\ ComputeCanonicalPayload(table[n].record) = original[n].payload
    /\ table[n].payload = original[n].payload
    /\ table[n].prev = ChainUpTo(n - 1)
    /\ table[n].hash = ChainUpTo(n)

ExactVerdict ==
    IF \A n \in 1..Newest : Genuine(n) THEN 0
    ELSE Min({n \in DOMAIN table : \E m \in 1..n : ~Genuine(m)})

VerdictIsExact ==
    damages = 0 \/ (~restarts /\ (grown \in {0, damages} \/ damages <= 2)) => VerifyWorkspace = ExactVerdict

(***************************************************************************)
(* A client that follows the cursor reads the trail backwards and never    *)
(* the same number twice; and while nothing is damaged it reads every row  *)
(* from the newest one of its first page down to its cursor, as it still   *)
(* is, whatever limits it asks for and whatever is appended meanwhile      *)
(* (handleListAuditEvents, ListRecordsBefore).                             *)
(***************************************************************************)
PagesAreWhole ==
    LET seen == reader.seen
        numbers == {seen[i][1] : i \in DOMAIN seen}
    IN  /\ \A i, j \in DOMAIN seen : i < j => seen[i][1] > seen[j][1]
        /\ damages = 0 /\ seen # <<>> =>
             /\ {n \in DOMAIN table : reader.cursor <= n /\ n <= seen[1][1]} = numbers
             /\ \A i \in DOMAIN seen : table[seen[i][1]] = seen[i][2]

=============================================================================

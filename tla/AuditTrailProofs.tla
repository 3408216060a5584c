-------------------------- MODULE AuditTrailProofs --------------------------
(***************************************************************************)
(* Theorems about AuditTrail, for any limits, roles and bounds.  A hash is *)
(* the sequence of the payloads it was made from, so what the verifier     *)
(* accepts comes down to which stored hash begins with which part of the   *)
(* chain; that ids are used once keeps the others apart.                   *)
(***************************************************************************)
EXTENDS AuditTrail, FiniteSetTheorems, WellFoundedInduction, TLAPS

-----------------------------------------------------------------------------
(* The invariant behind the verdict.                                       *)

Texts == {"recorded", "altered"}
Sorted == {SortedRoles(l) : l \in RoleLists}

\* What rows may hold while the records numbered up to k have been appended.
Records(k) == [id : 1..k, text : Texts, roles : RoleLists]
Payloads(k) == [id : 1..k, text : Texts, roles : Sorted]
Hashes(k) == Seq(Payloads(k) \cup {Record(0, <<>>)})
Rows(k) == [record : Records(k), payload : Payloads(k), prev : Hashes(k), hash : Hashes(k)]

\* The ids that are in rows: the pending record's is the next.
Spent == IF pending = <<>> THEN appended ELSE appended - 1

TrailTypes ==
    /\ appended \in Nat /\ damages \in Nat /\ grown \in 0..damages /\ restarts \in BOOLEAN
    /\ Newest \in Nat /\ Spent \in Nat
    /\ DOMAIN table \subseteq 1..Newest
    /\ Newest # 0 => Newest \in DOMAIN table
    /\ table \in [DOMAIN table -> Rows(Spent)]
    /\ original \in [1..Newest -> Rows(Spent)]
    /\ pending # <<>> => \E r \in Records(appended), h \in Hashes(Spent) :
                            r.id = appended /\ pending = <<r, h>>
    /\ damages = 0 => table = original

\* A hash begins with the chain up to row j; it is that of a row n that links to the chain.
On(h, j) == Len(h) >= j /\ \A i \in 1..j : h[i] = original[i].payload
Is(h, j) == Len(h) = j /\ On(h, j)
Extends(h, n) == Len(h) = n /\ On(h, n - 1)

\* While nothing is damaged and no read has failed there is one chain.
ChainInv ==
    damages = 0 /\ ~restarts =>
        /\ \A n \in 1..Newest : Is(original[n].hash, n)
        /\ pending # <<>> => Is(pending[2], Newest)

\* Damage moves hashes about, but those that go on from the chain are the chain's.
UngrownInv ==
    grown = 0 /\ ~restarts =>
        \A m \in DOMAIN table :
            \/ table[m].hash = NotAHash
            \/ \A i \in 1..Len(table[m].hash) :
                 i <= Newest => table[m].hash[i] = original[i].payload

\* After one damage and any appends, a hash that links to the chain and is not the
\* chain's own belongs to a later row and meets a row that is not genuine.
Forks(m, n) == n > 1 /\ m > n /\ ~Genuine(n - 1)

HashFits(m) ==
    LET h == table[m].hash
    IN  /\ \A n \in 1..Newest :
             Extends(h, n) => h[n] = original[n].payload \/ h[n].id = 0 \/ Forks(m, n)
        /\ ~Extends(h, Newest + 1)
        /\ \A j \in 0..(m - 1) : Is(h, j) => j > 0 /\ ~Genuine(j)

OnceDamagedInv ==
    damages = 1 /\ ~restarts =>
        /\ \A m \in DOMAIN table : HashFits(m)
        /\ pending # <<>> =>
             \A j \in 0..(Newest - 1) : Is(pending[2], j) => j > 0 /\ ~Genuine(j)

\* When the verdict is promised to be exact.
Promised == damages = 0 \/ (~restarts /\ (grown \in {0, damages} \/ damages <= 2))

\* A row that fits behind genuine ones has the payload it was appended with.
FitsAt(n) ==
    /\ Extends(table[n].hash, n)
    /\ table[n].hash[n] = table[n].payload
    /\ \A m \in 1..(n - 1) : Genuine(m)

FaithfulInv ==
    Promised => \A n \in DOMAIN table : FitsAt(n) => table[n].payload = original[n].payload

TrailInv ==
    /\ TrailTypes
    /\ ChainInv
    /\ UngrownInv
    /\ OnceDamagedInv
    /\ FaithfulInv

-----------------------------------------------------------------------------
(* The newest and the least.                                               *)

LEMMA MaxIs ==
    ASSUME NEW S \in SUBSET Int, NEW m \in S, \A k \in S : k <= m
    PROVE  Max(S) = m
<1>1. \E x \in S : \A y \in S : x >= y
  OBVIOUS
<1>2. Max(S) \in S /\ \A y \in S : Max(S) >= y
  BY <1>1 DEF Max
<1>3. \A x \in S : (\A y \in S : x >= y) => x = m
  OBVIOUS
<1>4. QED
  BY <1>2, <1>3, Zenon

LEMMA MinIs ==
    ASSUME NEW S \in SUBSET Int, NEW m \in S, \A k \in S : m <= k
    PROVE  Min(S) = m
<1>1. \E x \in S : \A y \in S : x =< y
  OBVIOUS
<1>2. Min(S) \in S /\ \A y \in S : Min(S) =< y
  BY <1>1 DEF Min
<1>3. \A x \in S : (\A y \in S : x =< y) => x = m
  OBVIOUS
<1>4. QED
  BY <1>2, <1>3, Zenon

\* A nonempty set of numbers has a least one, and if it is bounded a greatest.
LEMMA LeastExists ==
    ASSUME NEW S \in SUBSET Nat, S # {}
    PROVE  \E m \in S : \A k \in S : m <= k
<1>1. \E x \in S : \A y \in S : ~(<<y, x>> \in OpToRel(<, Nat))
  BY NatLessThanWellFounded, WFMin, Zenon
<1>2. \A x, y \in Nat : x < y => <<x, y>> \in OpToRel(<, Nat)
  BY Zenon DEF OpToRel
<1>3. PICK x \in S : \A y \in S : ~(y < x)
  BY <1>1, <1>2, Zenon
<1>4. QED
  BY <1>3

LEMMA GreatestExists ==
    ASSUME NEW S \in SUBSET Nat, S # {}, NEW N \in Nat, \A k \in S : k <= N
    PROVE  \E m \in S : \A k \in S : k <= m
<1> DEFINE T == {N - k : k \in S}
<1>1. T \in SUBSET Nat /\ T # {}
  <2>1. \A k \in S : k \in Nat /\ N - k \in Nat
    OBVIOUS
  <2>2. QED
    BY <2>1, Zenon
<1>2. PICK t \in T : \A u \in T : t <= u
  BY <1>1, LeastExists
<1>3. PICK m \in S : t = N - m
  BY <1>2
<1>4. \A k \in S : N - m <= N - k
  BY <1>2, <1>3
<1>5. QED
  BY <1>4

LEMMA NewestIs ==
    ASSUME NEW S, NEW N \in Nat, S \subseteq 1..N, N # 0 => N \in S
    PROVE  Max(S \cup {0}) = N
<1>1. S \cup {0} \in SUBSET Int /\ N \in S \cup {0} /\ \A k \in S \cup {0} : k <= N
  OBVIOUS
<1>2. QED
  BY <1>1, MaxIs

\* What is left when a row is lost has a newest row no newer than before.
LEMMA NewestLeft ==
    ASSUME NEW S, NEW N \in Nat, S \subseteq 1..N
    PROVE  LET M == Max(S \cup {0})
           IN  M \in 0..N /\ S \subseteq 1..M /\ (M # 0 => M \in S)
<1>1. S \cup {0} \in SUBSET Nat /\ \A k \in S \cup {0} : k <= N
  OBVIOUS
<1>2. PICK m \in S \cup {0} : \A k \in S \cup {0} : k <= m
  BY <1>1, GreatestExists
<1>3. Max(S \cup {0}) = m
  BY <1>1, <1>2, MaxIs
<1>4. QED
  BY <1>1, <1>2, <1>3

-----------------------------------------------------------------------------
(* Records and hashes.                                                     *)

LEMMA PayloadOfRecord ==
    ASSUME NEW k, NEW r \in Records(k)
    PROVE  /\ ComputeCanonicalPayload(r) \in Payloads(k)
           /\ ComputeCanonicalPayload(r).id = r.id
  BY DEF ComputeCanonicalPayload, Records, Payloads, Sorted

LEMMA NewRecord ==
    ASSUME NEW k \in Nat \ {0}, NEW l \in RoleLists
    PROVE  Record(k, l) \in Records(k) /\ Record(k, l).id = k
  BY DEF Record, Records, Texts

LEMMA AlteredRecord ==
    ASSUME NEW k, NEW r \in Records(k), NEW l \in RoleLists
    PROVE  Altered(r) \in Records(k) /\ [r EXCEPT !.roles = l] \in Records(k)
  BY DEF Altered, Records, Texts

LEMMA AlteredPayload ==
    ASSUME NEW k, NEW p \in Payloads(k)
    PROVE  Altered(p) \in Payloads(k)
  BY DEF Altered, Payloads, Texts

LEMMA SeqWiden ==
    ASSUME NEW S, NEW T, S \subseteq T, NEW s \in Seq(S)
    PROVE  s \in Seq(T)
  OBVIOUS

LEMMA RowsWiden ==
    ASSUME NEW k \in Nat
    PROVE  /\ Rows(k) \subseteq Rows(k + 1)
           /\ Hashes(k) \subseteq Hashes(k + 1)
<1>1. Records(k) \subseteq Records(k + 1)
  BY DEF Records
<1>2. Payloads(k) \subseteq Payloads(k + 1)
  BY DEF Payloads
<1>3. Hashes(k) \subseteq Hashes(k + 1)
  BY <1>2, SeqWiden DEF Hashes
<1>4. QED
  BY <1>1, <1>2, <1>3 DEF Rows

-----------------------------------------------------------------------------
(* What the steps do to the table.                                         *)

LEMMA ChainIs ==
    ASSUME NEW S, NEW h \in Seq(S), NEW n \in Nat
    PROVE  h = ChainUpTo(n) <=> Is(h, n)
  BY DEF ChainUpTo, Is, On

\* A row is numbered after the newest one, and recorded as it was appended.
AppendsRow ==
    /\ pending # <<>> /\ pending' = <<>>
    /\ Newest' = Newest + 1
    /\ DOMAIN table' = DOMAIN table \cup {Newest + 1}
    /\ \A m \in DOMAIN table : table'[m] = table[m]
    /\ DOMAIN original' = 1..(Newest + 1)
    /\ \A n \in 1..Newest : original'[n] = original[n]
    /\ table'[Newest + 1] = original'[Newest + 1]
    /\ original'[Newest + 1].payload = ComputeCanonicalPayload(pending[1])
    /\ original'[Newest + 1].hash = Append(pending[2], ComputeCanonicalPayload(pending[1]))
    /\ grown' = IF grown = 0 THEN damages ELSE grown
    /\ UNCHANGED <<appended, restarts, damages>>

\* Where the hash of row m comes from when something is damaged.
Swapped(m, k) ==
    /\ table'[m] = table[k] /\ table'[k] = table[m]
    /\ Newest' = Newest /\ original' = original
    /\ \A i \in DOMAIN table \ {k, m} : table'[i] = table[i]

Source(m) ==
    \/ table'[m].hash \in {NotAHash, table[m].hash}
    \/ \E k \in DOMAIN table \ {m} : Swapped(m, k)

DamagesRows ==
    /\ damages' = damages + 1
    /\ Newest' \in 0..Newest
    /\ DOMAIN table' \subseteq DOMAIN table
    /\ \A n \in 1..Newest' : original'[n] = original[n]
    /\ \A m \in DOMAIN table' : Source(m)
    /\ UNCHANGED <<pending, appended, restarts, grown>>

LEMMA ReadTypes ==
    ASSUME TrailAssumption, TrailTypes, ReadLatest
    PROVE  TrailTypes'
<1>1. appended' = appended + 1 /\ pending = <<>>
      /\ UNCHANGED <<table, reader, original, grown, damages>>
  BY DEF ReadLatest
<1>2. appended \in Nat /\ Spent = appended
  BY <1>1 DEF TrailTypes, Spent
<1> DEFINE latest == IF Newest = 0 THEN GenesisHash ELSE table[Newest].hash
<1>3. latest \in Hashes(Spent) /\ GenesisHash \in Hashes(Spent)
  <2>1. <<>> \in Hashes(Spent)
    BY DEF Hashes
  <2>2. Newest # 0 => table[Newest] \in Rows(Spent)
    BY DEF TrailTypes
  <2>3. QED
    BY <2>1, <2>2 DEF Rows, GenesisHash
<1>4. PICK roles \in RoleLists, prev \in {latest, GenesisHash} :
         /\ pending' = <<Record(appended + 1, roles), prev>>
         /\ restarts' = (restarts \/ prev # latest)
  BY DEF ReadLatest
<1>5. /\ Record(appended + 1, roles) \in Records(appended + 1)
      /\ Record(appended + 1, roles).id = appended + 1
      /\ prev \in Hashes(Spent)
  <2>1. appended + 1 \in Nat \ {0}
    BY <1>2
  <2>2. QED
    BY <2>1, <1>3, NewRecord
<1>6. Spent' = Spent /\ pending' # <<>>
  BY <1>1, <1>2, <1>4 DEF Spent
<1>7. restarts' \in BOOLEAN
  BY <1>4
<1>8. Newest' = Newest
  BY <1>1 DEF Newest
<1>9. \E r \in Records(appended'), h \in Hashes(Spent') : r.id = appended' /\ pending' = <<r, h>>
  BY <1>1, <1>4, <1>5, <1>6
<1>10. QED
  BY <1>1, <1>2, <1>6, <1>7, <1>8, <1>9 DEF TrailTypes

LEMMA AppendTypes ==
    ASSUME TrailTypes, AppendDecision
    PROVE  /\ TrailTypes'
           /\ \/ AppendsRow
              \/ pending # <<>> /\ pending' = <<>>
                 /\ UNCHANGED <<table, original, grown, appended, restarts, damages>>
<1>1. /\ pending # <<>> /\ pending' = <<>>
      /\ UNCHANGED <<reader, appended, restarts, damages>>
  BY DEF AppendDecision
<1>2. PICK r \in Records(appended), h \in Hashes(Spent) : r.id = appended /\ pending = <<r, h>>
  BY <1>1 DEF TrailTypes
<1>3. Spent' = Spent + 1 /\ Spent \in Nat /\ Spent + 1 = appended
  BY <1>1 DEF Spent, TrailTypes
<1>4. /\ Rows(Spent) \subseteq Rows(Spent + 1)
      /\ Hashes(Spent) \subseteq Hashes(Spent + 1)
  BY <1>3, RowsWiden
<1>5. CASE UNCHANGED <<table, original, grown>>
  <2>1. Newest' = Newest
    BY <1>5 DEF Newest
  <2>2. table \in [DOMAIN table -> Rows(Spent')] /\ original \in [1..Newest -> Rows(Spent')]
    BY <1>3, <1>4 DEF TrailTypes
  <2>3. QED
    BY <1>1, <1>3, <1>5, <2>1, <2>2 DEF TrailTypes
<1>6. CASE /\ table' = [m \in DOMAIN table \cup {Newest + 1} |->
                           IF m = Newest + 1 THEN Row(pending[1], pending[2]) ELSE table[m]]
           /\ original' = [m \in DOMAIN original \cup {Newest + 1} |->
                              IF m = Newest + 1 THEN Row(pending[1], pending[2]) ELSE original[m]]
           /\ grown' = IF grown = 0 THEN damages ELSE grown
  <2> DEFINE N == Newest
             row == Row(r, h)
  <2>1. N \in Nat /\ DOMAIN table \subseteq 1..N /\ DOMAIN original = 1..N
    BY DEF TrailTypes
  <2>2. pending[1] = r /\ pending[2] = h
    BY <1>2
  <2>3. /\ DOMAIN table' = DOMAIN table \cup {N + 1}
        /\ table'[N + 1] = row
        /\ \A m \in DOMAIN table : table'[m] = table[m]
    BY <1>6, <2>1, <2>2
  <2>4. /\ DOMAIN original' = 1..(N + 1)
        /\ original'[N + 1] = row
        /\ \A m \in 1..N : original'[m] = original[m]
    BY <1>6, <2>1, <2>3
  <2>5. Newest' = N + 1
    <3>1. DOMAIN table' \subseteq 1..(N + 1) /\ N + 1 \in DOMAIN table' /\ N + 1 \in Nat
      BY <2>1, <2>3
    <3>2. QED
      BY <3>1, NewestIs DEF Newest
  <2>6. /\ row.payload = ComputeCanonicalPayload(r)
        /\ row.hash = Append(h, ComputeCanonicalPayload(r))
        /\ row \in Rows(Spent + 1)
    <3>1. row = [record |-> r, payload |-> ComputeCanonicalPayload(r), prev |-> h,
                 hash |-> Append(h, ComputeCanonicalPayload(r))]
      BY DEF Row, ComputeRowHash
    <3>2. r \in Records(Spent + 1) /\ ComputeCanonicalPayload(r) \in Payloads(Spent + 1)
      BY <1>3, PayloadOfRecord
    <3>3. h \in Hashes(Spent + 1) /\ Append(h, ComputeCanonicalPayload(r)) \in Hashes(Spent + 1)
      <4> DEFINE S == Payloads(Spent + 1) \cup {Record(0, <<>>)}
      <4>1. h \in Seq(S) /\ ComputeCanonicalPayload(r) \in S
        BY <1>4, <3>2 DEF Hashes
      <4> HIDE DEF S
      <4>2. Append(h, ComputeCanonicalPayload(r)) \in Seq(S)
        BY <4>1
      <4>3. QED
        BY <4>1, <4>2 DEF S, Hashes
    <3>4. QED
      BY <3>1, <3>2, <3>3 DEF Rows
  <2>7. /\ table' \in [DOMAIN table' -> Rows(Spent')]
        /\ original' \in [1..Newest' -> Rows(Spent')]
    <3>1. table' = [m \in DOMAIN table' |-> table'[m]] /\ original' = [m \in DOMAIN original' |-> original'[m]]
      BY <1>6
    <3>2. \A m \in DOMAIN table' : table'[m] \in Rows(Spent + 1)
      BY <1>4, <2>3, <2>6 DEF TrailTypes
    <3>3. \A m \in DOMAIN original' : original'[m] \in Rows(Spent + 1)
      BY <1>4, <2>1, <2>4, <2>6 DEF TrailTypes
    <3>4. QED
      BY <1>3, <2>4, <2>5, <3>1, <3>2, <3>3
  <2>8. damages = 0 => table' = original'
    <3>1. SUFFICES ASSUME damages = 0 PROVE table' = original'
      OBVIOUS
    <3>2. table = original
      BY <3>1 DEF TrailTypes
    <3>3. table'[N + 1] = row
      BY <2>3
    <3>4. QED
      BY <1>6, <2>2, <3>2, <3>3
  <2>9. grown' \in 0..damages'
    BY <1>1, <1>6 DEF TrailTypes
  <2>10. AppendsRow
    BY <1>1, <1>6, <2>2, <2>3, <2>4, <2>5, <2>6 DEF AppendsRow
  <2>11. DOMAIN table' \subseteq 1..Newest' /\ Newest' \in DOMAIN table' /\ Newest' \in Nat
    BY <2>1, <2>3, <2>5
  <2>12. QED
    BY <1>1, <1>3, <2>7, <2>8, <2>9, <2>10, <2>11 DEF TrailTypes
<1>7. QED
  BY <1>5, <1>6 DEF AppendDecision

LEMMA AlterTypes ==
    ASSUME TrailTypes, NEW n \in DOMAIN table, Alter(n)
    PROVE  /\ DOMAIN table' = DOMAIN table /\ UNCHANGED original
           /\ table' \in [DOMAIN table' -> Rows(Spent)]
           /\ \A m \in DOMAIN table' : Source(m)
<1> DEFINE row == table[n]
<1>1. /\ table \in [DOMAIN table -> Rows(Spent)]
      /\ \A m \in DOMAIN table : /\ table[m].record \in Records(Spent)
                                 /\ table[m].payload \in Payloads(Spent)
                                 /\ table[m].prev \in Hashes(Spent)
                                 /\ table[m].hash \in Hashes(Spent)
  BY DEF TrailTypes, Rows
<1>2. GenesisHash \in Hashes(Spent) /\ NotAHash \in Hashes(Spent)
  BY DEF GenesisHash, NotAHash, Hashes
<1>3. /\ [row EXCEPT !.record = Altered(row.record)] \in Rows(Spent)
      /\ \A l \in RoleLists : [row EXCEPT !.record = [row.record EXCEPT !.roles = l]] \in Rows(Spent)
      /\ [row EXCEPT !.payload = Altered(row.payload)] \in Rows(Spent)
      /\ \A m \in DOMAIN table : [row EXCEPT !.payload = table[m].payload] \in Rows(Spent)
      /\ \A m \in DOMAIN table : [row EXCEPT !.prev = table[m].hash] \in Rows(Spent)
      /\ [row EXCEPT !.prev = GenesisHash] \in Rows(Spent)
      /\ [row EXCEPT !.hash = NotAHash] \in Rows(Spent)
  <2>1. row \in Rows(Spent)
    BY <1>1
  <2>2. \A v \in Records(Spent) : [row EXCEPT !.record = v] \in Rows(Spent)
    BY <2>1 DEF Rows
  <2>3. \A v \in Payloads(Spent) : [row EXCEPT !.payload = v] \in Rows(Spent)
    BY <2>1 DEF Rows
  <2>4. \A v \in Hashes(Spent) : /\ [row EXCEPT !.prev = v] \in Rows(Spent)
                                 /\ [row EXCEPT !.hash = v] \in Rows(Spent)
    BY <2>1 DEF Rows
  <2>5. /\ RoleLists # {} => Altered(row.record) \in Records(Spent)
        /\ \A l \in RoleLists : [row.record EXCEPT !.roles = l] \in Records(Spent)
    BY <1>1, AlteredRecord
  <2>6. RoleLists # {}
    BY <1>1 DEF Records
  <2>7. Altered(row.payload) \in Payloads(Spent)
    BY <1>1, AlteredPayload
  <2> HIDE DEF row
  <2>8. QED
    BY <1>1, <1>2, <2>2, <2>3, <2>4, <2>5, <2>6, <2>7
<1>4. \E item \in {"record", "payload", "prev", "hash"} : \E value :
         /\ table' = [table EXCEPT ![n] = [row EXCEPT ![item] = value]]
         /\ [row EXCEPT ![item] = value] \in Rows(Spent)
         /\ item = "hash" => value = NotAHash
  <2> DEFINE Values(item) ==
               CASE item = "record" -> {Altered(row.record)}
                      \cup {[row.record EXCEPT !.roles = l] : l \in RoleLists}
                 [] item = "payload" ->
                      {Altered(row.payload)} \cup {table[m].payload : m \in DOMAIN table}
                 [] item = "prev" -> {table[m].hash : m \in DOMAIN table} \cup {GenesisHash}
                 [] item = "hash" -> {NotAHash}
  <2>1. PICK item \in {"record", "payload", "prev", "hash"} : \E value \in Values(item) :
           table' = [table EXCEPT ![n][item] = value]
    BY Zenon DEF Alter
  <2>2. PICK value \in Values(item) : table' = [table EXCEPT ![n][item] = value]
    BY <2>1
  <2>3. table' = [table EXCEPT ![n] = [row EXCEPT ![item] = value]]
    BY <2>2
  <2>4. CASE item = "record"
    <3>1. Values("record") = {Altered(row.record)}
                               \cup {[row.record EXCEPT !.roles = l] : l \in RoleLists}
      OBVIOUS
    <3>2. [row EXCEPT !.record = value] \in Rows(Spent)
      BY <1>3, <2>2, <2>4, <3>1
    <3>3. QED
      BY <2>3, <2>4, <3>2
  <2>5. CASE item = "payload"
    <3>1. Values("payload") = {Altered(row.payload)} \cup {table[m].payload : m \in DOMAIN table}
      OBVIOUS
    <3>2. [row EXCEPT !.payload = value] \in Rows(Spent)
      BY <1>3, <2>2, <2>5, <3>1
    <3>3. QED
      BY <2>3, <2>5, <3>2
  <2>6. CASE item = "prev"
    <3>1. Values("prev") = {table[m].hash : m \in DOMAIN table} \cup {GenesisHash}
      OBVIOUS
    <3>2. [row EXCEPT !.prev = value] \in Rows(Spent)
      BY <1>3, <2>2, <2>6, <3>1
    <3>3. QED
      BY <2>3, <2>6, <3>2
  <2>7. CASE item = "hash"
    <3>1. Values("hash") = {NotAHash}
      OBVIOUS
    <3>2. value = NotAHash /\ [row EXCEPT !.hash = value] \in Rows(Spent)
      BY <1>3, <2>2, <2>7, <3>1
    <3>3. QED
      BY <2>3, <2>7, <3>2
  <2>8. QED
    BY <2>4, <2>5, <2>6, <2>7
<1>5. PICK item \in {"record", "payload", "prev", "hash"} : \E value :
         /\ table' = [table EXCEPT ![n] = [row EXCEPT ![item] = value]]
         /\ [row EXCEPT ![item] = value] \in Rows(Spent)
         /\ item = "hash" => value = NotAHash
  BY <1>4, Zenon
<1>5a. PICK value :
         /\ table' = [table EXCEPT ![n] = [row EXCEPT ![item] = value]]
         /\ [row EXCEPT ![item] = value] \in Rows(Spent)
         /\ item = "hash" => value = NotAHash
  BY <1>5
<1>6. /\ DOMAIN table' = DOMAIN table
      /\ table'[n] = [row EXCEPT ![item] = value]
      /\ \A m \in DOMAIN table : m # n => table'[m] = table[m]
  BY <1>1, <1>5a
<1>7. table' \in [DOMAIN table' -> Rows(Spent)]
  BY <1>1, <1>5a, <1>6
<1>8. table'[n].hash \in {NotAHash, table[n].hash}
  <2>1. row = [record |-> row.record, payload |-> row.payload, prev |-> row.prev, hash |-> row.hash]
    BY <1>1 DEF Rows, TrailTypes
  <2>2. QED
    BY <1>5a, <1>6, <2>1
<1>9. UNCHANGED original
  BY DEF Alter
<1>10. QED
  BY <1>6, <1>7, <1>8, <1>9 DEF Source

LEMMA DamageTypes ==
    ASSUME TrailAssumption, TrailTypes, Damage
    PROVE  TrailTypes' /\ DamagesRows
<1>1. damages' = damages + 1 /\ UNCHANGED <<pending, reader, appended, restarts, grown>>
  BY DEF Damage
<1>2. Spent' = Spent
  BY <1>1 DEF Spent
<1>3. PICK n \in DOMAIN table :
         Alter(n) \/ Lose(n) \/ \E m \in DOMAIN table \ {n} : Exchange(n, m)
  BY DEF Damage
<1>4. /\ table \in [DOMAIN table -> Rows(Spent)] /\ original \in [1..Newest -> Rows(Spent)]
      /\ DOMAIN table \subseteq 1..Newest /\ Newest \in Nat
  BY DEF TrailTypes
<1>5. CASE DOMAIN table' = DOMAIN table /\ UNCHANGED original
           /\ table' \in [DOMAIN table' -> Rows(Spent)]
           /\ \A m \in DOMAIN table' : Source(m)
  <2>1. Newest' = Newest
    BY <1>5 DEF Newest
  <2>2. grown' \in 0..damages' /\ damages' \in Nat /\ damages' # 0
    BY <1>1 DEF TrailTypes
  <2>3. TrailTypes'
    BY <1>1, <1>2, <1>4, <1>5, <2>1, <2>2 DEF TrailTypes
  <2>4. QED
    BY <1>1, <1>4, <1>5, <2>1, <2>3 DEF DamagesRows
<1>6. CASE Alter(n)
  BY <1>5, <1>6, AlterTypes
<1>7. CASE \E m \in DOMAIN table \ {n} : Exchange(n, m)
  <2>1. PICK m \in DOMAIN table \ {n} : Exchange(n, m)
    BY <1>7
  <2>2. table' = [table EXCEPT ![n] = table[m], ![m] = table[n]] /\ UNCHANGED original
    BY <2>1 DEF Exchange
  <2>3. /\ DOMAIN table' = DOMAIN table
        /\ table'[n] = table[m] /\ table'[m] = table[n]
        /\ \A i \in DOMAIN table \ {n, m} : table'[i] = table[i]
    BY <1>4, <2>2
  <2>4. table' \in [DOMAIN table' -> Rows(Spent)]
    BY <1>4, <2>2, <2>3
  <2>5. Newest' = Newest
    BY <2>3 DEF Newest
  <2>6. Swapped(n, m) /\ Swapped(m, n)
    BY <2>2, <2>3, <2>5 DEF Swapped
  <2>7. \A i \in DOMAIN table' : Source(i)
    BY <2>3, <2>6 DEF Source
  <2>8. QED
    BY <1>5, <2>2, <2>3, <2>4, <2>7
<1>8. CASE Lose(n)
  <2> DEFINE left == DOMAIN table \ {n}
             M == Max(left \cup {0})
  <2>1. /\ table' = [m \in left |-> table[m]]
        /\ original' = [m \in {k \in DOMAIN original : k <= M} |-> original[m]]
    BY <1>8 DEF Lose
  <2>2. Newest' = M
    BY <2>1 DEF Newest
  <2>3. M \in 0..Newest /\ left \subseteq 1..M /\ (M # 0 => M \in left)
    BY <1>4, NewestLeft
  <2> HIDE DEF M
  <2>4. {k \in DOMAIN original : k <= M} = 1..M
    BY <1>4, <2>3
  <2>5. /\ \A m \in left : table'[m] = table[m]
        /\ \A m \in 1..M : original'[m] = original[m]
    BY <2>1, <2>4
  <2>6. /\ table' \in [left -> Rows(Spent)] /\ DOMAIN table' = left
        /\ original' \in [1..M -> Rows(Spent)]
    BY <1>4, <2>1, <2>3, <2>4
  <2>7. grown' \in 0..damages' /\ damages' \in Nat /\ damages' # 0
    BY <1>1 DEF TrailTypes
  <2>8. TrailTypes'
    BY <1>1, <1>2, <2>2, <2>3, <2>6, <2>7 DEF TrailTypes
  <2>9. \A m \in DOMAIN table' : Source(m)
    BY <2>5, <2>6 DEF Source
  <2>10. QED
    BY <1>1, <2>2, <2>3, <2>5, <2>6, <2>8, <2>9 DEF DamagesRows
<1>9. QED
  BY <1>3, <1>6, <1>7, <1>8

-----------------------------------------------------------------------------
(* What hashes hold.                                                       *)

LEMMA HashHolds ==
    ASSUME NEW k \in Nat, NEW h \in Hashes(k)
    PROVE  Len(h) \in Nat /\ \A i \in 1..Len(h) : h[i].id \in 0..k
<1> DEFINE S == Payloads(k) \cup {Record(0, <<>>)}
<1>1. h \in Seq(S)
  BY DEF Hashes
<1>2. \A p \in S : p.id \in 0..k
  BY DEF Payloads, Record
<1> HIDE DEF S
<1>3. Len(h) \in Nat /\ \A i \in 1..Len(h) : h[i] \in S
  BY <1>1
<1>4. QED
  BY <1>2, <1>3

LEMMA HashAppended ==
    ASSUME NEW k \in Nat, NEW h \in Hashes(k), NEW p
    PROVE  /\ Len(Append(h, p)) = Len(h) + 1
           /\ \A i \in 1..Len(h) : Append(h, p)[i] = h[i]
           /\ Append(h, p)[Len(h) + 1] = p
<1> DEFINE S == Payloads(k) \cup {Record(0, <<>>)} \cup {p}
<1>1. h \in Seq(S) /\ p \in S
  BY SeqWiden DEF Hashes
<1> HIDE DEF S
<1>2. QED
  BY <1>1

LEMMA NotAHashHolds == Len(NotAHash) = 1 /\ NotAHash[1].id = 0
  BY DEF NotAHash, Record

LEMMA TableHolds ==
    ASSUME TrailTypes
    PROVE  /\ Newest \in Nat /\ Spent \in Nat
           /\ DOMAIN table \subseteq 1..Newest
           /\ \A m \in DOMAIN table :
                /\ table[m].payload.id \in 1..Spent
                /\ Len(table[m].hash) \in Nat
                /\ \A i \in 1..Len(table[m].hash) : table[m].hash[i].id \in 0..Spent
           /\ \A n \in 1..Newest : original[n].payload.id \in 1..Spent
<1>1. Newest \in Nat /\ Spent \in Nat /\ DOMAIN table \subseteq 1..Newest
  BY DEF TrailTypes
<1>2. \A r \in Rows(Spent) : r.payload.id \in 1..Spent /\ r.hash \in Hashes(Spent)
  BY DEF Rows, Payloads
<1>3. /\ \A m \in DOMAIN table : table[m] \in Rows(Spent)
      /\ \A n \in 1..Newest : original[n] \in Rows(Spent)
  BY DEF TrailTypes
<1>4. \A m \in DOMAIN table :
        /\ Len(table[m].hash) \in Nat
        /\ \A i \in 1..Len(table[m].hash) : table[m].hash[i].id \in 0..Spent
  BY <1>1, <1>2, <1>3, HashHolds
<1>5. QED
  BY <1>1, <1>2, <1>3, <1>4

LEMMA PendingHolds ==
    ASSUME TrailTypes, pending # <<>>
    PROVE  /\ pending[2] \in Hashes(Spent)
           /\ ComputeCanonicalPayload(pending[1]).id = Spent + 1
<1>1. PICK r \in Records(appended), h \in Hashes(Spent) : r.id = appended /\ pending = <<r, h>>
  BY DEF TrailTypes
<1>2. Spent + 1 = appended
  BY DEF TrailTypes, Spent
<1>3. QED
  BY <1>1, <1>2, PayloadOfRecord

\* The appended row, whose payload is in no row and no hash before it.
LEMMA AppendHolds ==
    ASSUME TrailTypes, AppendsRow
    PROVE  LET h == pending[2]
               new == original'[Newest + 1]
           IN  /\ Len(h) \in Nat /\ \A i \in 1..Len(h) : h[i].id \in 0..Spent
               /\ new.payload.id = Spent + 1
               /\ Len(new.hash) = Len(h) + 1
               /\ \A i \in 1..Len(h) : new.hash[i] = h[i]
               /\ new.hash[Len(h) + 1] = new.payload
<1> DEFINE h == pending[2]
           p == ComputeCanonicalPayload(pending[1])
           new == original'[Newest + 1]
<1>1. h \in Hashes(Spent) /\ p.id = Spent + 1
  BY PendingHolds DEF AppendsRow
<1>2. new.payload = p /\ new.hash = Append(h, p)
  BY DEF AppendsRow
<1>3. Spent \in Nat
  BY TableHolds
<1> HIDE DEF h, p, new
<1>4. Len(h) \in Nat /\ \A i \in 1..Len(h) : h[i].id \in 0..Spent
  BY <1>1, <1>3, HashHolds
<1>5. /\ Len(Append(h, p)) = Len(h) + 1
      /\ \A i \in 1..Len(h) : Append(h, p)[i] = h[i]
      /\ Append(h, p)[Len(h) + 1] = p
  BY <1>1, <1>3, HashAppended
<1>6. QED
  BY <1>1, <1>2, <1>4, <1>5 DEF h, p, new

\* What is genuine stays so while nothing but later rows is written.
LEMMA GenuineKept ==
    ASSUME NEW n \in Nat \ {0}, (n \in DOMAIN table) = (n \in DOMAIN table)', table'[n] = table[n],
           \A i \in 1..n : original'[i] = original[i]
    PROVE  Genuine(n)' <=> Genuine(n)
<1>1. ChainUpTo(n)' = ChainUpTo(n) /\ ChainUpTo(n - 1)' = ChainUpTo(n - 1)
  BY DEF ChainUpTo
<1>2. original'[n] = original[n]
  OBVIOUS
<1>3. QED
  BY <1>1, <1>2 DEF Genuine

-----------------------------------------------------------------------------
(* Every step keeps the invariant.                                         *)

LEMMA AppendKeepsChain ==
    ASSUME TrailTypes, ChainInv, AppendsRow
    PROVE  ChainInv'
<1> DEFINE N == Newest
           h == pending[2]
           new == original'[N + 1]
<1>1. /\ N \in Nat /\ Newest' = N + 1 /\ pending # <<>> /\ pending' = <<>>
      /\ damages' = damages /\ restarts' = restarts
      /\ \A n \in 1..N : original'[n] = original[n]
  BY TableHolds DEF AppendsRow
<1>2. /\ Len(new.hash) = Len(h) + 1
      /\ \A i \in 1..Len(h) : new.hash[i] = h[i]
      /\ new.hash[Len(h) + 1] = new.payload
  BY AppendHolds
<1> HIDE DEF N, h, new
<1>3. SUFFICES ASSUME damages = 0, ~restarts
               PROVE  \A n \in 1..(N + 1) : Is(original[n].hash, n)'
  BY <1>1 DEF ChainInv
<1>4. (\A n \in 1..N : Is(original[n].hash, n)) /\ Is(h, N)
  BY <1>1, <1>3 DEF ChainInv, N, h
<1>5. TAKE n \in 1..(N + 1)
<1>6. CASE n \in 1..N
  <2>1. original'[n] = original[n] /\ \A i \in 1..n : original'[i] = original[i]
    BY <1>1, <1>6
  <2>2. QED
    BY <1>4, <1>6, <2>1 DEF Is, On
<1>7. CASE n = N + 1
  <2>1. Len(h) = N /\ \A i \in 1..N : h[i] = original[i].payload
    BY <1>4 DEF Is, On
  <2>2. Len(new.hash) = N + 1 /\ \A i \in 1..(N + 1) : new.hash[i] = original'[i].payload
    BY <1>1, <1>2, <2>1 DEF new
  <2>3. QED
    BY <1>1, <1>7, <2>2 DEF Is, On, new
<1>8. QED
  BY <1>1, <1>6, <1>7

LEMMA AppendKeepsUngrown ==
    ASSUME TrailTypes, ChainInv, AppendsRow
    PROVE  UngrownInv'
<1> DEFINE N == Newest
<1>1. /\ N \in Nat /\ Newest' = N + 1 /\ pending # <<>>
      /\ DOMAIN table' = DOMAIN table \cup {N + 1} /\ DOMAIN table \subseteq 1..N
      /\ damages' = damages /\ restarts' = restarts
      /\ grown' = 0 => damages = 0
      /\ \A n \in 1..N : original'[n] = original[n]
      /\ \A n \in DOMAIN table : table'[n] = table[n]
      /\ table'[N + 1] = original'[N + 1]
  BY TableHolds DEF AppendsRow
<1>2. SUFFICES ASSUME damages = 0, ~restarts, NEW m \in DOMAIN table',
                      NEW i \in 1..Len(table'[m].hash), i <= N + 1
               PROVE  table'[m].hash[i] = original'[i].payload
  BY <1>1 DEF UngrownInv
<1>3. ChainInv' /\ table = original
  BY <1>2, AppendKeepsChain DEF TrailTypes
<1>4. table'[m] = original'[m] /\ m \in 1..(N + 1)
  BY <1>1, <1>3
<1>5. \A n \in 1..(N + 1) : Is(original[n].hash, n)'
  BY <1>1, <1>2, <1>3 DEF ChainInv
<1>6. Len(original'[m].hash) = m /\ \A k \in 1..m : original'[m].hash[k] = original'[k].payload
  BY <1>4, <1>5 DEF Is, On
<1>7. QED
  BY <1>2, <1>4, <1>6

LEMMA DamageKeepsUngrown ==
    ASSUME TrailTypes, UngrownInv, DamagesRows
    PROVE  UngrownInv'
<1>1. SUFFICES ASSUME grown = 0, ~restarts, NEW m \in DOMAIN table', table'[m].hash # NotAHash,
                      NEW i \in 1..Len(table'[m].hash), i <= Newest'
               PROVE  table'[m].hash[i] = original'[i].payload
  BY DEF UngrownInv, DamagesRows
<1>2. PICK k \in DOMAIN table : table'[m].hash = table[k].hash
  BY <1>1 DEF DamagesRows, Source, Swapped
<1>3. Newest' \in 0..Newest /\ Newest \in Nat /\ Len(table[k].hash) \in Nat
  BY TableHolds DEF DamagesRows
<1>4. i \in 1..Newest' /\ i <= Newest
  BY <1>1, <1>2, <1>3
<1>5. original'[i] = original[i]
  BY <1>4 DEF DamagesRows
<1>6. table[k].hash[i] = original[i].payload
  BY <1>1, <1>2, <1>4 DEF UngrownInv
<1>7. QED
  BY <1>2, <1>5, <1>6

LEMMA FirstDamage ==
    ASSUME TrailTypes, TrailTypes', ChainInv, DamagesRows
    PROVE  OnceDamagedInv'
<1>1. /\ damages' = damages + 1 /\ damages \in Nat /\ restarts' = restarts /\ pending' = pending
      /\ Newest \in Nat /\ Newest' \in 0..Newest
      /\ DOMAIN table' \subseteq DOMAIN table /\ DOMAIN table' \subseteq 1..Newest'
      /\ \A n \in 1..Newest' : original'[n] = original[n]
      /\ \A n \in 1..Newest' : original'[n].payload.id # 0
  <2>1. \A n \in 1..Newest : original[n].payload.id # 0
    BY TableHolds
  <2>2. QED
    BY <2>1 DEF DamagesRows, TrailTypes
<1>0. Newest' \in Nat /\ Newest \in Nat /\ Newest' <= Newest
  <2>1. Newest' \in 0..Newest /\ Newest \in Nat
    BY <1>1
  <2>2. QED
    BY <2>1
<1>2. SUFFICES ASSUME damages = 0, ~restarts
               PROVE  /\ \A m \in DOMAIN table' : HashFits(m)'
                      /\ pending # <<>> =>
                           \A j \in 0..(Newest' - 1) : Is(pending[2], j)' => (j > 0 /\ ~Genuine(j))'
  BY <1>1 DEF OnceDamagedInv
<1>3. \A m \in DOMAIN table :
        Len(table[m].hash) = m /\ \A i \in 1..m : table[m].hash[i] = original[i].payload
  <2>1. table = original /\ DOMAIN table \subseteq 1..Newest
    BY <1>2 DEF TrailTypes
  <2>2. \A n \in 1..Newest : Is(original[n].hash, n)
    BY <1>2 DEF ChainInv
  <2>3. QED
    BY <2>1, <2>2 DEF Is, On
<1>4. pending # <<>> => Len(pending[2]) = Newest
  BY <1>2 DEF ChainInv, Is
<1>5. \A j \in Nat : Len(table'[j].hash) # j => ~Genuine(j)'
  BY DEF Genuine, ChainUpTo
<1>6. ASSUME NEW m \in DOMAIN table'
      PROVE  HashFits(m)'
  <2> DEFINE h == table'[m].hash
  <2>1. m \in 1..Newest'
    BY <1>1
  <2>2. CASE h = NotAHash
    <3>1. Len(h) = 1 /\ h[1].id = 0
      BY <2>2, NotAHashHolds
    <3>2. \A j \in 0..(m - 1) : ~(Is(table[m].hash, j)')
      BY <1>1, <2>1, <3>1 DEF Is, On
    <3>3. ~(Extends(table[m].hash, Newest + 1)')
      <4>1. \A k \in Nat : m \in 1..k => k + 1 # 1
        OBVIOUS
      <4>2. Newest' + 1 # 1
        BY <1>0, <2>1, <4>1
      <4>3. QED
        BY <3>1, <4>2 DEF Extends
    <3>4. \A n \in 1..Newest' : Len(h) = n => h[n].id = 0
      BY <3>1
    <3>5. QED
      BY <3>2, <3>3, <3>4 DEF HashFits, Extends
  <2>3. CASE h = table[m].hash
    <3>1. Len(h) = m /\ \A i \in 1..m : h[i] = original'[i].payload
      BY <1>1, <1>3, <2>1, <2>3
    <3>2. QED
      BY <1>1, <2>1, <3>1 DEF HashFits, Extends, Is
  <2>4. CASE \E k \in DOMAIN table \ {m} : Swapped(m, k)
    <3>1. PICK k \in DOMAIN table \ {m} : Swapped(m, k)
      BY <2>4
    <3>2. /\ Newest' = Newest /\ h = table[k].hash /\ k \in 1..Newest
          /\ table'[k].hash = table[m].hash
      BY <1>1, <3>1 DEF Swapped, TrailTypes
    <3>3. Len(h) = k /\ \A i \in 1..k : h[i] = original'[i].payload
      BY <1>1, <1>3, <3>1, <3>2
    <3>4. ~Genuine(k)'
      <4>1. Len(table[m].hash) = m /\ k # m
        BY <1>1, <1>3, <3>1
      <4>2. QED
        BY <1>5, <3>2, <4>1
    <3>5. \A n \in 1..Newest' : Extends(table[m].hash, n)' => h[n] = original'[n].payload
      BY <3>3 DEF Extends
    <3>6. ~(Extends(table[m].hash, Newest + 1)')
      <4>1. k # Newest' + 1
        BY <1>1, <3>2
      <4>2. QED
        BY <3>3, <4>1 DEF Extends
    <3>7. \A j \in 0..(m - 1) : Is(table[m].hash, j)' => j > 0 /\ ~Genuine(j)'
      BY <3>2, <3>3, <3>4 DEF Is
    <3>8. QED
      BY <3>5, <3>6, <3>7 DEF HashFits
  <2>5. QED
    BY <2>2, <2>3, <2>4 DEF DamagesRows, Source
<1>7. ASSUME pending # <<>>, NEW j \in 0..(Newest' - 1)
      PROVE  ~(Is(pending[2], j)')
  <2>1. Len(pending'[2]) = Newest /\ Newest # j
    <3>1. Len(pending'[2]) = Newest
      BY <1>1, <1>4, <1>7, Zenon
    <3>2. \A k \in Nat : j \in 0..(k - 1) => j < k
      OBVIOUS
    <3>3. j < Newest'
      BY <1>0, <1>7, <3>2
    <3>4. QED
      BY <1>0, <3>1, <3>3
  <2>2. QED
    BY <2>1 DEF Is
<1>8. QED
  BY <1>6, <1>7

LEMMA AppendKeepsOnce ==
    ASSUME TrailTypes, OnceDamagedInv, AppendsRow
    PROVE  OnceDamagedInv'
<1> DEFINE N == Newest
           p == pending[2]
           new == original'[N + 1]
<1>1. /\ N \in Nat /\ Newest' = N + 1 /\ Spent \in Nat /\ pending # <<>> /\ pending' = <<>>
      /\ DOMAIN table' = DOMAIN table \cup {N + 1} /\ DOMAIN table \subseteq 1..N
      /\ damages' = damages /\ restarts' = restarts
      /\ \A n \in 1..N : original'[n] = original[n] /\ original[n].payload.id \in 1..Spent
      /\ \A m \in DOMAIN table : /\ table'[m] = table[m] /\ Len(table[m].hash) \in Nat
                                 /\ \A i \in 1..Len(table[m].hash) : table[m].hash[i].id \in 0..Spent
      /\ table'[N + 1] = new
  BY TableHolds DEF AppendsRow
<1>2. /\ Len(p) \in Nat /\ \A i \in 1..Len(p) : p[i].id \in 0..Spent
      /\ new.payload.id = Spent + 1
      /\ Len(new.hash) = Len(p) + 1
      /\ \A i \in 1..Len(p) : new.hash[i] = p[i]
      /\ new.hash[Len(p) + 1] = new.payload
  BY AppendHolds
<1>3. SUFFICES ASSUME damages = 1, ~restarts
               PROVE  \A m \in DOMAIN table' : HashFits(m)'
  BY <1>1 DEF OnceDamagedInv
<1>4. \A m \in DOMAIN table : HashFits(m)
  BY <1>3 DEF OnceDamagedInv
<1>5. \A j \in 0..(N - 1) : Is(p, j) => j > 0 /\ ~Genuine(j)
  BY <1>1, <1>3 DEF OnceDamagedInv
<1>6. \A j \in 1..N : Genuine(j)' <=> Genuine(j)
  <2>1. ASSUME NEW j \in 1..N
        PROVE  Genuine(j)' <=> Genuine(j)
    <3>1. CASE j \in DOMAIN table
      <4>1. (j \in DOMAIN table) = (j \in DOMAIN table)' /\ table'[j] = table[j]
            /\ j \in Nat \ {0} /\ \A i \in 1..j : original'[i] = original[i]
        BY <1>1, <3>1
      <4>2. QED
        BY <4>1, GenuineKept
    <3>2. CASE j \notin DOMAIN table
      <4>1. j \notin DOMAIN table'
        BY <1>1, <3>2
      <4>2. QED
        BY <3>2, <4>1 DEF Genuine
    <3>3. QED
      BY <3>1, <3>2
  <2>2. QED
    BY <2>1
<1> HIDE DEF N, p, new
<1>7. ASSUME NEW m \in DOMAIN table
      PROVE  HashFits(m)'
  <2> DEFINE h == table[m].hash
  <2>1. /\ m \in 1..N /\ table'[m].hash = h /\ Len(h) \in Nat
        /\ \A i \in 1..Len(h) : h[i].id \in 0..Spent
    BY <1>1
  <2>2. /\ \A n \in 1..N :
             Len(h) = n /\ (\A i \in 1..(n - 1) : h[i] = original[i].payload) =>
               h[n] = original[n].payload \/ h[n].id = 0 \/ (n > 1 /\ m > n /\ ~Genuine(n - 1))
        /\ ~(Len(h) = N + 1 /\ \A i \in 1..N : h[i] = original[i].payload)
        /\ \A j \in 0..(m - 1) :
             Len(h) = j /\ (\A i \in 1..j : h[i] = original[i].payload) => j > 0 /\ ~Genuine(j)
    <3>1. HashFits(m) /\ (Newest + 1) - 1 = Newest /\ Newest = N
      BY <1>1, <1>4 DEF N
    <3>2. \A n \in 1..N : Extends(h, n) => h[n] = original[n].payload \/ h[n].id = 0 \/ Forks(m, n)
      BY <3>1 DEF HashFits
    <3>3. ~Extends(h, N + 1) /\ \A j \in 0..(m - 1) : Is(h, j) => j > 0 /\ ~Genuine(j)
      BY <3>1 DEF HashFits
    <3>4. \A n \in 1..(N + 1) : Extends(h, n) <=>
            Len(h) = n /\ \A i \in 1..(n - 1) : h[i] = original[i].payload
      BY <1>1, <2>1 DEF Extends, On
    <3>5. \A j \in 0..(m - 1) : Is(h, j) <=>
            Len(h) = j /\ \A i \in 1..j : h[i] = original[i].payload
      BY <1>1, <2>1 DEF Is, On
    <3>6. N + 1 \in 1..(N + 1) /\ (N + 1) - 1 = N
      BY <1>1
    <3> HIDE DEF h
    <3>7. QED
      BY <3>2, <3>3, <3>4, <3>5, <3>6 DEF Forks
  <2> HIDE DEF h
  <2>3. ~(Len(h) = N + 1 /\ \A i \in 1..N : h[i] = original'[i].payload)
    BY <1>1, <2>2
  <2>4. ~(Len(h) = N + 2 /\ \A i \in 1..(N + 1) : h[i] = original'[i].payload)
    <3>1. SUFFICES ASSUME Len(h) = N + 2, \A i \in 1..(N + 1) : h[i] = original'[i].payload
                   PROVE  FALSE
      OBVIOUS
    <3>2. h[N + 1] = new.payload /\ h[N + 1].id \in 0..Spent
      BY <1>1, <2>1, <3>1 DEF new
    <3>3. QED
      BY <1>1, <1>2, <3>2
  <2>5. \A n \in 1..(N + 1) :
          Len(h) = n /\ (\A i \in 1..(n - 1) : h[i] = original'[i].payload) =>
            h[n] = original'[n].payload \/ h[n].id = 0 \/ (n > 1 /\ m > n /\ ~Genuine(n - 1)')
    <3>1. ASSUME NEW n \in 1..N, Len(h) = n, \A i \in 1..(n - 1) : h[i] = original'[i].payload
          PROVE  h[n] = original'[n].payload \/ h[n].id = 0 \/ (n > 1 /\ m > n /\ ~Genuine(n - 1)')
      <4>1. \A i \in 1..(n - 1) : h[i] = original[i].payload
        BY <1>1, <3>1
      <4>2. h[n] = original[n].payload \/ h[n].id = 0 \/ (n > 1 /\ m > n /\ ~Genuine(n - 1))
        BY <2>2, <3>1, <4>1
      <4>3. n > 1 => n - 1 \in 1..N
        BY <1>1
      <4>4. QED
        BY <1>1, <1>6, <4>2, <4>3
    <3>2. QED
      BY <1>1, <2>3, <3>1
  <2>6. \A j \in 0..(m - 1) :
          Len(h) = j /\ (\A i \in 1..j : h[i] = original'[i].payload) => j > 0 /\ ~Genuine(j)'
    BY <1>1, <1>6, <2>1, <2>2
  <2>7. Newest' = N + 1 /\ (N + 1) + 1 = N + 2 /\ (N + 2) - 1 = N + 1
    BY <1>1
  <2>8. QED
    BY <1>1, <2>1, <2>4, <2>5, <2>6, <2>7 DEF HashFits, Extends, Is, On, Forks
<1>8. ASSUME NEW m \in DOMAIN table', m = N + 1
      PROVE  HashFits(m)'
  <2> DEFINE h == new.hash
  <2>1. table'[m].hash = h /\ Newest' = N + 1
    BY <1>1, <1>8
  <2>2. \A n \in 1..(N + 1) :
          Len(h) = n /\ (\A i \in 1..(n - 1) : h[i] = original'[i].payload) =>
            h[n] = original'[n].payload \/ (n > 1 /\ N + 1 > n /\ ~Genuine(n - 1)')
    <3>1. SUFFICES ASSUME NEW n \in 1..(N + 1), Len(h) = n,
                          \A i \in 1..(n - 1) : h[i] = original'[i].payload
                   PROVE  h[n] = original'[n].payload \/ (n > 1 /\ N + 1 > n /\ ~Genuine(n - 1)')
      OBVIOUS
    <3>2. CASE n = N + 1
      BY <1>1, <1>2, <3>1, <3>2 DEF new
    <3>3. CASE n # N + 1
      <4>1. n - 1 \in 0..(N - 1) /\ Len(p) = n - 1
        BY <1>1, <1>2, <3>1, <3>3
      <4>2. \A i \in 1..(n - 1) : p[i] = original[i].payload
        BY <1>1, <1>2, <3>1, <4>1
      <4>3. n - 1 > 0 /\ ~Genuine(n - 1)
        BY <1>5, <4>1, <4>2 DEF Is, On
      <4>4. n - 1 \in 1..N
        BY <1>1, <4>1, <4>3
      <4>5. QED
        BY <1>1, <1>6, <4>1, <4>3, <4>4
    <3>4. QED
      BY <3>2, <3>3
  <2>3. ~(Len(h) = N + 2 /\ \A i \in 1..(N + 1) : h[i] = original'[i].payload)
    <3>1. SUFFICES ASSUME Len(h) = N + 2, \A i \in 1..(N + 1) : h[i] = original'[i].payload
                   PROVE  FALSE
      OBVIOUS
    <3>2. Len(p) = N + 1
      BY <1>1, <1>2, <3>1
    <3>3. p[N + 1] = new.payload /\ p[N + 1].id \in 0..Spent
      BY <1>1, <1>2, <3>1, <3>2 DEF new
    <3>4. QED
      BY <1>1, <1>2, <3>3
  <2>4. \A j \in 0..N : ~(Len(h) = j /\ \A i \in 1..j : h[i] = original'[i].payload)
    <3>1. SUFFICES ASSUME NEW j \in 0..N, Len(h) = j, \A i \in 1..j : h[i] = original'[i].payload
                   PROVE  FALSE
      OBVIOUS
    <3>2. j \in 1..N /\ j = Len(p) + 1
      BY <1>1, <1>2, <3>1
    <3>3. new.payload = original[j].payload
      BY <1>1, <1>2, <3>1, <3>2
    <3>4. QED
      BY <1>1, <1>2, <3>2, <3>3
  <2>5. (N + 1) + 1 = N + 2 /\ (N + 2) - 1 = N + 1 /\ (N + 1) - 1 = N
    BY <1>1
  <2> HIDE DEF h
  <2>6. QED
    BY <1>8, <2>1, <2>2, <2>3, <2>4, <2>5 DEF HashFits, Extends, Is, On, Forks
<1>9. QED
  BY <1>1, <1>7, <1>8

LEMMA AppendKeepsFaithful ==
    ASSUME TrailTypes, TrailTypes', FaithfulInv, AppendsRow
    PROVE  FaithfulInv'
<1> DEFINE N == Newest
<1>1. /\ N \in Nat /\ damages \in Nat /\ grown \in 0..damages
      /\ DOMAIN table' = DOMAIN table \cup {N + 1} /\ DOMAIN table \subseteq 1..N
      /\ damages' = damages /\ restarts' = restarts
      /\ grown' = IF grown = 0 THEN damages ELSE grown
      /\ \A n \in 1..N : original'[n] = original[n]
      /\ \A n \in DOMAIN table : table'[n] = table[n]
      /\ table'[N + 1] = original'[N + 1]
  BY TableHolds DEF AppendsRow, TrailTypes
<1>2. SUFFICES ASSUME Promised', NEW n \in DOMAIN table', FitsAt(n)'
               PROVE  table'[n].payload = original'[n].payload
  BY DEF FaithfulInv
<1>3. Promised
  BY <1>1, <1>2 DEF Promised
<1> HIDE DEF N
<1>4. CASE n = N + 1
  BY <1>1, <1>4
<1>5. CASE n # N + 1
  <2>1. n \in DOMAIN table /\ n \in 1..N
    BY <1>1, <1>5
  <2>2. \A m \in 1..(n - 1) : Genuine(m)
    <3>1. ASSUME NEW m \in 1..(n - 1)
          PROVE  Genuine(m)
      <4>1. Genuine(m)'
        BY <1>2 DEF FitsAt
      <4>2. m \in DOMAIN table' /\ m \in 1..N /\ m # N + 1
        BY <1>1, <2>1, <4>1 DEF Genuine
      <4>3. (m \in DOMAIN table) = (m \in DOMAIN table)' /\ table'[m] = table[m]
            /\ m \in Nat \ {0} /\ \A i \in 1..m : original'[i] = original[i]
        BY <1>1, <4>2
      <4>4. QED
        BY <4>1, <4>3, GenuineKept
    <3>2. QED
      BY <3>1
  <2>3. table'[n] = table[n] /\ \A i \in 1..n : original'[i] = original[i]
    BY <1>1, <2>1
  <2>4. Extends(table[n].hash, n)' <=> Extends(table[n].hash, n)
    <3>1. \A i \in 1..(n - 1) : original'[i] = original[i]
      BY <2>1, <2>3
    <3>2. QED
      BY <2>3, <3>1 DEF Extends, On
  <2>5. FitsAt(n)
    BY <1>2, <2>2, <2>3, <2>4 DEF FitsAt
  <2>6. original'[n] = original[n]
    BY <2>1, <2>3
  <2>7. QED
    BY <1>3, <2>1, <2>3, <2>5, <2>6 DEF FaithfulInv
<1>6. QED
  BY <1>4, <1>5

LEMMA DamageKeepsFaithful ==
    ASSUME TrailTypes, TrailTypes', OnceDamagedInv, UngrownInv', DamagesRows
    PROVE  FaithfulInv'
<1>1. /\ damages \in Nat /\ damages' = damages + 1 /\ restarts' = restarts
      /\ grown' = grown /\ grown \in 0..damages
      /\ DOMAIN table' \subseteq DOMAIN table /\ DOMAIN table' \subseteq 1..Newest'
      /\ \A n \in 1..Newest' : original'[n] = original[n]
  BY DEF DamagesRows, TrailTypes
<1>2. Newest' \in Nat /\ Newest \in Nat /\ Newest' <= Newest
  <2>1. Newest' \in 0..Newest /\ Newest \in Nat
    BY DEF DamagesRows, TrailTypes
  <2>2. QED
    BY <2>1
<1>3. \A n \in DOMAIN table' : table'[n].payload.id # 0
  <2>1. \A r \in Rows(Spent') : r.payload.id # 0
    BY DEF Rows, Payloads
  <2>2. QED
    BY <2>1 DEF TrailTypes
<1>4. SUFFICES ASSUME Promised', NEW n \in DOMAIN table', FitsAt(n)'
               PROVE  table'[n].payload = original'[n].payload
  BY DEF FaithfulInv
<1> DEFINE h == table'[n].hash
<1>5. /\ n \in 1..Newest' /\ n \in 1..Newest /\ n \in Nat \ {0}
      /\ original'[n] = original[n]
      /\ Len(h) = n /\ h[n] = table'[n].payload
      /\ \A i \in 1..(n - 1) : h[i] = original'[i].payload
      /\ \A m \in 1..(n - 1) : Genuine(m)'
  <2>1. n \in 1..Newest' /\ \A k \in Nat : n \in 1..k => n \in Nat \ {0}
    BY <1>1
  <2>2. n \in 1..Newest /\ n \in Nat \ {0}
    <3>1. \A a, b \in Nat : a <= b /\ n \in 1..a => n \in 1..b
      OBVIOUS
    <3>2. QED
      BY <1>2, <2>1, <3>1
  <2>3. QED
    BY <1>1, <1>4, <2>1, <2>2 DEF FitsAt, Extends, On
<1>6. h # NotAHash
  BY <1>3, <1>5, NotAHashHolds
<1> HIDE DEF h
<1>7. CASE grown = 0
  <2>1. ~restarts /\ grown' = 0
    BY <1>1, <1>4, <1>7 DEF Promised
  <2>2. \A i \in 1..Len(h) : i <= Newest' => h[i] = original'[i].payload
    BY <1>1, <1>6, <2>1 DEF UngrownInv, h
  <2>3. n <= Newest' /\ n \in 1..n
    <3>1. \A k \in Nat : n \in 1..k => n <= k /\ n \in 1..n
      OBVIOUS
    <3>2. QED
      BY <1>2, <1>5, <3>1
  <2>4. QED
    BY <1>5, <2>2, <2>3
<1>8. CASE grown # 0
  <2>1. damages = 1 /\ ~restarts
    BY <1>1, <1>4, <1>8 DEF Promised
  <2>2. \A m \in DOMAIN table : HashFits(m)
    BY <2>1 DEF OnceDamagedInv
  <2>3. \A i \in 1..(n - 1) : h[i] = original[i].payload
    <3>1. \A i \in 1..(n - 1) : i \in 1..Newest'
      <4>1. \A k \in Nat, i \in 1..(n - 1) : n \in 1..k => i \in 1..k
        BY <1>5
      <4>2. QED
        BY <1>2, <1>5, <4>1
    <3>2. QED
      BY <1>1, <1>5, <3>1
  <2>4. ASSUME NEW m \in DOMAIN table, h = table[m].hash
        PROVE  h[n] = original[n].payload \/ Forks(m, n)
    <3>1. Extends(h, n)
      BY <1>5, <2>3 DEF Extends, On
    <3>2. h[n] = original[n].payload \/ h[n].id = 0 \/ Forks(m, n)
      BY <1>5, <2>2, <2>4, <3>1 DEF HashFits
    <3>3. QED
      BY <1>3, <1>5, <3>2
  <2>5. CASE h = table[n].hash
    <3>1. n \in DOMAIN table /\ ~Forks(n, n)
      BY <1>1, <1>5 DEF Forks
    <3>2. QED
      BY <1>5, <2>4, <2>5, <3>1
  <2>6. CASE \E k \in DOMAIN table \ {n} : Swapped(n, k)
    <3>1. PICK k \in DOMAIN table \ {n} : Swapped(n, k)
      BY <2>6
    <3>2. h = table[k].hash
      BY <3>1 DEF Swapped, h
    <3>3. CASE Forks(k, n)
      <4>1. n - 1 \in 1..(n - 1) /\ n - 1 \in Nat \ {0} /\ n - 1 # k /\ n - 1 # n /\ ~Genuine(n - 1)
        <5>1. n > 1 /\ k > n /\ ~Genuine(n - 1) /\ k \in Nat
          BY <3>3, TableHolds DEF Forks
        <5>2. QED
          BY <1>5, <5>1
      <4>2. Genuine(n - 1)'
        BY <1>5, <4>1
      <4>3. DOMAIN table' = DOMAIN table \/ n - 1 \in DOMAIN table
        BY <1>1, <4>2 DEF Genuine
      <4>4. n - 1 \in DOMAIN table /\ n - 1 \in DOMAIN table'
        BY <1>1, <4>2 DEF Genuine
      <4>5. table'[n - 1] = table[n - 1] /\ original' = original
        BY <3>1, <4>1, <4>4 DEF Swapped
      <4>6. Genuine(n - 1)' <=> Genuine(n - 1)
        <5> DEFINE m == n - 1
        <5>1. m \in Nat \ {0} /\ (m \in DOMAIN table) = (m \in DOMAIN table)' /\ table'[m] = table[m]
              /\ \A i \in 1..m : original'[i] = original[i]
          BY <4>1, <4>4, <4>5
        <5> HIDE DEF m
        <5>2. Genuine(m)' <=> Genuine(m)
          BY <5>1, GenuineKept
        <5>3. QED
          BY <5>2 DEF m
      <4>7. QED
        BY <4>1, <4>2, <4>6
    <3>4. QED
      BY <1>5, <2>4, <3>1, <3>2, <3>3
  <2>7. QED
    BY <1>6, <2>5, <2>6 DEF DamagesRows, Source, h
<1>9. QED
  BY <1>7, <1>8

LEMMA ReadKeeps ==
    ASSUME TrailAssumption, TrailInv, ReadLatest
    PROVE  TrailInv'
<1>1. /\ pending = <<>> /\ UNCHANGED <<table, reader, original, grown, damages>>
      /\ Newest' = Newest
  BY DEF ReadLatest, Newest
<1> DEFINE latest == IF Newest = 0 THEN GenesisHash ELSE table[Newest].hash
<1>2. PICK roles \in RoleLists, prev \in {latest, GenesisHash} :
         /\ pending' = <<Record(appended + 1, roles), prev>>
         /\ restarts' = (restarts \/ prev # latest)
  BY DEF ReadLatest
<1>3. ~restarts' => ~restarts /\ pending'[2] = latest
  BY <1>2
<1>4. TrailTypes'
  BY ReadTypes DEF TrailInv
<1>5. Newest \in Nat /\ (Newest # 0 => Newest \in DOMAIN table) /\ (damages = 0 => table = original)
  BY DEF TrailInv, TrailTypes
<1>6. Newest = 0 => Len(latest) = 0
  BY DEF GenesisHash
<1>7. \A n \in Nat : Genuine(n)' <=> Genuine(n)
  BY <1>1 DEF Genuine, ChainUpTo
<1>9. ChainInv'
  <2>1. SUFFICES ASSUME damages = 0, ~restarts'
                 PROVE  /\ \A n \in 1..Newest : Is(original[n].hash, n)'
                        /\ Is(pending[2], Newest)'
    BY <1>1 DEF ChainInv
  <2>2. \A n \in 1..Newest : Is(original[n].hash, n)
    BY <1>3, <2>1 DEF ChainInv, TrailInv
  <2>3. \A n \in 1..Newest : Is(original[n].hash, n)'
    BY <1>1, <2>2 DEF Is, On
  <2>4. Len(pending'[2]) = Newest /\ \A i \in 1..Newest : pending'[2][i] = original[i].payload
    <3>1. CASE Newest = 0
      BY <1>3, <1>6, <2>1, <3>1
    <3>2. CASE Newest # 0
      <4>1. pending'[2] = original[Newest].hash /\ Newest \in 1..Newest
        BY <1>3, <1>5, <2>1, <3>2
      <4>2. QED
        BY <2>2, <4>1 DEF Is, On
    <3>3. QED
      BY <3>1, <3>2
  <2>5. Is(pending[2], Newest)'
    BY <1>1, <1>5, <2>4 DEF Is, On
  <2>6. QED
    BY <2>3, <2>5
<1>10. UngrownInv'
  BY <1>1, <1>3 DEF UngrownInv, TrailInv
<1>11. OnceDamagedInv'
  <2>1. SUFFICES ASSUME damages = 1, ~restarts'
                 PROVE  /\ \A m \in DOMAIN table : HashFits(m)'
                        /\ \A j \in 0..(Newest - 1) : Is(pending[2], j)' => j > 0 /\ ~Genuine(j)'
    BY <1>1 DEF OnceDamagedInv
  <2>2. \A m \in DOMAIN table : HashFits(m)
    BY <1>3, <2>1 DEF OnceDamagedInv, TrailInv
  <2>3. \A m \in DOMAIN table : HashFits(m)'
    <3>1. ASSUME NEW m \in DOMAIN table
          PROVE  HashFits(m)'
      <4>1. /\ \A n \in 1..Newest : Extends(table[m].hash, n)' <=> Extends(table[m].hash, n)
            /\ Extends(table[m].hash, Newest + 1)' <=> Extends(table[m].hash, Newest + 1)
            /\ \A j \in 0..(m - 1) : Is(table[m].hash, j)' <=> Is(table[m].hash, j)
        BY <1>1 DEF Extends, Is, On
      <4>2. /\ \A n \in 1..Newest : Forks(m, n)' <=> Forks(m, n)
            /\ \A j \in 0..(m - 1) : Genuine(j)' <=> Genuine(j)
        BY <1>1 DEF Forks, Genuine, ChainUpTo
      <4>3. HashFits(m)
        BY <2>2
      <4>4. QED
        BY <1>1, <4>1, <4>2, <4>3 DEF HashFits
    <3>2. QED
      BY <3>1
  <2>4. ASSUME NEW j \in 0..(Newest - 1), Is(pending[2], j)'
        PROVE  j > 0 /\ ~Genuine(j)'
    <3>1. Newest # 0 /\ Newest \in DOMAIN table /\ j \in Nat
      BY <1>5
    <3>2. pending'[2] = table[Newest].hash
      BY <1>3, <2>1, <3>1
    <3>3. Is(table[Newest].hash, j)
      BY <1>1, <2>4, <3>2 DEF Is, On
    <3>4. QED
      BY <1>7, <2>2, <3>1, <3>3 DEF HashFits
  <2>5. QED
    BY <2>3, <2>4
<1>12. FaithfulInv'
  <2>1. Promised' => Promised
    BY <1>1, <1>3 DEF Promised
  <2>2. \A n \in DOMAIN table : FitsAt(n)' <=> FitsAt(n)
    <3>1. \A n : Genuine(n)' <=> Genuine(n)
      BY <1>1 DEF Genuine, ChainUpTo
    <3>2. \A n : Extends(table[n].hash, n)' <=> Extends(table[n].hash, n)
      BY <1>1 DEF Extends, On
    <3>3. QED
      BY <1>1, <3>1, <3>2 DEF FitsAt
  <2>3. FaithfulInv
    BY DEF TrailInv
  <2>4. QED
    BY <1>1, <2>1, <2>2, <2>3 DEF FaithfulInv
<1>13. QED
  BY <1>4, <1>9, <1>10, <1>11, <1>12 DEF TrailInv

\* A step that writes no row, and at most gives the pending one up.
LEMMA OtherStepsKeep ==
    ASSUME TrailInv, TrailTypes', pending' \in {pending, <<>>},
           UNCHANGED <<table, original, restarts, grown, damages>>
    PROVE  TrailInv'
<1>1. Newest' = Newest
  BY DEF Newest
<1>2. /\ \A n : Genuine(n)' <=> Genuine(n)
      /\ \A n : FitsAt(n)' <=> FitsAt(n)
  <2>1. \A n : Genuine(n)' <=> Genuine(n)
    BY DEF Genuine, ChainUpTo
  <2>2. \A n : Extends(table[n].hash, n)' <=> Extends(table[n].hash, n)
    BY DEF Extends, On
  <2>3. QED
    BY <2>1, <2>2 DEF FitsAt
<1>3. ChainInv'
  <2>1. \A n : Is(original[n].hash, n)' <=> Is(original[n].hash, n)
    BY DEF Is, On
  <2>2. pending' # <<>> => (Is(pending[2], Newest)' <=> Is(pending[2], Newest))
    BY <1>1 DEF Is, On
  <2>3. QED
    BY <1>1, <2>1, <2>2 DEF ChainInv, TrailInv
<1>4. UngrownInv'
  BY <1>1 DEF UngrownInv, TrailInv
<1>5. OnceDamagedInv'
  <2>1. ASSUME NEW m \in DOMAIN table, HashFits(m)
        PROVE  HashFits(m)'
    <3>1. /\ \A n \in 1..Newest : Extends(table[m].hash, n)' <=> Extends(table[m].hash, n)
          /\ Extends(table[m].hash, Newest + 1)' <=> Extends(table[m].hash, Newest + 1)
          /\ \A j \in 0..(m - 1) : Is(table[m].hash, j)' <=> Is(table[m].hash, j)
      BY <1>1 DEF Extends, Is, On
    <3>2. \A n \in 1..Newest : Forks(m, n)' <=> Forks(m, n)
      BY <1>2 DEF Forks
    <3>3. QED
      BY <1>1, <1>2, <2>1, <3>1, <3>2 DEF HashFits
  <2>2. \A j : pending' # <<>> => (Is(pending[2], j)' <=> Is(pending[2], j))
    BY DEF Is, On
  <2>3. QED
    BY <1>1, <1>2, <2>1, <2>2 DEF OnceDamagedInv, TrailInv
<1>6. FaithfulInv'
  <2>1. Promised' <=> Promised
    BY DEF Promised
  <2>2. FaithfulInv
    BY DEF TrailInv
  <2>3. QED
    BY <1>2, <2>1, <2>2 DEF FaithfulInv
<1>7. QED
  BY <1>3, <1>4, <1>5, <1>6 DEF TrailInv

LEMMA TrailInit ==
    ASSUME TrailAssumption, Init
    PROVE  TrailInv
<1>1. /\ table = <<>> /\ pending = <<>> /\ appended = 0 /\ original = <<>>
      /\ restarts = FALSE /\ grown = 0 /\ damages = 0
  BY DEF Init
<1>2. DOMAIN table = {} /\ Newest = 0 /\ Spent = 0
  <2>1. DOMAIN table = {}
    BY <1>1
  <2>2. DOMAIN table \cup {0} \in SUBSET Int /\ 0 \in DOMAIN table \cup {0}
        /\ \A k \in DOMAIN table \cup {0} : k <= 0
    BY <2>1
  <2>3. Newest = 0
    BY <2>2, MaxIs DEF Newest
  <2>4. QED
    BY <1>1, <2>1, <2>3 DEF Spent
<1>3. TrailTypes
  <2>1. \A S : <<>> \in [{} -> S]
    OBVIOUS
  <2>2. 1..0 = {}
    OBVIOUS
  <2>3. table \in [DOMAIN table -> Rows(Spent)] /\ original \in [1..Newest -> Rows(Spent)]
    BY <1>1, <1>2, <2>1, <2>2
  <2>4. appended \in Nat /\ damages \in Nat /\ grown \in 0..damages /\ restarts \in BOOLEAN
    <3>1. 0 \in Nat /\ 0 \in 0..0 /\ FALSE \in BOOLEAN
      OBVIOUS
    <3>2. QED
      BY <1>1, <3>1, Zenon
  <2>5. Newest \in Nat /\ Spent \in Nat /\ DOMAIN table \subseteq 1..Newest
        /\ Newest = 0 /\ table = original
    BY <1>1, <1>2
  <2>6. QED
    BY <1>1, <2>3, <2>4, <2>5, Zenon DEF TrailTypes
<1>4. QED
  BY <1>1, <1>2, <1>3 DEF TrailInv, ChainInv, UngrownInv, OnceDamagedInv, FaithfulInv

\* The inductive invariant holds in every reachable state.
THEOREM TrailInvariant == Spec => []TrailInv
<1>1. Init => TrailInv
  BY TrailAssumption, TrailInit
<1>2. TrailInv /\ [Next]_vars => TrailInv'
  <2>1. SUFFICES ASSUME TrailInv, [Next]_vars
                 PROVE  TrailInv'
    OBVIOUS
  <2>2. CASE ReadLatest
    BY <2>1, <2>2, TrailAssumption, ReadKeeps
  <2>3. CASE AppendDecision
    <3>1. /\ TrailTypes'
          /\ \/ AppendsRow
             \/ pending' = <<>> /\ UNCHANGED <<table, original, grown, restarts, damages>>
      BY <2>1, <2>3, AppendTypes DEF TrailInv
    <3>2. CASE AppendsRow
      <4>1. ChainInv' /\ UngrownInv'
        BY <2>1, <3>2, AppendKeepsChain, AppendKeepsUngrown DEF TrailInv
      <4>2. OnceDamagedInv' /\ FaithfulInv'
        BY <2>1, <3>1, <3>2, AppendKeepsOnce, AppendKeepsFaithful DEF TrailInv
      <4>3. QED
        BY <3>1, <4>1, <4>2 DEF TrailInv
    <3>3. CASE pending' = <<>> /\ UNCHANGED <<table, original, grown, restarts, damages>>
      BY <2>1, <3>1, <3>3, OtherStepsKeep
    <3>4. QED
      BY <3>1, <3>2, <3>3
  <2>4. CASE Damage
    <3>1. TrailTypes' /\ DamagesRows
      BY <2>1, <2>4, TrailAssumption, DamageTypes DEF TrailInv
    <3>2. UngrownInv' /\ OnceDamagedInv'
      BY <2>1, <3>1, DamageKeepsUngrown, FirstDamage DEF TrailInv
    <3>3. FaithfulInv'
      BY <2>1, <3>1, <3>2, DamageKeepsFaithful DEF TrailInv
    <3>4. ChainInv'
      <4>1. damages' # 0
        BY <2>1, <3>1 DEF DamagesRows, TrailTypes, TrailInv
      <4>2. QED
        BY <4>1 DEF ChainInv
    <3>5. QED
      BY <3>1, <3>2, <3>3, <3>4 DEF TrailInv
  <2>5. CASE UNCHANGED <<table, pending, appended, original, restarts, grown, damages>>
    <3>1. Newest' = Newest /\ Spent' = Spent
      BY <2>5 DEF Newest, Spent
    <3>2. TrailTypes'
      BY <2>1, <2>5, <3>1 DEF TrailTypes, TrailInv
    <3>3. QED
      BY <2>1, <2>5, <3>2, OtherStepsKeep
  <2>6. CASE FirstPage \/ NextPage
    BY <2>5, <2>6 DEF FirstPage, NextPage
  <2>7. CASE UNCHANGED vars
    BY <2>5, <2>7 DEF vars
  <2>8. QED
    BY <2>1, <2>2, <2>3, <2>4, <2>6, <2>7 DEF Next
<1>3. QED
  BY <1>1, <1>2, PTL DEF Spec

-----------------------------------------------------------------------------
(* The verdict.                                                            *)

LEMMA ChainGrows ==
    ASSUME TrailTypes, NEW n \in 1..Newest
    PROVE  ChainUpTo(n) = Append(ChainUpTo(n - 1), original[n].payload)
<1> DEFINE P == Payloads(Spent)
<1>1. \A i \in 1..Newest : original[i].payload \in P
  BY DEF TrailTypes, Rows
<1>2. Newest \in Nat
  BY DEF TrailTypes
<1> HIDE DEF P
<1>3. ChainUpTo(n - 1) \in Seq(P) /\ Len(ChainUpTo(n - 1)) = n - 1
  BY <1>1, <1>2 DEF ChainUpTo
<1>4. ChainUpTo(n) \in Seq(P) /\ Len(ChainUpTo(n)) = n
  BY <1>1, <1>2 DEF ChainUpTo
<1>5. /\ \A i \in 1..(n - 1) : ChainUpTo(n)[i] = ChainUpTo(n - 1)[i]
      /\ ChainUpTo(n)[n] = original[n].payload
  BY <1>2 DEF ChainUpTo
<1> DEFINE c == ChainUpTo(n - 1)
           d == ChainUpTo(n)
           p == original[n].payload
<1>6. c \in Seq(P) /\ d \in Seq(P) /\ p \in P /\ Len(c) = n - 1 /\ Len(d) = n /\ n \in Nat
      /\ (\A i \in 1..(n - 1) : d[i] = c[i]) /\ d[n] = p
  BY <1>1, <1>2, <1>3, <1>4, <1>5
<1> HIDE DEF c, d, p
<1>7. d = Append(c, p)
  BY <1>6
<1>8. QED
  BY <1>7 DEF c, d, p

\* A row that only genuine rows precede is genuine just if the verifier is content with it.
LEMMA FitsIfGenuine ==
    ASSUME TrailTypes, FaithfulInv, Promised, NEW n \in DOMAIN table,
           \A m \in 1..(n - 1) : Genuine(m)
    PROVE  Genuine(n) <=> RowFits(Cardinality(Before(n)) + 1, n,
                                  IF Before(n) = {} THEN GenesisHash
                                  ELSE table[Max(Before(n))].hash)
<1>1. n \in 1..Newest /\ n \in Nat \ {0} /\ DOMAIN table \subseteq 1..Newest /\ Newest \in Nat
  BY TableHolds
<1>2. Before(n) = 1..(n - 1)
  BY <1>1 DEF Before, Genuine
<1>3. Cardinality(Before(n)) + 1 = n
  <2>1. Cardinality(1..(n - 1)) = n - 1
    BY <1>1, FS_Interval
  <2>2. QED
    BY <1>1, <1>2, <2>1
<1> DEFINE prev == IF Before(n) = {} THEN GenesisHash ELSE table[Max(Before(n))].hash
<1>4. prev = ChainUpTo(n - 1)
  <2>1. CASE n = 1
    BY <1>2, <2>1 DEF GenesisHash, ChainUpTo
  <2>2. CASE n # 1
    <3>1. n - 1 \in 1..(n - 1) /\ 1..(n - 1) \in SUBSET Int /\ \A k \in 1..(n - 1) : k <= n - 1
      BY <1>1, <2>2
    <3>2. Max(1..(n - 1)) = n - 1
      BY <3>1, MaxIs
    <3>3. Genuine(n - 1)
      BY <3>1
    <3>4. QED
      BY <1>2, <3>1, <3>2, <3>3 DEF Genuine
  <2>3. QED
    BY <2>1, <2>2
<1> DEFINE c == ChainUpTo(n - 1)
           canon == ComputeCanonicalPayload(table[n].record)
<1>5. RowFits(Cardinality(Before(n)) + 1, n, prev) <=>
        /\ table[n].prev = c /\ table[n].payload = canon
        /\ table[n].hash = Append(c, canon)
  BY <1>3, <1>4 DEF RowFits, ComputeRowHash
<1>6. ChainUpTo(n) = Append(c, original[n].payload)
  BY <1>1, ChainGrows
<1>7. Genuine(n) => RowFits(Cardinality(Before(n)) + 1, n, prev)
  BY <1>5, <1>6 DEF Genuine
<1>8. ASSUME RowFits(Cardinality(Before(n)) + 1, n, prev)
      PROVE  Genuine(n)
  <2>1. table[n].prev = c /\ table[n].payload = canon /\ table[n].hash = Append(c, canon)
    BY <1>5, <1>8
  <2>2. c \in Hashes(Spent) /\ Len(c) = n - 1 /\ \A i \in 1..(n - 1) : c[i] = original[i].payload
    <3>1. \A i \in 1..Newest : original[i].payload \in Payloads(Spent)
      BY DEF TrailTypes, Rows
    <3>2. c \in Seq(Payloads(Spent))
      BY <1>1, <3>1 DEF ChainUpTo
    <3>3. c \in Hashes(Spent)
      BY <3>2, SeqWiden DEF Hashes
    <3>4. QED
      BY <1>1, <3>3 DEF ChainUpTo
  <2>3. Spent \in Nat
    BY TableHolds
  <2> HIDE DEF c, canon
  <2>4. /\ Len(Append(c, canon)) = Len(c) + 1
        /\ \A i \in 1..Len(c) : Append(c, canon)[i] = c[i]
        /\ Append(c, canon)[Len(c) + 1] = canon
    BY <2>2, <2>3, HashAppended
  <2>5. (n - 1) + 1 = n
    BY <1>1
  <2>6. Extends(table[n].hash, n) /\ table[n].hash[n] = table[n].payload
    BY <1>1, <2>1, <2>2, <2>4, <2>5 DEF Extends, On
  <2>7. table[n].payload = original[n].payload
    BY <2>6 DEF FitsAt, FaithfulInv
  <2>8. QED
    BY <1>6, <2>1, <2>7 DEF Genuine, c, canon
<1>9. QED
  BY <1>7, <1>8

LEMMA VerdictExact ==
    ASSUME TrailTypes, FaithfulInv, Promised
    PROVE  VerifyWorkspace = ExactVerdict
<1> DEFINE D == DOMAIN table
           fits(n) == RowFits(Cardinality(Before(n)) + 1, n,
                              IF Before(n) = {} THEN GenesisHash
                              ELSE table[Max(Before(n))].hash)
           unfit == {n \in D : ~fits(n)}
           bad == {n \in 1..Newest : ~Genuine(n)}
           broken == {n \in D : \E m \in 1..n : ~Genuine(m)}
<1>1. /\ VerifyWorkspace = IF unfit = {} THEN 0 ELSE Min(unfit)
      /\ ExactVerdict = IF \A n \in 1..Newest : Genuine(n) THEN 0 ELSE Min(broken)
  BY DEF VerifyWorkspace, ExactVerdict
<1>2. /\ Newest \in Nat /\ D \subseteq 1..Newest /\ (Newest # 0 => Newest \in D)
      /\ \A n \in D : n \in Nat
  BY DEF TrailTypes
<1>3. \A n \in D : (\A m \in 1..(n - 1) : Genuine(m)) => (Genuine(n) <=> fits(n))
  BY FitsIfGenuine
<1>4. \A n \in D : fits(n) => n = Cardinality(Before(n)) + 1
  BY DEF RowFits
<1> HIDE DEF fits
<1>5. CASE bad = {}
  <2>1. \A n \in 1..Newest : Genuine(n)
    BY <1>5
  <2>2. \A n \in D : fits(n)
    <3>1. \A n \in D : \A m \in 1..(n - 1) : m \in 1..Newest
      BY <1>2
    <3>2. QED
      BY <1>2, <1>3, <2>1, <3>1
  <2>3. QED
    BY <1>1, <2>1, <2>2
<1>6. CASE bad # {}
  <2>1. PICK b \in bad : \A k \in bad : b <= k
    <3>1. bad \in SUBSET Nat
      BY <1>2
    <3>2. QED
      BY <1>6, <3>1, LeastExists
  <2>2. /\ b \in 1..Newest /\ b \in Nat \ {0} /\ ~Genuine(b)
        /\ \A m \in 1..(b - 1) : Genuine(m)
    BY <1>2, <2>1
  <2>3. \A m \in 1..(b - 1) : m \in D
    BY <2>2 DEF Genuine
  <2>4. \A n \in D : n \in broken <=> n >= b
    BY <1>2, <2>2
  <2>5. PICK c \in broken : \A k \in broken : c <= k
    <3>1. broken \in SUBSET Nat
      BY <1>2
    <3>2. Newest \in broken
      BY <1>2, <2>2, <2>4
    <3>3. QED
      BY <3>1, <3>2, LeastExists
  <2>6. c \in D /\ c \in Nat /\ c >= b
    BY <1>2, <2>4, <2>5
  <2>7. \A k \in unfit : c <= k
    <3>1. SUFFICES ASSUME NEW k \in D, ~fits(k)
                   PROVE  c <= k
      OBVIOUS
    <3>2. k >= b
      <4>1. SUFFICES ASSUME k < b PROVE FALSE
        BY <1>2, <2>2
      <4>2. k \in 1..(b - 1) /\ \A m \in 1..(k - 1) : m \in 1..(b - 1)
        BY <1>2, <2>2, <4>1
      <4>3. QED
        BY <1>3, <2>2, <3>1, <4>2
    <3>3. QED
      BY <2>4, <2>5, <3>2
  <2>8. ~fits(c)
    <3>1. CASE c = b
      BY <1>3, <2>2, <2>6, <3>1
    <3>2. CASE c # b
      <4>1. b \notin D
        BY <2>2, <2>4, <2>5, <2>6, <3>2
      <4>2. Before(c) = 1..(b - 1)
        <5>1. \A k \in D : k < c => k < b
          BY <1>2, <2>2, <2>4, <2>5, <2>6
        <5>2. \A k \in 1..(b - 1) : k \in D /\ k < c
          BY <2>2, <2>3, <2>6
        <5>3. \A k \in D : k < b => k \in 1..(b - 1)
          BY <1>2, <2>2
        <5>4. QED
          BY <5>1, <5>2, <5>3 DEF Before
      <4>3. Cardinality(1..(b - 1)) = b - 1
        BY <2>2, FS_Interval
      <4>4. Cardinality(Before(c)) + 1 = b
        BY <2>2, <4>2, <4>3
      <4>5. QED
        BY <1>4, <2>6, <3>2, <4>4
    <3>3. QED
      BY <3>1, <3>2
  <2>9. Min(unfit) = c /\ Min(broken) = c
    <3>1. unfit \in SUBSET Int /\ broken \in SUBSET Int /\ c \in unfit
      BY <1>2, <2>6, <2>8
    <3>2. QED
      BY <2>5, <2>7, <3>1, MinIs
  <2>10. unfit # {} /\ ~(\A n \in 1..Newest : Genuine(n))
    BY <2>2, <2>6, <2>8
  <2>11. QED
    BY <1>1, <2>9, <2>10
<1>7. QED
  BY <1>5, <1>6

\* verify-audit reports the chain valid just if every row is there and as it was
\* appended, and otherwise names the first row that is not, for any number of rows and
\* of damages: unless a read of the newest row failed before something was damaged, or
\* something was damaged again after a row was appended to a damaged table, and not even
\* then while there were but two damages.
THEOREM VerdictsAreExact == Spec => []VerdictIsExact
<1>1. TrailInv => VerdictIsExact
  BY VerdictExact DEF TrailInv, VerdictIsExact, Promised
<1>2. QED
  BY <1>1, TrailInvariant, PTL

-----------------------------------------------------------------------------
(* Pages.                                                                  *)

LEMMA MinOfTwo ==
    ASSUME NEW a \in Int, NEW b \in Int
    PROVE  Min({a, b}) = IF a <= b THEN a ELSE b
<1>1. {a, b} \in SUBSET Int
  OBVIOUS
<1>2. CASE a <= b
  <2>1. a \in {a, b} /\ \A k \in {a, b} : a <= k
    BY <1>2
  <2>2. QED
    BY <1>1, <1>2, <2>1, MinIs
<1>3. CASE ~(a <= b)
  <2>1. b \in {a, b} /\ \A k \in {a, b} : b <= k
    BY <1>3
  <2>2. QED
    BY <1>1, <1>3, <2>1, MinIs
<1>4. QED
  BY <1>2, <1>3

\* How many rows of S there are from the newest down to n.
Rank(S, n) == Cardinality({m \in S : n <= m})

LEMMA RankOrder ==
    ASSUME NEW S \in SUBSET Nat, IsFiniteSet(S), NEW n \in S, NEW k \in S
    PROVE  /\ Rank(S, n) \in 1..Cardinality(S)
           /\ n < k <=> Rank(S, n) > Rank(S, k)
           /\ n = k <=> Rank(S, n) = Rank(S, k)
<1> DEFINE From(i) == {m \in S : i <= m}
<1>1. \A i : IsFiniteSet(From(i)) /\ Cardinality(From(i)) \in Nat /\ Cardinality(From(i)) <= Cardinality(S)
  <2>1. \A i : From(i) \in SUBSET S
    OBVIOUS
  <2> HIDE DEF From
  <2>2. \A i : IsFiniteSet(From(i)) /\ Cardinality(From(i)) <= Cardinality(S)
    BY <2>1, FS_Subset
  <2>3. QED
    BY <2>2, FS_CardinalityType
<1>2. Cardinality(S) \in Nat
  BY FS_CardinalityType
<1>3. \A i \in S : Cardinality(From(i)) # 0
  <2>1. \A i \in S : i \in From(i)
    OBVIOUS
  <2> HIDE DEF From
  <2>2. \A i \in S : From(i) # {}
    BY <2>1
  <2>3. QED
    BY <1>1, <2>2, FS_EmptySet
<1>4. \A i, j \in S : i < j => Cardinality(From(j)) < Cardinality(From(i))
  <2>1. SUFFICES ASSUME NEW i \in S, NEW j \in S, i < j
                 PROVE  Cardinality(From(j)) < Cardinality(From(i))
    OBVIOUS
  <2>2. From(j) \in SUBSET From(i) /\ i \in From(i) /\ i \notin From(j)
    <3>1. i \in Nat /\ j \in Nat /\ \A m \in S : m \in Nat
      OBVIOUS
    <3>2. ~(j <= i) /\ i <= i /\ \A m \in S : j <= m => i <= m
      BY <2>1, <3>1
    <3>3. QED
      BY <3>2
  <2> HIDE DEF From
  <2>3. /\ Cardinality(From(j)) <= Cardinality(From(i))
        /\ Cardinality(From(i)) = Cardinality(From(j)) => From(i) = From(j)
    BY <1>1, <2>2, FS_Subset
  <2>4. QED
    BY <1>1, <2>2, <2>3
<1>5. \A i : Rank(S, i) = Cardinality(From(i))
  BY DEF Rank
<1>6. n \in Nat /\ k \in Nat
  OBVIOUS
<1> HIDE DEF From
<1>7. QED
  BY <1>1, <1>2, <1>3, <1>4, <1>5, <1>6

LEMMA NthNewestIs ==
    ASSUME NEW S \in SUBSET Nat, IsFiniteSet(S), NEW i \in 1..Cardinality(S)
    PROVE  NthNewest(S, i) \in S /\ Rank(S, NthNewest(S, i)) = i
<1> DEFINE r == [n \in S |-> Rank(S, n)]
           I == 1..Cardinality(S)
<1>1. Cardinality(S) \in Nat
  BY FS_CardinalityType
<1>2. r \in Injection(S, I)
  <2>1. \A n \in S : Rank(S, n) \in I
    BY RankOrder
  <2>2. \A n, k \in S : Rank(S, n) = Rank(S, k) => n = k
    BY RankOrder
  <2>3. QED
    BY <2>1, <2>2 DEF Injection, IsInjective
<1>3. IsFiniteSet(I) /\ Cardinality(I) = Cardinality(S)
  BY <1>1, FS_Interval
<1>4. r \in Surjection(S, I)
  BY <1>2, <1>3, FS_Injection
<1>5. \E n \in S : Rank(S, n) = i
  BY <1>4 DEF Surjection
<1>6. \E n \in S : Cardinality({m \in S : n <= m}) = i
  BY <1>5 DEF Rank
<1>7. NthNewest(S, i) \in S /\ Cardinality({m \in S : NthNewest(S, i) <= m}) = i
  BY <1>6 DEF NthNewest
<1>8. QED
  BY <1>7 DEF Rank

\* A page has the newest rows in order and leaves none out down to its last one; only
\* where there are no rows is it empty.
LEMMA PageHolds ==
    ASSUME NEW S \in SUBSET Nat, IsFiniteSet(S), NEW limit \in Nat \ {0}
    PROVE  LET p == Page(S, limit)
           IN  /\ p \in Seq(S)
               /\ p = <<>> <=> S = {}
               /\ \A i, j \in 1..Len(p) : i < j => p[i] > p[j]
               /\ p # <<>> => \A n \in S : n >= p[Len(p)] => \E i \in 1..Len(p) : p[i] = n
<1> DEFINE C == Cardinality(S)
           k == Min({limit, C})
           p == Page(S, limit)
<1>1. C \in Nat /\ (C = 0 <=> S = {})
  BY FS_CardinalityType, FS_EmptySet
<1>2. k \in 0..C /\ (k = 0 <=> C = 0)
  <2>1. k = IF limit <= C THEN limit ELSE C
    BY <1>1, MinOfTwo
  <2>2. QED
    BY <1>1, <2>1
<1>3. \A i \in 1..C : NthNewest(S, i) \in S /\ Rank(S, NthNewest(S, i)) = i
  BY NthNewestIs
<1>4. p = [i \in 1..k |-> NthNewest(S, i)]
  BY DEF Page
<1>5. \A n, m \in S : n < m <=> Rank(S, n) > Rank(S, m)
  BY RankOrder
<1>6. \A n, m \in S : Rank(S, n) = Rank(S, m) => n = m
  BY RankOrder
<1>7. \A n \in S : Rank(S, n) \in 1..C
  BY RankOrder
<1> HIDE DEF k, C, p
<1>8. \A i \in 1..k : NthNewest(S, i) \in S /\ Rank(S, NthNewest(S, i)) = i
  BY <1>1, <1>2, <1>3
<1>9. p \in Seq(S) /\ Len(p) = k /\ \A i \in 1..k : p[i] = NthNewest(S, i)
  BY <1>1, <1>2, <1>4, <1>8
<1>10. p = <<>> <=> S = {}
  BY <1>1, <1>2, <1>9
<1>11. ASSUME NEW i \in 1..k, NEW j \in 1..k, i < j
       PROVE  p[i] > p[j]
  <2>1. p[i] \in S /\ p[j] \in S /\ Rank(S, p[i]) = i /\ Rank(S, p[j]) = j
    BY <1>8, <1>9
  <2>2. p[j] < p[i]
    BY <1>2, <1>5, <1>11, <2>1
  <2>3. QED
    BY <2>1, <2>2
<1>12. ASSUME p # <<>>, NEW n \in S, n >= p[k]
       PROVE  \E i \in 1..k : p[i] = n
  <2>1. k \in 1..k
    BY <1>1, <1>2, <1>10, <1>12
  <2>2. p[k] \in S /\ Rank(S, p[k]) = k
    BY <1>8, <1>9, <2>1
  <2>3. Rank(S, n) \in 1..C /\ ~(Rank(S, n) > k)
    <3>1. \A a, b \in S : a >= b => ~(a < b)
      OBVIOUS
    <3>2. ~(n < p[k])
      BY <1>12, <2>2, <3>1, Zenon
    <3>3. QED
      BY <1>5, <1>7, <2>2, <3>2
  <2>4. Rank(S, n) \in 1..k
    BY <1>1, <1>2, <2>3
  <2>5. p[Rank(S, n)] \in S /\ Rank(S, p[Rank(S, n)]) = Rank(S, n)
    BY <1>8, <1>9, <2>4
  <2>6. p[Rank(S, n)] = n
    BY <1>6, <2>5
  <2>7. QED
    BY <2>4, <2>6
<1>13. QED
  BY <1>9, <1>10, <1>11, <1>12 DEF p

LEMMA LimitIsPositive ==
    ASSUME TrailAssumption, NEW asked \in Asked, ~Refused(asked)
    PROVE  Limit(asked) \in Nat \ {0}
<1>1. CASE asked = NotGiven
  BY <1>1 DEF TrailAssumption, Limit
<1>2. CASE asked # NotGiven
  <2>1. asked \in Int /\ asked > 0 /\ MaxLimit \in Int /\ MaxLimit > 0
    BY <1>2 DEF TrailAssumption, Refused
  <2>2. Min({asked, MaxLimit}) = IF asked <= MaxLimit THEN asked ELSE MaxLimit
    BY <2>1, MinOfTwo
  <2>3. QED
    BY <1>2, <2>1, <2>2 DEF Limit
<1>3. QED
  BY <1>1, <1>2

Descends(s) == \A i, j \in 1..Len(s) : i < j => s[i][1] > s[j][1]
Numbers(s) == {s[i][1] : i \in 1..Len(s)}
Between(D, a, b) == {n \in D : a <= n /\ n <= b}

\* The next page after what was seen down to row c.
Joins(D, R, c, seen, new) ==
    /\ D \in SUBSET Nat /\ c \in Nat
    /\ seen \in Seq(Nat \X R) /\ Descends(seen) /\ (seen # <<>> => c = seen[Len(seen)][1])
    /\ new \in Seq(D \X R) /\ Descends(new) /\ new # <<>>
    /\ \A i \in 1..Len(new) : seen # <<>> => new[i][1] < c

Joined(D, R, c, seen, new) ==
    LET all == seen \o new
        last == new[Len(new)][1]
    IN  /\ all \in Seq(Nat \X R) /\ all # <<>> /\ all[Len(all)][1] = last
        /\ Descends(all)
        /\ \A i \in 1..Len(all) : \/ i \in 1..Len(seen) /\ all[i] = seen[i]
                                  \/ \E j \in 1..Len(new) : all[i] = new[j]
        /\ (\A n \in D : (seen = <<>> \/ n < c) /\ n >= last => n \in Numbers(new))
             /\ (seen # <<>> => Between(D, c, seen[1][1]) = Numbers(seen))
             => Between(D, last, all[1][1]) = Numbers(all)

\* Together they descend, and leave nothing out if neither of them does.
LEMMA PagesJoin ==
    ASSUME NEW D, NEW R, NEW c, NEW seen, NEW new, Joins(D, R, c, seen, new)
    PROVE  Joined(D, R, c, seen, new)
<1>0. /\ D \in SUBSET Nat /\ c \in Nat
      /\ seen \in Seq(Nat \X R) /\ Descends(seen) /\ (seen # <<>> => c = seen[Len(seen)][1])
      /\ new \in Seq(D \X R) /\ Descends(new) /\ new # <<>>
      /\ \A i \in 1..Len(new) : seen # <<>> => new[i][1] < c
  BY DEF Joins
<1> DEFINE all == seen \o new
           S == Len(seen)
           N == Len(new)
           last == new[N][1]
<1>1. /\ S \in Nat /\ N \in Nat \ {0} /\ (seen = <<>> <=> S = 0)
      /\ \A i \in 1..S : seen[i] \in Nat \X R
      /\ \A i \in 1..N : new[i] \in D \X R
  BY <1>0
<1>2. new \in Seq(Nat \X R)
  BY <1>0, SeqWiden
<1>3. all \in Seq(Nat \X R) /\ Len(all) = S + N
  BY <1>0, <1>2
<1>4. \A i \in 1..(S + N) : all[i] = IF i <= S THEN seen[i] ELSE new[i - S]
  BY <1>0, <1>1, <1>2
<1>5. (\A i \in 1..S : all[i] = seen[i]) /\ \A i \in 1..N : all[S + i] = new[i]
  BY <1>1, <1>4
<1>6. \A i \in 1..(S + N) : i \in 1..S \/ \E j \in 1..N : i = S + j
  <2>1. SUFFICES ASSUME NEW i \in 1..(S + N), i \notin 1..S
                 PROVE  i - S \in 1..N /\ i = S + (i - S)
    OBVIOUS
  <2>2. QED
    BY <1>1, <2>1
<1>7. \A i \in 1..N : new[i][1] \in D /\ new[i][1] \in Nat
  BY <1>0, <1>1
<1>8. \A i \in 1..S : seen[i][1] \in Nat /\ seen[i][1] >= c
  <2>1. SUFFICES ASSUME NEW i \in 1..S
                 PROVE  seen[i][1] \in Nat /\ seen[i][1] >= c
    OBVIOUS
  <2>2. S \in 1..S /\ c = seen[S][1] /\ seen[i][1] \in Nat
    BY <1>0, <1>1, <2>1
  <2>3. CASE i = S
    BY <2>2, <2>3
  <2>4. CASE i # S
    <3>1. i < S
      BY <1>1, <2>4
    <3>2. seen[i][1] > seen[S][1]
      BY <1>0, <2>2, <3>1 DEF Descends
    <3>3. seen[i][1] > c
      BY <2>2, <3>2
    <3>4. QED
      BY <1>0, <2>2, <3>3
  <2>5. QED
    BY <2>3, <2>4
<1>9. \A i \in 1..N : new[i][1] >= last /\ new[1][1] >= new[i][1]
  <2>1. SUFFICES ASSUME NEW i \in 1..N
                 PROVE  new[i][1] >= last /\ new[1][1] >= new[i][1]
    OBVIOUS
  <2>2. 1 \in 1..N /\ N \in 1..N /\ (i = 1 \/ 1 < i) /\ (i = N \/ i < N)
    BY <1>1
  <2>3. (1 < i => new[1][1] > new[i][1]) /\ (i < N => new[i][1] > new[N][1])
    BY <1>0, <2>2 DEF Descends
  <2>4. new[1][1] \in Nat /\ new[i][1] \in Nat /\ new[N][1] \in Nat
    BY <1>7, <2>2
  <2>5. QED
    BY <2>2, <2>3, <2>4
<1>10. \A i \in 1..S, j \in 1..N : seen[i][1] > new[j][1]
  <2>1. SUFFICES ASSUME NEW i \in 1..S, NEW j \in 1..N
                 PROVE  seen[i][1] > new[j][1]
    OBVIOUS
  <2>2. new[j][1] < c
    BY <1>0, <1>1, <2>1
  <2>3. QED
    BY <1>0, <1>7, <1>8, <2>2
<1> HIDE DEF all, S, N
<1>11. Descends(all)
  <2>1. SUFFICES ASSUME NEW i \in 1..(S + N), NEW j \in 1..(S + N), i < j
                 PROVE  all[i][1] > all[j][1]
    BY <1>3 DEF Descends
  <2>2. CASE i \in 1..S /\ j \in 1..S
    BY <1>0, <1>5, <2>1, <2>2 DEF Descends, S
  <2>3. CASE i \in 1..S /\ j \notin 1..S
    BY <1>5, <1>6, <1>10, <2>3
  <2>4. CASE i \notin 1..S
    <3>1. PICK k \in 1..N : i = S + k
      BY <1>6, <2>4
    <3>2. j \notin 1..S
      BY <1>1, <2>1, <3>1
    <3>3. PICK l \in 1..N : j = S + l
      BY <1>6, <3>2
    <3>4. k < l
      BY <1>1, <2>1, <3>1, <3>3
    <3>5. new[k][1] > new[l][1]
      BY <1>0, <3>4 DEF Descends, N
    <3>6. QED
      BY <1>5, <3>1, <3>3, <3>5
  <2>5. QED
    BY <2>2, <2>3, <2>4
<1>12. all # <<>> /\ all[Len(all)][1] = last /\ N \in 1..N
  <2>1. N \in 1..N
    BY <1>1
  <2>2. all[S + N] = new[N]
    BY <1>5, <2>1
  <2>3. QED
    BY <1>1, <1>3, <2>1, <2>2
<1>13. Numbers(all) = Numbers(seen) \cup Numbers(new)
  <2>0. /\ Numbers(seen) = {seen[i][1] : i \in 1..S}
        /\ Numbers(new) = {new[i][1] : i \in 1..N}
        /\ Numbers(all) = {all[i][1] : i \in 1..(S + N)}
    BY <1>3 DEF Numbers, S, N
  <2>1. \A i \in 1..(S + N) : all[i][1] \in Numbers(seen) \cup Numbers(new)
    <3>1. SUFFICES ASSUME NEW i \in 1..(S + N)
                   PROVE  all[i][1] \in Numbers(seen) \cup Numbers(new)
      OBVIOUS
    <3>2. (i \in 1..S /\ all[i] = seen[i]) \/ \E j \in 1..N : all[i] = new[j]
      BY <1>5, <1>6
    <3>3. QED
      BY <2>0, <3>2
  <2>2. \A i \in 1..S : i \in 1..(S + N) /\ seen[i][1] = all[i][1]
    <3>1. \A i \in 1..S : i \in 1..(S + N)
      BY <1>1
    <3>2. QED
      BY <1>5, <3>1
  <2>3. \A i \in 1..N : S + i \in 1..(S + N) /\ new[i][1] = all[S + i][1]
    <3>1. \A i \in 1..N : S + i \in 1..(S + N)
      BY <1>1
    <3>2. QED
      BY <1>5, <3>1
  <2>4. \A x \in Numbers(all) : x \in Numbers(seen) \cup Numbers(new)
    BY <2>0, <2>1
  <2>5. \A x \in Numbers(seen) : x \in Numbers(all)
    BY <2>0, <2>2
  <2>6. \A x \in Numbers(new) : x \in Numbers(all)
    BY <2>0, <2>3
  <2>7. QED
    BY <2>4, <2>5, <2>6
<1>14. ASSUME \A n \in D : (seen = <<>> \/ n < c) /\ n >= last => n \in Numbers(new),
              seen # <<>> => Between(D, c, seen[1][1]) = Numbers(seen)
       PROVE  Between(D, last, all[1][1]) = Numbers(all)
  <2>1. last \in Nat /\ Numbers(new) \subseteq D /\ \A n \in Numbers(new) : n >= last
    BY <1>0, <1>7, <1>9, <1>12 DEF Numbers, N
  <2>2. CASE S = 0
    <3>1. Numbers(seen) = {}
      BY <2>2 DEF Numbers, S
    <3>2. all[1] = new[1] /\ 1 \in 1..N
      <4>1. 1 \in 1..N /\ S + 1 = 1
        BY <1>0, <1>1, <2>2
      <4>2. QED
        BY <1>5, <4>1
    <3>3. \A n \in Numbers(new) : all[1][1] >= n
      BY <1>9, <3>2 DEF Numbers, N
    <3>4. \A n \in D : n >= last => n \in Numbers(new)
      BY <1>0, <1>1, <1>14, <2>2
    <3>5. all[1][1] \in Nat
      BY <1>0, <1>7, <3>2
    <3>6. Between(D, last, all[1][1]) = Numbers(new)
      <4>1. \A n \in Numbers(new) : n \in D /\ n \in Nat /\ last <= n /\ n <= all[1][1]
        <5>1. \A n \in Numbers(new) : n \in D /\ n \in Nat
          BY <1>0, <2>1
        <5>2. QED
          BY <2>1, <3>3, <3>5, <5>1
      <4>2. \A n \in D : last <= n => n \in Numbers(new)
        BY <1>0, <2>1, <3>4
      <4>3. QED
        BY <4>1, <4>2 DEF Between
    <3>7. QED
      BY <1>13, <3>1, <3>6
  <2>3. CASE S # 0
    <3>1. all[1] = seen[1] /\ 1 \in 1..S /\ seen # <<>>
      BY <1>0, <1>1, <1>5, <2>3
    <3>2. Between(D, c, seen[1][1]) = Numbers(seen)
      BY <1>14, <3>1
    <3>3. last < c /\ c <= seen[1][1] /\ seen[1][1] \in Nat
      BY <1>0, <1>1, <1>8, <1>12, <3>1 DEF N
    <3>4. \A n \in D : last <= n /\ n <= seen[1][1] => n \in Numbers(seen) \cup Numbers(new)
      <4>1. SUFFICES ASSUME NEW n \in D, last <= n, n <= seen[1][1]
                     PROVE  n \in Numbers(seen) \cup Numbers(new)
        OBVIOUS
      <4>2. CASE n < c
        BY <1>14, <2>1, <4>1, <4>2
      <4>3. CASE ~(n < c)
        <5>1. c <= n
          BY <1>0, <4>3
        <5>2. n \in Between(D, c, seen[1][1])
          BY <4>1, <5>1 DEF Between
        <5>3. QED
          BY <3>2, <5>2
      <4>4. QED
        BY <4>2, <4>3
    <3>5. \A n \in Numbers(seen) : n \in D /\ last <= n /\ n <= seen[1][1]
      <4>1. \A n \in Between(D, c, seen[1][1]) : n \in D /\ c <= n /\ n <= seen[1][1]
        BY DEF Between
      <4>2. \A n \in D : c <= n => last <= n
        BY <1>0, <2>1, <3>3
      <4>3. QED
        BY <3>2, <4>1, <4>2
    <3>6. \A n \in Numbers(new) : n \in D /\ last <= n /\ n <= seen[1][1]
      <4>1. \A n \in Numbers(new) : n \in Nat /\ n < c
        BY <1>0, <1>1, <1>7, <3>1 DEF Numbers, N
      <4>2. QED
        BY <1>0, <2>1, <3>3, <4>1
    <3>7. Between(D, last, seen[1][1]) = Numbers(seen) \cup Numbers(new)
      BY <3>4, <3>5, <3>6 DEF Between
    <3>8. QED
      BY <1>13, <3>1, <3>7
  <2>4. QED
    BY <2>2, <2>3
<1>15. \A i \in 1..Len(all) : \/ i \in 1..S /\ all[i] = seen[i]
                              \/ \E j \in 1..N : all[i] = new[j]
  <2>1. SUFFICES ASSUME NEW i \in 1..(S + N)
                 PROVE  (i \in 1..S /\ all[i] = seen[i]) \/ \E j \in 1..N : all[i] = new[j]
    BY <1>3
  <2>2. QED
    BY <1>5, <1>6
<1>16. QED
  <2>1. all[Len(all)][1] = last /\ last = new[N][1]
    BY <1>12
  <2>2. QED
    BY <1>3, <1>11, <1>12, <1>14, <1>15, <2>1, Zenon DEF Joined, all, S, N

\* Between its pages the reader holds what it saw, in order, and where to go on.
ReaderInv ==
    /\ reader = [open |-> reader.open, cursor |-> reader.cursor, seen |-> reader.seen]
    /\ reader.open \in BOOLEAN
    /\ \E R : reader.seen \in Seq(Nat \X R)
    /\ ~reader.open => reader.cursor = 0
    /\ reader.open => /\ reader.seen # <<>>
                      /\ reader.cursor = reader.seen[Len(reader.seen)][1]
    /\ PagesAreWhole

\* PagesAreWhole, with the sequence's length for its domain.
LEMMA PagesAre ==
    ASSUME NEW R, reader.seen \in Seq(Nat \X R)
    PROVE  PagesAreWhole <=>
             /\ Descends(reader.seen)
             /\ damages = 0 /\ reader.seen # <<>> =>
                  /\ Between(DOMAIN table, reader.cursor, reader.seen[1][1]) = Numbers(reader.seen)
                  /\ \A i \in 1..Len(reader.seen) : table[reader.seen[i][1]] = reader.seen[i][2]
<1>1. DOMAIN reader.seen = 1..Len(reader.seen)
  OBVIOUS
<1>2. PagesAreWhole <=>
        /\ \A i, j \in DOMAIN reader.seen : i < j => reader.seen[i][1] > reader.seen[j][1]
        /\ damages = 0 /\ reader.seen # <<>> =>
             /\ {n \in DOMAIN table : reader.cursor <= n /\ n <= reader.seen[1][1]}
                  = {reader.seen[i][1] : i \in DOMAIN reader.seen}
             /\ \A i \in DOMAIN reader.seen : table[reader.seen[i][1]] = reader.seen[i][2]
  BY DEF PagesAreWhole
<1>3. QED
  BY <1>1, <1>2, Zenon DEF Descends, Between, Numbers

LEMMA ReadPage ==
    ASSUME TrailTypes, ReaderInv, NEW limit \in Nat \ {0},
           reader = Closed \/ reader.open,
           NEW S, S = {n \in DOMAIN table : reader.seen = <<>> \/ n < reader.cursor},
           Read(Page(S, limit)), UNCHANGED <<table, damages>>
    PROVE  ReaderInv'
<1> DEFINE D == DOMAIN table
           page == Page(S, limit)
           seen == reader.seen
           c == reader.cursor
<1>1. D \in SUBSET Nat /\ S \in SUBSET Nat /\ IsFiniteSet(S) /\ S \subseteq D
  <2>1. Newest \in Nat /\ D \subseteq 1..Newest
    BY TableHolds
  <2>2. IsFiniteSet(1..Newest) /\ S \in SUBSET (1..Newest)
    BY <2>1, FS_Interval
  <2>3. IsFiniteSet(S)
    BY <2>2, FS_Subset
  <2>4. QED
    BY <2>1, <2>3
<1>2. /\ page \in Seq(S) /\ (page = <<>> <=> S = {})
      /\ \A i, j \in 1..Len(page) : i < j => page[i] > page[j]
      /\ page # <<>> => \A n \in S : n >= page[Len(page)] => \E i \in 1..Len(page) : page[i] = n
  <2>1. S \in SUBSET Nat /\ IsFiniteSet(S) /\ limit \in Nat \ {0}
    BY <1>1
  <2> HIDE DEF D
  <2>2. QED
    BY <2>1, PageHolds
<1>3. PICK R0 : seen \in Seq(Nat \X R0)
  BY DEF ReaderInv
<1> DEFINE R == R0 \cup {table[n] : n \in D}
<1>4. seen \in Seq(Nat \X R)
  BY <1>3, SeqWiden
<1>5. /\ Descends(seen)
      /\ damages = 0 /\ seen # <<>> =>
           /\ Between(D, c, seen[1][1]) = Numbers(seen)
           /\ \A i \in 1..Len(seen) : table[seen[i][1]] = seen[i][2]
  BY <1>4, PagesAre DEF ReaderInv
<1>6. seen # <<>> => c = seen[Len(seen)][1]
  BY DEF ReaderInv, Closed
<1>7. c \in Nat
  <2>1. CASE seen = <<>>
    BY <2>1 DEF ReaderInv
  <2>2. CASE seen # <<>>
    <3>1. seen[Len(seen)] \in Nat \X R
      BY <1>4, <2>2
    <3>2. QED
      BY <1>6, <2>2, <3>1
  <2>3. QED
    BY <2>1, <2>2
<1>8. CASE page = <<>>
  <2>1. reader' = [open |-> FALSE, cursor |-> 0, seen |-> seen]
    BY <1>8 DEF Read, ReaderInv
  <2>2. seen # <<>> => \A n \in D : ~(n < c)
    BY <1>2, <1>8
  <2>3. seen # <<>> => Between(D, 0, seen[1][1]) = Between(D, c, seen[1][1])
    <3>1. SUFFICES ASSUME seen # <<>>, NEW n \in D
                   PROVE  0 <= n <=> c <= n
      BY DEF Between
    <3>2. QED
      BY <1>1, <1>7, <2>2, <3>1
  <2>4. /\ reader'.open = FALSE /\ reader'.cursor = 0 /\ reader'.seen = seen
        /\ reader'.seen \in Seq(Nat \X R)
    BY <1>4, <2>1
  <2>5. PagesAreWhole'
    <3>1. /\ Descends(reader'.seen)
          /\ damages' = 0 /\ reader'.seen # <<>> =>
               /\ Between(DOMAIN table', reader'.cursor, reader'.seen[1][1]) = Numbers(reader'.seen)
               /\ \A i \in 1..Len(reader'.seen) : table'[reader'.seen[i][1]] = reader'.seen[i][2]
      BY <1>5, <2>3, <2>4, Zenon
    <3>2. DOMAIN reader'.seen = 1..Len(reader'.seen)
      BY <2>4
    <3>3. QED
      BY <3>1, <3>2, Zenon DEF PagesAreWhole, Descends, Between, Numbers
  <2>6. QED
    BY <2>1, <2>4, <2>5 DEF ReaderInv
<1>9. CASE page # <<>>
  <2>0. reader' = [open |-> TRUE, cursor |-> Last(page),
                   seen |-> seen \o [i \in DOMAIN page |-> <<page[i], table[page[i]]>>]]
    BY <1>9 DEF Read, ReaderInv
  <2> HIDE DEF page, R
  <2> DEFINE new == [i \in DOMAIN page |-> <<page[i], table[page[i]]>>]
             all == seen \o new
  <2>1. reader' = [open |-> TRUE, cursor |-> Last(page), seen |-> all]
    BY <2>0
  <2>2. /\ DOMAIN page = 1..Len(page) /\ Len(page) \in Nat \ {0}
        /\ \A i \in 1..Len(page) : page[i] \in S /\ page[i] \in D
    BY <1>1, <1>2, <1>9
  <2>3. /\ new \in Seq(D \X R) /\ Len(new) = Len(page) /\ new # <<>>
        /\ \A i \in 1..Len(page) : new[i] = <<page[i], table[page[i]]>>
    <3>1. \A i \in 1..Len(page) : table[page[i]] \in R
      BY <2>2 DEF R
    <3>2. QED
      BY <2>2, <3>1
  <2> HIDE DEF new
  <2>4. Descends(new)
    BY <1>2, <2>3 DEF Descends
  <2>5. \A i \in 1..Len(new) : seen # <<>> => new[i][1] < c
    BY <2>2, <2>3
  <2>6. Last(page) = new[Len(new)][1]
    BY <2>2, <2>3 DEF Last
  <2> DEFINE last == new[Len(new)][1]
  <2>7. /\ all \in Seq(Nat \X R) /\ all # <<>> /\ all[Len(all)][1] = last
        /\ Descends(all)
        /\ \A i \in 1..Len(all) : \/ i \in 1..Len(seen) /\ all[i] = seen[i]
                                  \/ \E j \in 1..Len(new) : all[i] = new[j]
        /\ (\A n \in D : (seen = <<>> \/ n < c) /\ n >= last => n \in Numbers(new))
             /\ (seen # <<>> => Between(D, c, seen[1][1]) = Numbers(seen))
             => Between(D, last, all[1][1]) = Numbers(all)
    <3>1. Joins(D, R, c, seen, new)
      <4> HIDE DEF D, seen, c
      <4>1. QED
        BY <1>1, <1>4, <1>5, <1>6, <1>7, <2>3, <2>4, <2>5 DEF Joins
    <3> HIDE DEF D, seen, c
    <3>2. Joined(D, R, c, seen, new)
      BY <3>1, PagesJoin, Zenon
    <3>3. QED
      BY <3>2, Zenon DEF Joined
  <2>8. \A n \in D : (seen = <<>> \/ n < c) /\ n >= last => n \in Numbers(new)
    <3>1. SUFFICES ASSUME NEW n \in D, seen = <<>> \/ n < c, n >= last
                   PROVE  n \in Numbers(new)
      OBVIOUS
    <3>2. n \in S /\ last = page[Len(page)]
      BY <2>2, <2>3, <3>1
    <3>3. PICK i \in 1..Len(page) : page[i] = n
      BY <1>2, <1>9, <3>1, <3>2
    <3>4. new[i][1] = n /\ i \in 1..Len(new)
      BY <2>3, <3>3
    <3>5. QED
      BY <3>4 DEF Numbers
  <2>9. ASSUME damages = 0
        PROVE  /\ Between(D, last, all[1][1]) = Numbers(all)
               /\ \A i \in 1..Len(all) : table[all[i][1]] = all[i][2]
    <3>1. \A i \in 1..Len(new) : table[new[i][1]] = new[i][2]
      BY <2>3
    <3>2. \A i \in 1..Len(seen) : table[seen[i][1]] = seen[i][2]
      <4>1. CASE seen = <<>>
        BY <4>1
      <4>2. CASE seen # <<>>
        BY <1>5, <2>9, <4>2
      <4>3. QED
        BY <4>1, <4>2
    <3>3. \A i \in 1..Len(all) : table[all[i][1]] = all[i][2]
      <4>1. SUFFICES ASSUME NEW i \in 1..Len(all)
                     PROVE  table[all[i][1]] = all[i][2]
        OBVIOUS
      <4>2. (i \in 1..Len(seen) /\ all[i] = seen[i]) \/ \E j \in 1..Len(new) : all[i] = new[j]
        BY <2>7
      <4> HIDE DEF all, seen
      <4>3. QED
        BY <3>1, <3>2, <4>2
    <3>4. QED
      BY <1>5, <2>7, <2>8, <2>9, <3>3
  <2> HIDE DEF all, last
  <2>10. /\ reader'.open = TRUE /\ reader'.cursor = last /\ reader'.seen = all
         /\ reader' = [open |-> reader'.open, cursor |-> reader'.cursor, seen |-> reader'.seen]
    BY <2>1, <2>6 DEF last
  <2>11. PagesAreWhole'
    <3>1. /\ Descends(reader'.seen)
          /\ damages' = 0 /\ reader'.seen # <<>> =>
               /\ Between(DOMAIN table', reader'.cursor, reader'.seen[1][1]) = Numbers(reader'.seen)
               /\ \A i \in 1..Len(reader'.seen) : table'[reader'.seen[i][1]] = reader'.seen[i][2]
      BY <2>7, <2>9, <2>10, Zenon
    <3>2. DOMAIN reader'.seen = 1..Len(reader'.seen)
      BY <2>7, <2>10
    <3>3. QED
      BY <3>1, <3>2, Zenon DEF PagesAreWhole, Descends, Between, Numbers
  <2>12. QED
    BY <2>7, <2>10, <2>11 DEF ReaderInv
<1>10. QED
  BY <1>8, <1>9
\* An appended row is newer than every page that was read.
LEMMA AppendKeepsPages ==
    ASSUME TrailTypes, ReaderInv, AppendsRow, UNCHANGED reader
    PROVE  ReaderInv'
<1> DEFINE D == DOMAIN table
           seen == reader.seen
           c == reader.cursor
           top == seen[1][1]
<1>1. Newest \in Nat /\ D \subseteq 1..Newest
  BY TableHolds
<1>2. DOMAIN table' = D \cup {Newest + 1} /\ (\A n \in D : table'[n] = table[n])
      /\ damages' = damages /\ reader' = reader
  BY DEF AppendsRow
<1>3. PICK R : seen \in Seq(Nat \X R)
  BY DEF ReaderInv
<1>4. /\ Descends(seen)
      /\ damages = 0 /\ seen # <<>> =>
           /\ Between(D, c, top) = Numbers(seen)
           /\ \A i \in 1..Len(seen) : table[seen[i][1]] = seen[i][2]
  BY <1>3, PagesAre DEF ReaderInv
<1>5. \A i \in 1..Len(seen) : seen[i][1] \in Numbers(seen)
  BY DEF Numbers
<1>6. ASSUME damages = 0, seen # <<>>
      PROVE  /\ Between(DOMAIN table', c, top) = Numbers(seen)
             /\ \A i \in 1..Len(seen) : table'[seen[i][1]] = seen[i][2]
  <2>1. \A n \in Numbers(seen) : n \in D
    BY <1>4, <1>6 DEF Between
  <2>2. 1 \in 1..Len(seen)
    BY <1>3, <1>6
  <2>3. top \in 1..Newest
    BY <1>1, <1>5, <2>1, <2>2
  <2>4. ~(Newest + 1 <= top)
    BY <1>1, <2>3
  <2>5. Between(DOMAIN table', c, top) = Between(D, c, top)
    <3> HIDE DEF D, seen, c, top
    <3>1. QED
      BY <1>2, <2>4 DEF Between
  <2>6. \A i \in 1..Len(seen) : table'[seen[i][1]] = table[seen[i][1]]
    BY <1>2, <1>5, <2>1
  <2>7. QED
    BY <1>4, <1>6, <2>5, <2>6
<1>7. PagesAreWhole'
  <2>1. /\ Descends(reader'.seen)
        /\ damages' = 0 /\ reader'.seen # <<>> =>
             /\ Between(DOMAIN table', reader'.cursor, reader'.seen[1][1]) = Numbers(reader'.seen)
             /\ \A i \in 1..Len(reader'.seen) : table'[reader'.seen[i][1]] = reader'.seen[i][2]
    BY <1>2, <1>4, <1>6, Zenon
  <2>2. DOMAIN reader'.seen = 1..Len(reader'.seen)
    BY <1>2, <1>3
  <2>3. QED
    BY <2>1, <2>2, Zenon DEF PagesAreWhole, Descends, Between, Numbers
<1>8. QED
  BY <1>2, <1>7 DEF ReaderInv

\* Damage may take back what was read, but not the order it was read in.
LEMMA DamageKeepsPages ==
    ASSUME ReaderInv, damages' # 0, UNCHANGED reader
    PROVE  ReaderInv'
<1>1. PagesAreWhole'
  BY DEF ReaderInv, PagesAreWhole
<1>2. QED
  BY <1>1 DEF ReaderInv

\* A client that follows the cursor from page to page reads no row twice and leaves none
\* out, whatever limits it asks for and however many rows are appended meanwhile.
THEOREM PagesAreComplete == Spec => []PagesAreWhole
<1>1. Init => ReaderInv
  <2>1. SUFFICES ASSUME Init
                 PROVE  ReaderInv
    OBVIOUS
  <2>2. reader = [open |-> FALSE, cursor |-> 0, seen |-> <<>>] /\ reader.seen = <<>>
    BY <2>1 DEF Init, Closed
  <2>3. reader.seen \in Seq(Nat \X Nat)
    BY <2>2
  <2>4. PagesAreWhole
    BY <2>2 DEF PagesAreWhole
  <2>5. QED
    BY <2>2, <2>3, <2>4 DEF ReaderInv
<1>2. TrailInv /\ ReaderInv /\ [Next]_vars => ReaderInv'
  <2>1. SUFFICES ASSUME TrailTypes, ReaderInv, [Next]_vars
                 PROVE  ReaderInv'
    BY DEF TrailInv
  <2>2. ASSUME UNCHANGED <<table, reader, damages>>
        PROVE  ReaderInv'
    <3>1. PagesAreWhole'
      BY <2>1, <2>2 DEF ReaderInv, PagesAreWhole
    <3>2. QED
      BY <2>1, <2>2, <3>1 DEF ReaderInv
  <2>3. CASE ReadLatest
    BY <2>2, <2>3 DEF ReadLatest
  <2>4. CASE AppendDecision
    <3>1. UNCHANGED reader /\ (AppendsRow \/ UNCHANGED <<table, damages>>)
      BY <2>1, <2>4, AppendTypes DEF AppendDecision
    <3>2. QED
      BY <2>1, <2>2, <3>1, AppendKeepsPages
  <2>5. CASE Damage
    <3>1. damages' # 0 /\ UNCHANGED reader
      BY <2>1, <2>5 DEF Damage, TrailTypes
    <3>2. QED
      BY <2>1, <3>1, DamageKeepsPages
  <2>6. CASE FirstPage
    <3>1. PICK asked \in Asked : ~Refused(asked) /\ Read(Page(DOMAIN table, Limit(asked)))
      BY <2>6 DEF FirstPage, ListRecords
    <3>2. reader = Closed /\ reader.seen = <<>> /\ UNCHANGED <<table, damages>>
      BY <2>6 DEF FirstPage, Closed
    <3>3. DOMAIN table = {n \in DOMAIN table : reader.seen = <<>> \/ n < reader.cursor}
      BY <3>2
    <3>4. Limit(asked) \in Nat \ {0}
      BY <3>1, LimitIsPositive, TrailAssumption
    <3>5. QED
      BY <2>1, <3>1, <3>2, <3>3, <3>4, ReadPage
  <2>7. CASE NextPage
    <3>1. PICK asked \in Asked :
             ~Refused(asked) /\ Read(Page(Before(reader.cursor), Limit(asked)))
      BY <2>7 DEF NextPage, ListRecordsBefore
    <3>2. reader.open /\ UNCHANGED <<table, damages>>
      BY <2>7 DEF NextPage
    <3>3. Before(reader.cursor)
            = {n \in DOMAIN table : reader.seen = <<>> \/ n < reader.cursor}
      BY <2>1, <3>2 DEF Before, ReaderInv
    <3>4. Limit(asked) \in Nat \ {0}
      BY <3>1, LimitIsPositive, TrailAssumption
    <3>5. QED
      BY <2>1, <3>1, <3>2, <3>3, <3>4, ReadPage
  <2>8. CASE UNCHANGED vars
    BY <2>2, <2>8 DEF vars
  <2>9. QED
    BY <2>1, <2>3, <2>4, <2>5, <2>6, <2>7, <2>8 DEF Next
<1>3. ReaderInv => PagesAreWhole
  BY DEF ReaderInv
<1>4. QED
  BY <1>1, <1>2, <1>3, TrailInvariant, PTL DEF Spec

=============================================================================

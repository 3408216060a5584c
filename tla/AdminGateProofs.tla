--------------------------- MODULE AdminGateProofs ---------------------------
(* Theorems about AdminGate, for every value of its constants.             *)
EXTENDS AdminGate, FiniteSetTheorems, WellFoundedInduction, TLAPS

-----------------------------------------------------------------------------
(* The operators the gate is built from.                                   *)

Results == {"authenticated", "unauthorized", "forbidden", "unavailable"}

LEMMA AuthenticateType ==
    ASSUME NEW i PROVE Authenticate(i) \in Results \cup {"fetch"} /\ Judged(i) \in Results
<1>1. Judged(i) \in Results
  BY DEF Judged, Results
<1>2. Lookup(ks, i.kid, now) \in {"key", "fetch", "unavailable", "invalid"}
  BY DEF Lookup
<1>3. Authenticate(i) \in Results \cup {"fetch"}
  BY <1>1, <1>2 DEF Authenticate, Results
<1>4. QED
  BY <1>1, <1>3

\* A full bucket, as a number of its own: the provers need not multiply.
Cap == Burst * Unit

LEMMA CapType == Cap \in Nat /\ Unit \in Nat /\ Rate \in Nat /\ Unit <= Cap
<1> USE RateLimiterAssumption DEF Cap
<1>1. Burst - 1 \in Nat /\ Unit \in Nat /\ Rate \in Nat
  OBVIOUS
<1>2. (Burst - 1) * Unit \in Nat /\ Burst * Unit = (Burst - 1) * Unit + Unit
  BY <1>1
<1>3. QED
  BY <1>1, <1>2

\* A bucket as the limiter keeps it: empty of meaning, or last touched at one time in the past
\* that only Allow sets.
Kept(b, t) ==
    b = NoBucket \/ (b.tokens >= 0 /\ b.lastUpdate = b.lastAccess /\ b.lastUpdate <= t)

LEMMA LeastExists ==
    ASSUME NEW S \in SUBSET Nat, S # {}
    PROVE  \E m \in S : \A k \in S : m <= k
<1>1. \E x \in S : \A y \in S : ~(<<y, x>> \in OpToRel(<, Nat))
  BY NatLessThanWellFounded, WFMin, Zenon
<1>2. \A x, y \in Nat : x < y => <<x, y>> \in OpToRel(<, Nat)
  BY Zenon DEF OpToRel
<1>3. PICK x \in S : \A y \in S : ~(y < x)
  BY <1>1, <1>2, Zenon
<1>4. QED
  BY <1>3

LEMMA FastestIs ==
    Fastest \in Nat /\ Rate <= Fastest /\ Cap <= Fastest * IdleTimeout
<1> USE RateLimiterAssumption, CapType
<1> DEFINE All == Rate..(Rate + Cap)
           S == {rate \in All : Refills(rate)}
<1>1. Refills(Rate + Cap) /\ Rate + Cap \in All
  <2>1. ASSUME NEW x \in Nat, NEW c \in Nat, NEW y \in Nat \ {0} PROVE c <= (x + c) * y
    <3>1. (x + c) * y = x * y + c * (y - 1) + c /\ x * y \in Nat /\ c * (y - 1) \in Nat
      <4>1. y - 1 \in Nat
        OBVIOUS
      <4>2. QED
        BY <4>1
    <3>2. QED
      BY <3>1
  <2> HIDE DEF Cap
  <2>2. Cap <= (Rate + Cap) * IdleTimeout
    BY <2>1
  <2>3. Refills(Rate + Cap)
    BY <2>2 DEF Refills, Cap
  <2>4. QED
    BY <2>3
<1> HIDE DEF Cap
<1>2. S \in SUBSET Nat /\ S # {}
  BY <1>1
<1>3. PICK m \in S : \A k \in S : m <= k
  BY <1>2, LeastExists
<1>4. \E rate \in All : Refills(rate) /\ \A less \in All : Refills(less) => rate <= less
  BY <1>3
<1>5. /\ Fastest \in All /\ Refills(Fastest)
      /\ \A less \in All : Refills(less) => Fastest <= less
  BY <1>4 DEF Fastest, Cap
<1>6. QED
  BY <1>5 DEF Refills, Cap

\* What refills between two times, at most.
Refilled(from, to) == (to - from) * Fastest

\* The refill at the limiter's own rate.
Gained(from, to) == (to - from) * Rate

LEMMA GainedIs ==
    ASSUME NEW from \in Nat, NEW to \in Nat, from <= to
    PROVE  /\ Refilled(from, to) \in Nat /\ Gained(from, to) \in Nat
           /\ Gained(from, to) <= Refilled(from, to)
<1>1. to - from \in Nat /\ Rate \in Nat /\ Fastest \in Nat /\ Rate <= Fastest
  BY RateLimiterAssumption, FastestIs
<1>2. ASSUME NEW x \in Nat, NEW y \in Nat, NEW z \in Nat, y <= z
      PROVE  x * y \in Nat /\ x * z \in Nat /\ x * y <= x * z
  <2>1. x * (z - y) \in Nat /\ x * z = x * (z - y) + x * y /\ x * y \in Nat
    BY <1>2
  <2>2. QED
    BY <2>1
<1>3. QED
  BY <1>1, <1>2 DEF Refilled, Gained

LEMMA RefilledType ==
    ASSUME NEW from \in Nat, NEW to \in Nat, from <= to
    PROVE  Refilled(from, to) \in Nat
BY GainedIs

LEMMA RefilledAdds ==
    ASSUME NEW from \in Nat, NEW mid \in Nat, NEW to \in Nat
    PROVE  Refilled(from, to) = Refilled(from, mid) + Refilled(mid, to)
<1>1. to - from = (mid - from) + (to - mid) /\ mid - from \in Int /\ to - mid \in Int /\ Fastest \in Int
  BY FastestIs
<1>2. ASSUME NEW a \in Int, NEW b \in Int, NEW c \in Int PROVE (a + b) * c = a * c + b * c
  OBVIOUS
<1>3. QED
  BY <1>1, <1>2 DEF Refilled

\* What a bucket may hold at time t, if it refills that fast.
Held(b, t) == IF b = NoBucket THEN Cap ELSE AtMost(b.tokens + Refilled(b.lastUpdate, t), Cap)

\* The refill, and the idle reset, give a key no more than that; an idle bucket is full by it.
LEMMA HeldBounds ==
    ASSUME NEW b \in Buckets, NEW t \in Nat, Kept(b, t)
    PROVE  /\ Held(b, t) \in 0..Cap
           /\ Current(b, t).tokens <= Held(b, t)
           /\ Idle(b, t) => Held(b, t) = Cap
<1>1. CASE b = NoBucket
  BY <1>1, CapType DEF Held, Current, Fresh, Cap
<1>2. CASE b # NoBucket
  <2>1. b.tokens \in Nat /\ b.lastUpdate \in Nat /\ b.lastAccess = b.lastUpdate /\ b.lastUpdate <= t
    BY <1>2 DEF Kept, Buckets
  <2>2. /\ Refilled(b.lastUpdate, t) \in Nat /\ Gained(b.lastUpdate, t) \in Nat
        /\ Gained(b.lastUpdate, t) <= Refilled(b.lastUpdate, t)
    BY <2>1, GainedIs
  <2>3. Held(b, t) = AtMost(b.tokens + Refilled(b.lastUpdate, t), Cap)
    BY <1>2 DEF Held
  <2>4. Held(b, t) \in 0..Cap
    BY <2>1, <2>2, <2>3, CapType DEF AtMost
  <2>5. CASE Idle(b, t)
    <3>1. t - b.lastUpdate \in Nat /\ t - b.lastUpdate >= IdleTimeout /\ IdleTimeout \in Nat
      BY <2>1, <2>5, RateLimiterAssumption DEF Idle
    <3>2. ASSUME NEW x \in Nat, NEW y \in Nat, NEW z \in Nat, x >= y PROVE x * z >= z * y
      <4>1. (x - y) * z \in Nat /\ x * z = (x - y) * z + z * y /\ z * y \in Nat
        BY <3>2
      <4>2. QED
        BY <4>1, <3>2
    <3>3. Refilled(b.lastUpdate, t) >= Fastest * IdleTimeout
      BY <3>1, <3>2, FastestIs DEF Refilled
    <3>4. Fastest * IdleTimeout >= Cap /\ Fastest * IdleTimeout \in Nat
      BY <3>1, FastestIs, CapType
    <3>5. Held(b, t) = Cap
      BY <2>1, <2>2, <2>3, <3>3, <3>4, CapType DEF AtMost
    <3>6. Current(b, t).tokens = Cap
      BY <2>5 DEF Current, Fresh, Cap
    <3>7. QED
      BY <2>4, <3>5, <3>6, CapType
  <2>6. CASE ~Idle(b, t)
    <3>1. Current(b, t).tokens = AtMost(b.tokens + Gained(b.lastUpdate, t), Cap)
      BY <1>2, <2>6 DEF Current, Refill, Gained, Cap
    <3>2. QED
      BY <2>1, <2>2, <2>3, <2>4, <2>6, <3>1, CapType DEF AtMost
  <2>7. QED
    BY <2>5, <2>6
<1>3. QED
  BY <1>1, <1>2

LEMMA CurrentType ==
    ASSUME NEW b \in Buckets, NEW t \in Nat, Kept(b, t)
    PROVE  /\ Current(b, t) \in Buckets /\ Kept(Current(b, t), t)
           /\ Current(b, t).tokens \in 0..Cap
           /\ Current(b, t).lastUpdate = t /\ Current(b, t).lastAccess = t
<1>1. CASE b = NoBucket \/ Idle(b, t)
  BY <1>1, CapType DEF Current, Fresh, Buckets, Kept, Cap
<1>2. CASE b # NoBucket /\ ~Idle(b, t)
  <2>1. b.tokens \in Nat /\ b.lastUpdate \in Nat /\ b.lastUpdate <= t
    BY <1>2 DEF Kept, Buckets
  <2>2. Gained(b.lastUpdate, t) \in Nat
    BY <2>1, GainedIs
  <2>3. Current(b, t) = [tokens |-> AtMost(b.tokens + Gained(b.lastUpdate, t), Cap),
                         lastUpdate |-> t, lastAccess |-> t]
    BY <1>2 DEF Current, Refill, Gained, Cap
  <2>4. AtMost(b.tokens + Gained(b.lastUpdate, t), Cap) \in 0..Cap
    BY <2>1, <2>2, CapType DEF AtMost
  <2> HIDE DEF Cap
  <2>5. QED
    BY <2>3, <2>4, CapType DEF Buckets, Kept, Cap
<1>3. QED
  BY <1>1, <1>2

\* The tokens of a key's bucket at time t, at most.
Available(lim, k, t) == Held(lim.buckets[k], t)

AllKept(lim, t) == lim \in Limiters /\ \A k \in BucketKeys : Kept(lim.buckets[k], t)

\* A bucket that was looked at just now is found as it was left.
LEMMA HeldNow ==
    ASSUME NEW b \in Buckets, NEW t \in Nat, b # NoBucket, b.lastUpdate = t, b.tokens \in 0..Cap
    PROVE  Held(b, t) = b.tokens
<1>1. Refilled(t, t) = 0
  BY FastestIs DEF Refilled
<1>2. QED
  BY <1>1, CapType DEF Held, AtMost

LEMMA EvictionIsUnseen ==
    ASSUME NEW t \in Nat, NEW lim, AllKept(lim, t)
    PROVE  /\ AllKept(Evicted(lim, t), t)
           /\ \A k \in BucketKeys : Available(Evicted(lim, t), k, t) = Available(lim, k, t)
<1>1. CASE t - lim.lastCleanup < CleanupInterval
  BY <1>1 DEF Evicted
<1>2. CASE ~(t - lim.lastCleanup < CleanupInterval)
  <2> DEFINE swept == [k \in BucketKeys |->
                         IF Idle(lim.buckets[k], t) THEN NoBucket ELSE lim.buckets[k]]
  <2>1. Evicted(lim, t) = [buckets |-> swept, lastCleanup |-> t]
    BY <1>2 DEF Evicted
  <2>2. NoBucket \in Buckets
    BY CapType DEF NoBucket, Buckets, Cap
  <2>3. \A k \in BucketKeys : lim.buckets[k] \in Buckets /\ Kept(lim.buckets[k], t)
    BY DEF AllKept, Limiters
  <2>4. \A k \in BucketKeys : swept[k] \in Buckets /\ Kept(swept[k], t)
    BY <2>2, <2>3 DEF Kept
  <2>5. AllKept(Evicted(lim, t), t)
    BY <2>1, <2>4 DEF AllKept, Limiters
  <2>6. \A k \in BucketKeys : Held(swept[k], t) = Held(lim.buckets[k], t)
    BY <2>3, HeldBounds DEF Held
  <2>7. QED
    BY <2>1, <2>5, <2>6 DEF Available
<1>3. QED
  BY <1>1, <1>2

\* What one call of Allow does to the tokens: it takes one from the key's own, if there is one.
LEMMA AllowSpends ==
    ASSUME NEW t \in Nat, NEW lim, AllKept(lim, t), NEW key \in BucketKeys
    PROVE  LET verdict == Allow(lim, key, t)
           IN  /\ verdict.ok \in BOOLEAN
               /\ AllKept(verdict.lim, t)
               /\ \A k \in BucketKeys \ {key} :
                    Available(verdict.lim, k, t) = Available(lim, k, t)
               /\ Available(lim, key, t) \in Nat /\ Available(verdict.lim, key, t) \in Nat
               /\ Available(verdict.lim, key, t) <=
                    IF verdict.ok THEN Available(lim, key, t) - Unit ELSE Available(lim, key, t)
<1> DEFINE swept == Evicted(lim, t)
           b == Current(swept.buckets[key], t)
           ok == b.tokens >= Unit
           spent == IF ok THEN [b EXCEPT !.tokens = @ - Unit] ELSE b
           after == [swept EXCEPT !.buckets[key] = spent]
<1>1. Allow(lim, key, t) = [ok |-> ok, lim |-> after]
  BY DEF Allow
<1>2. AllKept(swept, t) /\ \A k \in BucketKeys : Available(swept, k, t) = Available(lim, k, t)
  BY EvictionIsUnseen
<1> HIDE DEF swept
<1>3. swept \in Limiters /\ swept.buckets[key] \in Buckets /\ Kept(swept.buckets[key], t)
  BY <1>2 DEF AllKept, Limiters
<1>4. /\ b \in Buckets /\ Kept(b, t) /\ b.tokens \in 0..Cap
      /\ b.lastUpdate = t /\ b.lastAccess = t
  BY <1>3, CurrentType
<1>5. b.tokens <= Available(lim, key, t) /\ Available(lim, key, t) \in 0..Cap
  BY <1>2, <1>3, HeldBounds DEF Available
<1> HIDE DEF b
<1>6. /\ spent \in Buckets /\ Kept(spent, t) /\ spent.lastUpdate = t
      /\ spent.tokens = IF ok THEN b.tokens - Unit ELSE b.tokens
      /\ spent.tokens \in 0..Cap
  <2>1. CASE ok
    <3>1. b.tokens - Unit \in 0..Cap
      BY <1>4, <2>1, CapType
    <3>2. spent = [tokens |-> b.tokens - Unit, lastUpdate |-> t, lastAccess |-> t]
      BY <1>4, <2>1 DEF Buckets
    <3> HIDE DEF spent
    <3>3. QED
      BY <2>1, <3>1, <3>2, CapType DEF Buckets, Kept, Cap
  <2>2. CASE ~ok
    BY <1>4, <2>2
  <2>3. QED
    BY <2>1, <2>2
<1> HIDE DEF ok, spent
<1>7. /\ after.buckets = [swept.buckets EXCEPT ![key] = spent]
      /\ after \in Limiters
  BY <1>3, <1>6 DEF Limiters
<1>8. after.buckets[key] = spent /\ \A k \in BucketKeys \ {key} : after.buckets[k] = swept.buckets[k]
  BY <1>3, <1>7 DEF Limiters
<1>9. AllKept(after, t)
  BY <1>2, <1>6, <1>7, <1>8 DEF AllKept
<1>10. Available(after, key, t) = spent.tokens
  <2>1. spent # NoBucket
    BY <1>6 DEF NoBucket
  <2>2. QED
    BY <1>6, <1>8, <2>1, HeldNow DEF Available
<1>11. \A k \in BucketKeys \ {key} : Available(after, k, t) = Available(lim, k, t)
  BY <1>2, <1>8 DEF Available
<1> HIDE DEF after
<1>12. /\ ok \in BOOLEAN
       /\ Available(lim, key, t) \in Nat /\ Available(after, key, t) \in Nat
       /\ Available(after, key, t) <= IF ok THEN Available(lim, key, t) - Unit
                                      ELSE Available(lim, key, t)
  BY <1>4, <1>5, <1>6, <1>10, CapType DEF ok
<1>13. QED
  BY <1>1, <1>9, <1>11, <1>12

\* In one tick no bucket gains more than that.
LEMMA TickRefills ==
    ASSUME NEW t \in Nat, NEW lim, AllKept(lim, t), NEW k \in BucketKeys
    PROVE  /\ AllKept(lim, t + 1)
           /\ Available(lim, k, t) \in 0..Cap /\ Available(lim, k, t + 1) \in 0..Cap
           /\ Available(lim, k, t + 1) <= Available(lim, k, t) + Fastest
<1> DEFINE b == lim.buckets[k]
<1>1. b \in Buckets /\ Kept(b, t)
  BY DEF AllKept, Limiters
<1>2. AllKept(lim, t + 1)
  <2>1. ASSUME NEW j \in BucketKeys PROVE Kept(lim.buckets[j], t + 1)
    <3>1. lim.buckets[j] \in Buckets /\ Kept(lim.buckets[j], t)
      BY DEF AllKept, Limiters
    <3>2. QED
      BY <3>1 DEF Kept, Buckets
  <2>2. QED
    BY <2>1 DEF AllKept
<1>3. Kept(b, t + 1)
  BY <1>2 DEF AllKept
<1>4. Held(b, t) \in 0..Cap /\ Held(b, t + 1) \in 0..Cap
  BY <1>1, <1>3, HeldBounds
<1>5. Held(b, t + 1) <= Held(b, t) + Fastest
  <2>1. CASE b = NoBucket
    BY <2>1, CapType, FastestIs DEF Held
  <2>2. CASE b # NoBucket
    <3>1. b.tokens \in Nat /\ b.lastUpdate \in Nat /\ b.lastUpdate <= t
      BY <1>1, <2>2 DEF Kept, Buckets
    <3>2. Refilled(b.lastUpdate, t) \in Nat /\ Refilled(t, t + 1) = Fastest
      BY <3>1, RefilledType, FastestIs DEF Refilled
    <3>3. Refilled(b.lastUpdate, t + 1) = Refilled(b.lastUpdate, t) + Fastest
      BY <3>1, <3>2, RefilledAdds
    <3>4. /\ Held(b, t) = AtMost(b.tokens + Refilled(b.lastUpdate, t), Cap)
          /\ Held(b, t + 1) = AtMost(b.tokens + Refilled(b.lastUpdate, t) + Fastest, Cap)
      BY <2>2, <3>1, <3>2, <3>3, FastestIs DEF Held
    <3>5. QED
      BY <3>1, <3>2, <3>4, CapType, FastestIs DEF AtMost
  <2>3. QED
    BY <2>1, <2>2
<1> HIDE DEF b
<1>6. QED
  BY <1>2, <1>4, <1>5 DEF Available, b

-----------------------------------------------------------------------------
(* The invariants.                                                         *)

\* TypeOK is not inductive: what refills since a bucket's last update is a natural number only
\* because that time is past.
LimiterInv == AllKept(limiter, now)

\* Who is where in the middlewares.  A request is authenticated without a fetch, or fetches,
\* in one mode only; it is charged before the second authentication and never after it.
Earned(i) ==
    IF mode = "static" THEN i.static ELSE i.bearer /\ i.genuine /\ i.admin

Placed(r) ==
    LET c == call[r]
        refused == ~c.principal /\ (mode = "static" => ~c.input.static)
    IN  /\ c.step # "done" => c.outcome = "none"
        /\ c.step \in {"new", "limit", "fetch_limit"} => ~c.principal
        /\ c.step \in {"new", "limit", "fetch_limit", "allow"} => ~c.admitted
        /\ Fetching(r) => mode = "oidc" /\ c.input.bearer
        /\ c.step = "allow" =>
             IF c.principal THEN Earned(c.input) /\ (mode = "static" => c.bucket = StaticAdmin)
             ELSE refused
        /\ c.step \in {"gate", "fetch_gate"} => c.admitted /\ ~c.input.large /\ refused
        /\ c.outcome = "served" =>
             /\ c.admitted /\ ~c.input.large /\ Earned(c.input)
             /\ mode = "static" => c.bucket = StaticAdmin

PlaceInv == \A r \in Requests : Placed(r)

\* A fetch holds the refresh slot: it is the last attempt, it is younger than a fetch may get
\* and so than RefreshMin, and it is the only one.
FetchInv ==
    /\ ks.fetchedAt <= ks.lastAttempt /\ ks.lastAttempt <= now
    /\ \A r \in Requests :
         Fetching(r) => call[r].at = ks.lastAttempt /\ now <= call[r].at + FetchTimeout
    /\ \A q, r \in Requests : Fetching(q) /\ Fetching(r) => q = r

\* What is cached and what is published differ only in keys that changed since the last fetch
\* that succeeded began, which for the fetch at start-up is before its stamp; and while every
\* fetch succeeds that is the last attempt.
KeysInv ==
    /\ \A k \in Kids : since[k] <= now
    /\ \A k \in Kids :
         (k \in ks.keys) # (k \in published) => ks.fetchedAt <= since[k] + StampLag(ks.fetchedAt)
    /\ \A r \in Requests :
         Fetching(r) /\ call[r].stale =>
           call[r].input.kid \in ks.keys /\ call[r].at - ks.fetchedAt <= 2 * MaxAge
    /\ \A r \in Requests : Fetching(r) => call[r].at # 0
    /\ failures = 0 /\ (\A r \in Requests : ~Fetching(r)) => ks.lastAttempt = ks.fetchedAt

\* Those admitted to bucket b since a time.
AdmittedSince(b, from) ==
    {r \in Requests : call[r].admitted /\ call[r].bucket = b /\ from <= call[r].chargedAt}

\* What admitting some requests has taken.
Given(S) == Cardinality(S) * Unit

\* What a bucket still holds and what it has given out since any time is no more than a full
\* bucket and what has been refilled since; and what was given out in a past period stays what
\* it was.
RateInv ==
    /\ \A r \in Requests : call[r].chargedAt <= now
    /\ \A b \in BucketKeys, from \in 0..now :
         Given(AdmittedSince(b, from)) + Available(limiter, b, now)
           <= Cap + Refilled(from, now)
    /\ \A b \in BucketKeys, from, to \in 0..now :
         from <= to =>
           Given(AdmittedBetween(b, from, to)) <= Cap + Refilled(from, to)

-----------------------------------------------------------------------------
(* Type correctness.                                                       *)

LEMMA InputType ==
    ASSUME NEW i \in AllInputs
    PROVE  /\ i \in Carried /\ i.from \in BucketKeys /\ SubjectOf(i) \in BucketKeys
           /\ i.bearer \in BOOLEAN /\ i.static \in BOOLEAN /\ i.large \in BOOLEAN /\ i.kid \in Kids
<1>1. PICK r \in Requests : i \in Inputs[r]
  BY DEF AllInputs
<1>2. i \in Carried
  BY <1>1, AdminGateAssumption
<1>3. QED
  BY <1>2, AdminGateAssumption DEF Carried, SubjectOf

LEMMA NoInputType ==
    ASSUME NEW r \in Requests PROVE NoInput \in AllInputs
<1>1. \E i : i \in AllInputs
  BY AdminGateAssumption DEF AllInputs
<1>2. QED
  BY <1>1 DEF NoInput

\* The fields of what Authenticated makes of a request.
LEMMA AuthenticatedIs ==
    ASSUME NEW r \in Requests, call[r] \in Call, NEW place \in {"limit", "gate"}, NEW result \in Results
    PROVE  LET c == call[r]
               a == Authenticated(r, place, result)
           IN  /\ a \in Call
               /\ a.step = (IF place = "limit" THEN "allow" ELSE "done")
               /\ a.input = c.input /\ a.at = 0 /\ a.stale = FALSE
               /\ a.principal = (result = "authenticated")
               /\ a.bucket = (IF place = "gate" THEN c.bucket
                              ELSE IF result = "authenticated" THEN SubjectOf(c.input)
                              ELSE c.input.from)
               /\ a.chargedAt = c.chargedAt /\ a.admitted = c.admitted
               /\ a.outcome = (IF place = "limit" THEN c.outcome
                               ELSE IF result = "authenticated" THEN "served" ELSE result)
<1> DEFINE c == call[r]
<1>1. c \in Call /\ c.input \in AllInputs
  BY DEF Call
<1>2. c.input.from \in BucketKeys /\ SubjectOf(c.input) \in BucketKeys
  BY <1>1, InputType
<1>3. CASE place = "limit"
  <2> DEFINE b == IF result = "authenticated" THEN SubjectOf(c.input) ELSE c.input.from
  <2>1. Authenticated(r, place, result) =
          [c EXCEPT !.step = "allow", !.at = 0, !.stale = FALSE,
                    !.principal = (result = "authenticated"), !.bucket = b]
    BY <1>3 DEF Authenticated
  <2>2. b \in BucketKeys
    BY <1>2
  <2> HIDE DEF b
  <2>3. Authenticated(r, place, result) =
          [step |-> "allow", input |-> c.input, at |-> 0, stale |-> FALSE,
           principal |-> (result = "authenticated"), bucket |-> b, chargedAt |-> c.chargedAt,
           admitted |-> c.admitted, outcome |-> c.outcome]
    BY <1>1, <2>1 DEF Call
  <2>4. Authenticated(r, place, result) \in Call
    BY <1>1, <2>2, <2>3 DEF Call, Steps
  <2>5. b = IF result = "authenticated" THEN SubjectOf(c.input) ELSE c.input.from
    BY DEF b
  <2>6. QED
    BY <1>3, <2>3, <2>4, <2>5
<1>4. CASE place = "gate"
  <2> DEFINE o == IF result = "authenticated" THEN "served" ELSE result
  <2>1. Authenticated(r, place, result) =
          [c EXCEPT !.step = "done", !.at = 0, !.stale = FALSE,
                    !.principal = (result = "authenticated"), !.outcome = o]
    BY <1>4 DEF Authenticated
  <2>2. o \in Outcomes
    BY DEF Results, Outcomes
  <2> HIDE DEF o
  <2>3. Authenticated(r, place, result) =
          [step |-> "done", input |-> c.input, at |-> 0, stale |-> FALSE,
           principal |-> (result = "authenticated"), bucket |-> c.bucket, chargedAt |-> c.chargedAt,
           admitted |-> c.admitted, outcome |-> o]
    BY <1>1, <2>1 DEF Call
  <2>4. Authenticated(r, place, result) \in Call
    BY <1>1, <2>2, <2>3 DEF Call, Steps
  <2>5. o = IF result = "authenticated" THEN "served" ELSE result
    BY DEF o
  <2>6. QED
    BY <1>4, <2>3, <2>4, <2>5
<1>5. QED
  BY <1>3, <1>4

\* The fields of a request that has been charged.
LEMMA ChargeIs ==
    ASSUME TypeOK, LimiterInv, NEW r \in Requests, Charge(r)
    PROVE  LET c == call[r]
               d == call'[r]
               ok == Allow(limiter, c.bucket, now).ok
           IN  /\ c.step = "allow" /\ ok \in BOOLEAN
               /\ d \in Call /\ call' = [call EXCEPT ![r] = d]
               /\ d.input = c.input /\ d.at = c.at /\ d.stale = c.stale
               /\ d.principal = c.principal /\ d.bucket = c.bucket
               /\ d.chargedAt = now /\ d.admitted = ok
               /\ d.step \in {"done", "gate"}
               /\ d.step = "gate" => ok /\ ~c.input.large /\ ~c.principal /\ d.outcome = c.outcome
               /\ d.outcome = "served" => c.outcome = "served" \/ (ok /\ ~c.input.large /\ c.principal)
<1> DEFINE c == call[r]
           ok == Allow(limiter, c.bucket, now).ok
           o == IF ~ok THEN "rate_limited" ELSE IF c.input.large THEN "too_large"
                ELSE IF c.principal THEN "served" ELSE c.outcome
           s == IF ok /\ ~c.input.large /\ ~c.principal THEN "gate" ELSE "done"
           d == [c EXCEPT !.chargedAt = now, !.admitted = ok, !.step = s, !.outcome = o]
<1>1. c \in Call /\ call \in [Requests -> Call] /\ now \in Nat
  BY AdminGateAssumption DEF TypeOK
<1>2. ok \in BOOLEAN
  BY <1>1, AllowSpends DEF Call, LimiterInv
<1>3. c.step = "allow" /\ call' = [call EXCEPT ![r] =
                      IF ~ok
                      THEN [[c EXCEPT !.chargedAt = now, !.admitted = ok]
                              EXCEPT !.step = "done", !.outcome = "rate_limited"]
                      ELSE IF c.input.large
                      THEN [[c EXCEPT !.chargedAt = now, !.admitted = ok]
                              EXCEPT !.step = "done", !.outcome = "too_large"]
                      ELSE IF c.principal
                      THEN [[c EXCEPT !.chargedAt = now, !.admitted = ok]
                              EXCEPT !.step = "done", !.outcome = "served"]
                      ELSE [[c EXCEPT !.chargedAt = now, !.admitted = ok] EXCEPT !.step = "gate"]]
  BY DEF Charge
<1> HIDE DEF ok
<1>4. call' = [call EXCEPT ![r] = d]
  BY <1>1, <1>3 DEF Call
<1>6. o \in Outcomes /\ s \in Steps
  BY <1>1 DEF Call, Outcomes, Steps
<1>5. /\ d.step = s /\ d.input = c.input /\ d.at = c.at /\ d.stale = c.stale
      /\ d.principal = c.principal /\ d.bucket = c.bucket
      /\ d.chargedAt = now /\ d.admitted = ok /\ d.outcome = o
  <2> HIDE DEF s, o
  <2>1. QED
    BY <1>1 DEF Call
<1>7. d \in Call
  <2> HIDE DEF s, o
  <2>1. QED
    BY <1>1, <1>2, <1>6 DEF Call
<1>8. call'[r] = d
  BY <1>1, <1>4
<1>9. QED
  BY <1>1, <1>2, <1>3, <1>4, <1>5, <1>7, <1>8 DEF ok

\* Request r is authenticated, or not, at a place.
Settles(r, place, result) == call' = [call EXCEPT ![r] = Authenticated(r, place, result)]

\* Request r claims the refresh slot.
Claims(r) ==
    LET c == call[r]
        d == call'[r]
    IN  /\ mode = "oidc" /\ c.input.bearer
        /\ ~Throttled(ks, now) /\ ~Young(ks, c.input.kid, now)
        /\ ks' = Claimed(ks, now)
        /\ call' = [call EXCEPT ![r] = d]
        /\ d \in Call
        /\ d.step = (IF c.step = "limit" THEN "fetch_limit" ELSE "fetch_gate")
        /\ d.at = now /\ d.stale = CanServeStale(ks, c.input.kid, now)
        /\ d.input = c.input /\ d.principal = c.principal /\ d.bucket = c.bucket
        /\ d.chargedAt = c.chargedAt /\ d.admitted = c.admitted /\ d.outcome = c.outcome

LEMMA CheckIs ==
    ASSUME TypeOK, NEW r \in Requests, Check(r)
    PROVE  /\ call[r].step \in {"limit", "gate"}
           /\ \/ Claims(r)
              \/ /\ Authenticate(call[r].input) # "fetch"
                 /\ Settles(r, call[r].step, Authenticate(call[r].input))
                 /\ UNCHANGED ks
<1> DEFINE c == call[r]
           result == Authenticate(c.input)
           stale == CanServeStale(ks, c.input.kid, now)
           s == IF c.step = "limit" THEN "fetch_limit" ELSE "fetch_gate"
           d == [c EXCEPT !.step = s, !.at = now, !.stale = stale]
<1>1. c \in Call /\ call \in [Requests -> Call] /\ now \in Nat
  BY AdminGateAssumption DEF TypeOK
<1>2. c.step \in {"limit", "gate"}
  BY DEF Check
<1>3. CASE result # "fetch"
  BY <1>2, <1>3 DEF Check, Settles
<1>4. CASE result = "fetch"
  <2>1. mode = "oidc" /\ c.input.bearer /\ Lookup(ks, c.input.kid, now) = "fetch"
    <3>1. Judged(c.input) # "fetch"
      BY AuthenticateType DEF Results
    <3>2. Lookup(ks, c.input.kid, now) \in {"key", "fetch", "unavailable", "invalid"}
      BY DEF Lookup
    <3>3. QED
      BY <1>4, <3>1, <3>2 DEF Authenticate, TypeOK
  <2>2. ~Throttled(ks, now) /\ ~Young(ks, c.input.kid, now)
    BY <2>1 DEF Lookup
  <2>3. ks' = Claimed(ks, now) /\ call' = [call EXCEPT ![r] = d]
    BY <1>4 DEF Check
  <2>4. stale \in BOOLEAN /\ s \in Steps
    BY DEF CanServeStale, Steps
  <2>5. stale = CanServeStale(ks, c.input.kid, now)
    OBVIOUS
  <2>6. s = IF c.step = "limit" THEN "fetch_limit" ELSE "fetch_gate"
    OBVIOUS
  <2> HIDE DEF stale, s
  <2>7. /\ d \in Call
        /\ d.step = s /\ d.at = now /\ d.stale = stale
        /\ d.input = c.input /\ d.principal = c.principal /\ d.bucket = c.bucket
        /\ d.chargedAt = c.chargedAt /\ d.admitted = c.admitted /\ d.outcome = c.outcome
    BY <1>1, <2>4 DEF Call
  <2> HIDE DEF d
  <2>8. call'[r] = d
    BY <1>1, <2>3
  <2>9. QED
    BY <1>2, <2>1, <2>2, <2>3, <2>5, <2>6, <2>7, <2>8 DEF Claims
<1>5. QED
  BY <1>3, <1>4

LEMMA FetchIs ==
    ASSUME NEW r \in Requests, FetchSucceeds(r) \/ FetchFails(r)
    PROVE  /\ Fetching(r) /\ Place(r) \in {"limit", "gate"}
           /\ \E result \in Results : Settles(r, Place(r), result)
<1>1. Judged(call[r].input) \in Results
  BY AuthenticateType
<1>2. QED
  BY <1>1 DEF FetchSucceeds, FetchFails, Results, Settles, Place

LEMMA SettledType ==
    ASSUME TypeOK, NEW r \in Requests, NEW place \in {"limit", "gate"}, NEW result \in Results,
           Settles(r, place, result)
    PROVE  /\ call' \in [Requests -> Call] /\ call'[r] = Authenticated(r, place, result)
           /\ \A q \in Requests \ {r} : call'[q] = call[q]
<1>1. call \in [Requests -> Call]
  BY DEF TypeOK
<1>2. Authenticated(r, place, result) \in Call
  BY <1>1, AuthenticatedIs
<1>3. QED
  BY <1>1, <1>2 DEF Settles

LEMMA ArriveIs ==
    ASSUME TypeOK, NEW r \in Requests, Arrive(r)
    PROVE  LET c == call[r]
               d == call'[r]
           IN  /\ c.step = "new" /\ d.step = "limit"
               /\ call' = [call EXCEPT ![r] = d] /\ d \in Call
               /\ d.at = c.at /\ d.stale = c.stale /\ d.principal = c.principal
               /\ d.bucket = c.bucket /\ d.chargedAt = c.chargedAt /\ d.admitted = c.admitted
               /\ d.outcome = c.outcome
<1>1. call[r] \in Call /\ call \in [Requests -> Call]
  BY DEF TypeOK
<1>2. PICK i \in Inputs[r] : call' = [call EXCEPT ![r] = [call[r] EXCEPT !.step = "limit", !.input = i]]
  BY DEF Arrive
<1>3. i \in AllInputs
  BY DEF AllInputs
<1>4. QED
  BY <1>1, <1>2, <1>3 DEF Arrive, Call, Steps

LEMMA TypeStep ==
    ASSUME TypeOK, LimiterInv, [Next]_vars
    PROVE  TypeOK' /\ LimiterInv'
<1> USE AdminGateAssumption, KeySetAssumption
<1>a. /\ now \in 0..MaxTime /\ now \in Nat /\ now \in (-FetchTimeout)..MaxTime
      /\ call \in [Requests -> Call] /\ ks \in KeySets /\ published \subseteq Kids
  BY DEF TypeOK
<1>b. ASSUME NEW r \in Requests, NEW d \in Call, call' = [call EXCEPT ![r] = d]
      PROVE  call' \in [Requests -> Call]
  BY <1>a, <1>b
<1>c. ASSUME UNCHANGED <<now, mode, published, since, rotations, failures>>, ks' \in KeySets,
             call' \in [Requests -> Call], AllKept(limiter', now)
      PROVE  TypeOK' /\ LimiterInv'
  BY <1>c DEF TypeOK, LimiterInv, AllKept
<1>1. CASE UNCHANGED vars
  BY <1>1 DEF vars, TypeOK, LimiterInv, AllKept
<1>2. CASE Tick
  <2>1. now' = now + 1 /\ now' \in 0..MaxTime
    BY <1>2, <1>a DEF Tick
  <2>2. AllKept(limiter', now')
    <3>1. ASSUME NEW k \in BucketKeys PROVE Kept(limiter.buckets[k], now + 1)
      BY <1>a, TickRefills DEF LimiterInv, AllKept
    <3>2. QED
      BY <1>2, <2>1, <3>1 DEF Tick, LimiterInv, AllKept
  <2>3. QED
    BY <1>2, <2>1, <2>2 DEF Tick, TypeOK, LimiterInv
<1>3. ASSUME NEW k \in Kids, Rotate(k) PROVE TypeOK' /\ LimiterInv'
  BY <1>3, <1>a DEF Rotate, TypeOK, LimiterInv
<1>4. ASSUME NEW r \in Requests, Arrive(r) PROVE TypeOK' /\ LimiterInv'
  <2>1. call' \in [Requests -> Call]
    BY <1>4, <1>b, ArriveIs
  <2>2. UNCHANGED <<now, mode, published, since, rotations, failures, ks, limiter>>
    BY <1>4 DEF Arrive
  <2>3. QED
    BY <1>a, <1>c, <2>1, <2>2 DEF LimiterInv
<1>5. ASSUME NEW r \in Requests, Check(r) PROVE TypeOK' /\ LimiterInv'
  <2>1. CASE Claims(r)
    <3>1. ks' \in KeySets
      BY <1>a, <2>1 DEF Claims, Claimed, KeySets
    <3>2. QED
      BY <1>5, <1>b, <1>c, <2>1, <3>1 DEF Check, Claims, LimiterInv
  <2>2. CASE Authenticate(call[r].input) # "fetch" /\ UNCHANGED ks
               /\ Settles(r, call[r].step, Authenticate(call[r].input))
    <3>1. Authenticate(call[r].input) \in Results /\ call[r].step \in {"limit", "gate"}
      BY <1>5, <2>2, AuthenticateType, CheckIs
    <3>2. call' \in [Requests -> Call]
      BY <2>2, <3>1, SettledType
    <3>3. QED
      BY <1>5, <1>a, <1>c, <2>2, <3>2 DEF Check, LimiterInv
  <2>3. QED
    BY <1>5, <2>1, <2>2, CheckIs
<1>6. ASSUME NEW r \in Requests, FetchSucceeds(r) \/ FetchFails(r) PROVE TypeOK' /\ LimiterInv'
  <2>1. call' \in [Requests -> Call] /\ call[r] \in Call
    BY <1>6, <1>a, FetchIs, SettledType
  <2>2. CASE FetchSucceeds(r)
    <3>1. ks' \in KeySets
      BY <1>a, <2>1, <2>2 DEF FetchSucceeds, Answers, Stored, KeySets, Call
    <3>2. QED
      BY <1>c, <2>1, <2>2, <3>1 DEF FetchSucceeds, LimiterInv
  <2>3. CASE FetchFails(r)
    <3>1. ks' \in KeySets
      BY <1>a, <2>3 DEF FetchFails, Failed, KeySets
    <3>2. QED
      BY <2>1, <2>3, <3>1 DEF FetchFails, TypeOK, LimiterInv
  <2>4. QED
    BY <1>6, <2>2, <2>3
<1>7. ASSUME NEW r \in Requests, Charge(r) PROVE TypeOK' /\ LimiterInv'
  <2>1. call' \in [Requests -> Call] /\ call[r].bucket \in BucketKeys
    BY <1>7, <1>a, <1>b, ChargeIs DEF Call
  <2>2. limiter' = Allow(limiter, call[r].bucket, now).lim
    BY <1>7 DEF Charge
  <2>3. AllKept(limiter', now)
    BY <1>a, <2>1, <2>2, AllowSpends DEF LimiterInv
  <2>4. QED
    BY <1>7, <1>a, <1>c, <2>1, <2>3 DEF Charge
<1>8. QED
  BY <1>1, <1>2, <1>3, <1>4, <1>5, <1>6, <1>7 DEF Next, RequestStep

LEMMA TypeInit == Init => TypeOK /\ LimiterInv
<1> SUFFICES ASSUME Init PROVE TypeOK /\ LimiterInv
  OBVIOUS
<1> USE AdminGateAssumption, KeySetAssumption
<1>1. ks \in KeySets
  BY DEF Init, Refreshed, KeySets
<1>2. NoBucket \in Buckets
  BY CapType DEF NoBucket, Buckets, Cap
<1>3. AllKept(limiter, 0)
  BY <1>2 DEF Init, NewLimiter, AllKept, Limiters, Kept
<1>4. call \in [Requests -> Call]
  <2>1. ASSUME NEW r \in Requests
        PROVE  [step |-> "new", input |-> NoInput, at |-> 0, stale |-> FALSE,
                principal |-> FALSE, bucket |-> NoInput.from, chargedAt |-> 0,
                admitted |-> FALSE, outcome |-> "none"] \in Call
    <3>1. NoInput \in AllInputs /\ NoInput.from \in BucketKeys
      BY NoInputType, InputType
    <3>2. QED
      BY <3>1 DEF Call, Steps, Outcomes
  <2>2. QED
    BY <2>1 DEF Init
<1>5. since \in [Kids -> (-FetchTimeout)..MaxTime] /\ now = 0 /\ now \in 0..MaxTime
  <2>1. since \in [Kids -> (-FetchTimeout)..0]
    BY DEF Init
  <2>2. QED
    BY <2>1 DEF Init
<1>6. TypeOK
  <2>1. limiter \in Limiters
    BY <1>3 DEF AllKept
  <2>2. mode \in {"oidc", "static"} /\ published \subseteq Kids
    BY DEF Init
  <2>3. rotations \in 0..MaxRotations /\ failures \in 0..1
    BY DEF Init
  <2>4. QED
    BY <1>1, <1>4, <1>5, <2>1, <2>2, <2>3 DEF TypeOK
<1>7. QED
  BY <1>3, <1>5, <1>6 DEF LimiterInv

LEMMA TypeAndLimiter == Spec => [](TypeOK /\ LimiterInv)
<1>1. TypeOK /\ LimiterInv /\ [Next]_vars => TypeOK' /\ LimiterInv'
  BY TypeStep
<1>2. QED
  BY <1>1, TypeInit, PTL DEF Spec

\* Every reachable state is well typed; in particular no bucket ever holds more than its burst
\* (Limiter.Allow).
THEOREM TypeCorrect == Spec => []TypeOK
BY TypeAndLimiter, PTL

-----------------------------------------------------------------------------
(* Whoever is served has earned it.                                        *)

\* A step of request r alone keeps what is known of the others.
LEMMA OthersStay ==
    ASSUME TypeOK, PlaceInv, UNCHANGED mode, NEW r \in Requests, NEW d,
           call' = [call EXCEPT ![r] = d], Placed(r)'
    PROVE  PlaceInv'
<1>1. ASSUME NEW q \in Requests, q # r PROVE Placed(q)'
  <2>1. call'[q] = call[q]
    BY <1>1 DEF TypeOK
  <2>2. Placed(q)
    BY DEF PlaceInv
  <2>3. QED
    BY <2>1, <2>2 DEF Placed, Earned, Fetching
<1>2. QED
  BY <1>1 DEF PlaceInv

\* Whatever becomes of authenticating a request, it tells an admin from anybody else.
Honest(i, result) ==
    /\ result = "authenticated" => Earned(i)
    /\ mode = "static" /\ result # "authenticated" => ~i.static

LEMMA SettledStays ==
    ASSUME TypeOK, PlaceInv, UNCHANGED mode, NEW r \in Requests, NEW place \in {"limit", "gate"},
           NEW result \in Results, Settles(r, place, result), Honest(call[r].input, result),
           call[r].step \in (IF place = "limit" THEN {"limit", "fetch_limit"}
                                                ELSE {"gate", "fetch_gate"})
    PROVE  PlaceInv'
<1> DEFINE c == call[r]
           d == call'[r]
<1>1. c \in Call /\ Placed(r)
  BY DEF TypeOK, PlaceInv
<1>2. /\ d.step = (IF place = "limit" THEN "allow" ELSE "done")
      /\ d.input = c.input /\ d.principal = (result = "authenticated")
      /\ d.bucket = (IF place = "gate" THEN c.bucket
                     ELSE IF result = "authenticated" THEN SubjectOf(c.input) ELSE c.input.from)
      /\ d.admitted = c.admitted
      /\ d.outcome = (IF place = "limit" THEN c.outcome
                      ELSE IF result = "authenticated" THEN "served" ELSE result)
  <2>1. d = Authenticated(r, place, result)
    BY SettledType
  <2> HIDE DEF d
  <2>2. QED
    BY <1>1, <2>1, AuthenticatedIs
<1>3. c.step # "done" /\ c.outcome = "none"
  BY <1>1 DEF Placed
<1>4. CASE place = "limit"
  <2>1. d.step = "allow" /\ d.outcome = "none" /\ ~d.admitted /\ d.input = c.input
    BY <1>1, <1>2, <1>3, <1>4 DEF Placed
  <2>2. IF d.principal THEN Earned(d.input) /\ (mode = "static" => d.bucket = StaticAdmin)
        ELSE mode = "static" => ~d.input.static
    BY <1>2, <1>4 DEF Honest, SubjectOf
  <2>3. Placed(r)'
    BY <2>1, <2>2 DEF Placed, Earned, Fetching
  <2>4. QED
    BY <2>3, OthersStay DEF Settles
<1>5. CASE place = "gate"
  <2>1. d.step = "done" /\ d.admitted /\ ~d.input.large /\ d.input = c.input /\ d.bucket = c.bucket
    BY <1>1, <1>2, <1>5 DEF Placed
  <2>2. d.outcome = "served" => Earned(d.input) /\ mode # "static"
    <3>1. d.outcome = "served" => result = "authenticated"
      BY <1>2, <1>5 DEF Results
    <3>2. mode = "static" => ~c.input.static
      BY <1>1, <1>5 DEF Placed
    <3>3. QED
      BY <2>1, <3>1, <3>2 DEF Honest, Earned
  <2>3. Placed(r)'
    BY <2>1, <2>2 DEF Placed, Earned, Fetching
  <2>4. QED
    BY <2>3, OthersStay DEF Settles
<1>6. QED
  BY <1>4, <1>5

LEMMA PlaceStep ==
    ASSUME TypeOK, LimiterInv, PlaceInv, [Next]_vars
    PROVE  PlaceInv'
<1>1. CASE UNCHANGED <<call, mode>>
  BY <1>1 DEF PlaceInv, Placed, Earned, Fetching
<1>2. ASSUME NEW r \in Requests, Arrive(r) PROVE PlaceInv'
  <2>1. Placed(r)
    BY DEF PlaceInv
  <2>2. Placed(r)'
    BY <2>1, <1>2, ArriveIs DEF Placed, Fetching
  <2>3. QED
    BY <1>2, <2>2, ArriveIs, OthersStay DEF Arrive
<1>3. ASSUME NEW r \in Requests, Check(r) PROVE PlaceInv'
  <2>1. Placed(r) /\ UNCHANGED mode /\ call[r].step \in {"limit", "gate"}
    BY <1>3, CheckIs DEF PlaceInv, Check
  <2>2. CASE Claims(r)
    <3>1. Placed(r)'
      BY <2>1, <2>2 DEF Claims, Placed, Earned, Fetching
    <3>2. QED
      BY <2>1, <2>2, <3>1, OthersStay DEF Claims
  <2>3. CASE Authenticate(call[r].input) # "fetch" /\ Settles(r, call[r].step, Authenticate(call[r].input))
    <3> DEFINE i == call[r].input
    <3>1. Authenticate(i) \in Results
      BY <2>3, AuthenticateType
    <3>2. Judged(i) = "authenticated" => i.genuine /\ i.admin
      BY DEF Judged
    <3>3. Lookup(ks, i.kid, now) \in {"key", "fetch", "unavailable", "invalid"}
      BY DEF Lookup
    <3>4. Honest(i, Authenticate(i))
      <4>1. CASE mode = "static"
        BY <4>1 DEF Authenticate, Honest, Earned
      <4>2. CASE mode # "static"
        <5>1. Authenticate(i) = "authenticated" => i.bearer /\ Judged(i) = "authenticated"
          BY <3>3, <4>2 DEF Authenticate
        <5>2. QED
          BY <3>2, <4>2, <5>1 DEF Honest, Earned
      <4>3. QED
        BY <4>1, <4>2
    <3>5. QED
      BY <2>1, <2>3, <3>1, <3>4, SettledStays
  <2>4. QED
    BY <1>3, <2>2, <2>3, CheckIs
<1>4. ASSUME NEW r \in Requests, FetchSucceeds(r) \/ FetchFails(r) PROVE PlaceInv'
  <2> DEFINE i == call[r].input
  <2>1. Placed(r) /\ UNCHANGED mode /\ Fetching(r)
    BY <1>4 DEF PlaceInv, FetchSucceeds, FetchFails
  <2>2. mode = "oidc" /\ i.bearer
    BY <2>1 DEF Placed
  <2>3. Judged(i) \in Results /\ (Judged(i) = "authenticated" => i.genuine /\ i.admin)
    BY AuthenticateType DEF Judged
  <2>4. \A result \in {Judged(i), "unauthorized", "unavailable"} :
          result \in Results /\ Honest(i, result)
    BY <2>2, <2>3 DEF Results, Honest, Earned
  <2>5. PICK result \in {Judged(i), "unauthorized", "unavailable"} : Settles(r, Place(r), result)
    <3>1. CASE FetchSucceeds(r)
      BY <3>1 DEF FetchSucceeds, Settles
    <3>2. CASE FetchFails(r)
      BY <3>2 DEF FetchFails, Settles
    <3>3. QED
      BY <1>4, <3>1, <3>2
  <2>6. /\ Place(r) \in {"limit", "gate"}
        /\ call[r].step \in (IF Place(r) = "limit" THEN {"limit", "fetch_limit"} ELSE {"gate", "fetch_gate"})
    BY <2>1 DEF Fetching, Place
  <2>7. QED
    BY <2>1, <2>4, <2>5, <2>6, SettledStays
<1>5. ASSUME NEW r \in Requests, Charge(r) PROVE PlaceInv'
  <2>1. Placed(r) /\ UNCHANGED mode
    BY <1>5 DEF PlaceInv, Charge
  <2>2. Placed(r)'
    <3> DEFINE c == call[r]
               d == call'[r]
    <3>1. /\ c.step = "allow" /\ d.step \in {"done", "gate"}
          /\ d.input = c.input /\ d.principal = c.principal /\ d.bucket = c.bucket
          /\ d.step = "gate" => d.admitted /\ ~c.input.large /\ ~c.principal /\ d.outcome = c.outcome
          /\ d.outcome = "served" => c.outcome = "served" \/ (d.admitted /\ ~c.input.large /\ c.principal)
      BY <1>5, ChargeIs
    <3>2. c.outcome = "none" /\ (IF c.principal THEN Earned(c.input) /\ (mode = "static" => c.bucket = StaticAdmin)
                                 ELSE mode = "static" => ~c.input.static)
      BY <2>1, <3>1 DEF Placed
    <3> HIDE DEF c, d
    <3>3. /\ d.step = "gate" => d.admitted /\ ~d.input.large /\ ~d.principal
                               /\ (mode = "static" => ~d.input.static) /\ d.outcome = "none"
          /\ d.outcome = "served" => /\ d.admitted /\ ~d.input.large /\ Earned(d.input)
                                     /\ mode = "static" => d.bucket = StaticAdmin
      BY <3>1, <3>2
    <3>4. QED
      BY <2>1, <3>1, <3>3 DEF Placed, Earned, Fetching, d
  <2>3. QED
    BY <1>5, <2>1, <2>2, ChargeIs, OthersStay
<1>6. QED
  BY <1>1, <1>2, <1>3, <1>4, <1>5 DEF Next, RequestStep, Tick, Rotate, vars

LEMMA PlaceInit == Init => PlaceInv
BY DEF Init, PlaceInv, Placed, Fetching

\* Whoever is served was charged and admitted, with a body that is not too large, and is an
\* admin by the mode in force, whichever of the two middlewares authenticated him and however
\* keys, fetches and the clock moved in between (rateLimitMiddleware, AdminAuthMiddlewareWith).
THEOREM ServedHaveEarned == Spec => []ServedIsEarned
<1>1. TypeOK /\ LimiterInv /\ PlaceInv /\ [Next]_vars => PlaceInv'
  BY PlaceStep
<1>2. PlaceInv => ServedIsEarned
  BY DEF PlaceInv, Placed, Earned, ServedIsEarned
<1>4. QED
  BY <1>1, <1>2, PlaceInit, TypeAndLimiter, PTL DEF Spec

-----------------------------------------------------------------------------
(* The refresh slot.                                                       *)

\* Nobody who has been authenticated, or not, or charged is still fetching.
LEMMA MovesOn ==
    ASSUME NEW r \in Requests, call[r] \in Call, NEW place \in {"limit", "gate"}, NEW result \in Results
    PROVE  Authenticated(r, place, result).step \in {"allow", "done"}
<1> DEFINE a == Authenticated(r, place, result)
<1>1. a.step = (IF place = "limit" THEN "allow" ELSE "done")
  BY AuthenticatedIs
<1> HIDE DEF a
<1>2. a.step \in {"allow", "done"}
  BY <1>1
<1>3. QED
  BY <1>2 DEF a

LEMMA FetchStep ==
    ASSUME TypeOK, LimiterInv, FetchInv, [Next]_vars
    PROVE  FetchInv'
<1> USE AdminGateAssumption, KeySetAssumption
<1>a. /\ now \in Nat /\ ks \in KeySets /\ ks.lastAttempt \in Nat /\ ks.fetchedAt \in Nat
      /\ call \in [Requests -> Call] /\ \A r \in Requests : call[r].at \in Nat
  BY DEF TypeOK, KeySets, Call
<1>1. CASE UNCHANGED <<now, ks, call>>
  BY <1>1 DEF FetchInv, Fetching
<1>2. CASE Tick
  BY <1>2, <1>a DEF Tick, FetchInv, Fetching
<1>3. ASSUME NEW r \in Requests, NEW d, call' = [call EXCEPT ![r] = d],
             d.step \notin {"fetch_limit", "fetch_gate"}, UNCHANGED now,
             ks'.lastAttempt = ks.lastAttempt, ks'.fetchedAt <= ks.lastAttempt
      PROVE  FetchInv'
  <2>1. ASSUME NEW q \in Requests, Fetching(q)' PROVE q # r /\ call'[q] = call[q] /\ Fetching(q)
    BY <1>3, <1>a, <2>1 DEF Fetching
  <2>2. QED
    BY <1>3, <2>1 DEF FetchInv
<1>4. ASSUME NEW r \in Requests, Arrive(r) PROVE FetchInv'
  BY <1>4, <1>3, ArriveIs DEF Arrive, FetchInv
<1>5. ASSUME NEW r \in Requests, Check(r) PROVE FetchInv'
  <2>1. CASE Claims(r)
    <3>1. ks'.lastAttempt = now /\ ks'.fetchedAt = ks.fetchedAt /\ UNCHANGED now
      BY <1>5, <1>a, <2>1 DEF Claims, Claimed, KeySets, Check
    <3>2. \A q \in Requests : ~Fetching(q)
      BY <1>a, <2>1 DEF Claims, Throttled, FetchInv
    <3>3. \A q \in Requests \ {r} : call'[q] = call[q]
      BY <1>a, <2>1 DEF Claims
    <3>4. call'[r].at = now
      BY <2>1 DEF Claims
    <3>5. \A q \in Requests : Fetching(q)' => q = r
      BY <3>2, <3>3 DEF Fetching
    <3>6. QED
      BY <1>a, <3>1, <3>4, <3>5 DEF FetchInv
  <2>2. CASE Authenticate(call[r].input) # "fetch" /\ UNCHANGED ks
               /\ Settles(r, call[r].step, Authenticate(call[r].input))
    <3>1. Authenticate(call[r].input) \in Results /\ call[r].step \in {"limit", "gate"}
      BY <1>5, <2>2, AuthenticateType, CheckIs
    <3>2. Authenticated(r, call[r].step, Authenticate(call[r].input)).step \in {"allow", "done"}
      BY <1>a, <3>1, MovesOn
    <3>3. UNCHANGED now
      BY <1>5 DEF Check
    <3>4. QED
      BY <1>3, <2>2, <3>2, <3>3 DEF FetchInv, Settles
  <2>3. QED
    BY <1>5, <2>1, <2>2, CheckIs
<1>6. ASSUME NEW r \in Requests, FetchSucceeds(r) \/ FetchFails(r) PROVE FetchInv'
  <2>1. PICK result \in Results : Settles(r, Place(r), result)
    BY <1>6, FetchIs
  <2>2. Authenticated(r, Place(r), result).step \in {"allow", "done"}
    BY <1>6, <1>a, FetchIs, MovesOn
  <2>3. UNCHANGED now /\ ks'.lastAttempt = ks.lastAttempt
    BY <1>6, <1>a DEF FetchSucceeds, FetchFails, Stored, Failed, KeySets
  <2>4. ks'.fetchedAt <= ks.lastAttempt
    <3>1. CASE FetchSucceeds(r)
      <4>1. ks'.fetchedAt = call[r].at /\ Fetching(r)
        BY <1>a, <3>1 DEF FetchSucceeds, Stored, KeySets
      <4>2. QED
        BY <1>a, <4>1 DEF FetchInv
    <3>2. CASE FetchFails(r)
      BY <1>a, <3>2 DEF FetchFails, Failed, KeySets, FetchInv
    <3>3. QED
      BY <1>6, <3>1, <3>2
  <2>5. QED
    BY <1>3, <2>1, <2>2, <2>3, <2>4 DEF Settles
<1>7. ASSUME NEW r \in Requests, Charge(r) PROVE FetchInv'
  <2>1. call' = [call EXCEPT ![r] = call'[r]] /\ call'[r].step \in {"done", "gate"}
    BY <1>7, ChargeIs
  <2>2. UNCHANGED <<now, ks>>
    BY <1>7 DEF Charge
  <2>3. QED
    BY <1>3, <2>1, <2>2 DEF FetchInv
<1>8. QED
  BY <1>1, <1>2, <1>4, <1>5, <1>6, <1>7 DEF Next, RequestStep, Rotate, vars

LEMMA FetchInit == Init => FetchInv
BY DEF Init, FetchInv, Fetching, Refreshed

\* However many requests need a key that is not cached, one of them fetches: whoever claims the
\* slot finds it free, and it is not free again before the fetch has ended (keySet.get).
THEOREM OneFetch == Spec => []OneFetchAtATime
<1>1. TypeOK /\ LimiterInv /\ FetchInv /\ [Next]_vars => FetchInv'
  BY FetchStep
<1>2. FetchInv => OneFetchAtATime
  <2> SUFFICES ASSUME FetchInv PROVE OneFetchAtATime
    OBVIOUS
  <2> DEFINE F == {r \in Requests : Fetching(r)}
  <2>1. CASE F = {}
    BY <2>1, FS_EmptySet DEF OneFetchAtATime
  <2>2. CASE F # {}
    <3>1. PICK r : r \in F
      BY <2>2
    <3>2. F = {r}
      BY <3>1 DEF FetchInv
    <3>3. Cardinality(F) = 1
      BY <3>2, FS_Singleton
    <3>4. QED
      BY <3>3 DEF OneFetchAtATime
  <2>3. QED
    BY <2>1, <2>2
<1>3. QED
  BY <1>1, <1>2, FetchInit, TypeAndLimiter, PTL DEF Spec

-----------------------------------------------------------------------------
(* The keys that are cached and the keys that are published.               *)

LEMMA KeysInit == Init => KeysInv
<1> SUFFICES ASSUME Init PROVE KeysInv
  OBVIOUS
<1>1. /\ ks.keys = FirstKeys /\ ks.fetchedAt = 0 /\ ks.lastAttempt = 0 /\ now = 0
      /\ \A r \in Requests : ~Fetching(r)
  BY DEF Init, Refreshed, Fetching
<1>2. since \in [Kids -> (-FetchTimeout)..0] /\ FetchTimeout \in Nat
  BY KeySetAssumption DEF Init
<1>3. \A k \in Kids : since[k] <= 0 /\ 0 <= since[k] + FetchTimeout
  BY <1>2
<1>4. QED
  BY <1>1, <1>3 DEF KeysInv, StampLag

LEMMA KeysStep ==
    ASSUME TypeOK, LimiterInv, FetchInv, KeysInv, [Next]_vars
    PROVE  KeysInv'
<1> USE AdminGateAssumption, KeySetAssumption
<1>a. /\ now \in Nat /\ ks \in KeySets /\ ks.lastAttempt \in Nat /\ ks.fetchedAt \in Nat
      /\ call \in [Requests -> Call] /\ \A r \in Requests : call[r].at \in Nat
      /\ since \in [Kids -> Int] /\ StampLag(ks.fetchedAt) \in Nat
  BY DEF TypeOK, KeySets, Call, StampLag
<1>1. CASE UNCHANGED vars
  BY <1>1 DEF vars, KeysInv, Fetching
<1>2. CASE Tick
  BY <1>2, <1>a DEF Tick, KeysInv, Fetching
<1>3. ASSUME NEW k \in Kids, Rotate(k) PROVE KeysInv'
  <2>1. \A j \in Kids \ {k} : since'[j] = since[j] /\ (j \in published' <=> j \in published)
    BY <1>3, <1>a DEF Rotate
  <2>2. since'[k] = now /\ ks.fetchedAt <= now
    BY <1>3, <1>a DEF Rotate, FetchInv
  <2>3. QED
    BY <1>3, <1>a, <2>1, <2>2 DEF Rotate, KeysInv, Fetching
\* A step of one request that leaves the keys alone and does not fetch.
<1>4. ASSUME NEW r \in Requests, NEW d, call' = [call EXCEPT ![r] = d],
             d.step \notin {"fetch_limit", "fetch_gate"}, ~Fetching(r),
             UNCHANGED <<now, published, since, failures, ks>>
      PROVE  KeysInv'
  <2>1. \A q \in Requests \ {r} : call'[q] = call[q]
    BY <1>4, <1>a
  <2>2. call'[r] = d
    BY <1>4, <1>a
  <2>3. \A q \in Requests : Fetching(q)' <=> q # r /\ Fetching(q)
    BY <1>4, <2>1, <2>2 DEF Fetching
  <2>4. (\A q \in Requests : ~Fetching(q)') => \A q \in Requests : ~Fetching(q)
    BY <1>4, <2>3
  <2>5. QED
    BY <1>4, <2>1, <2>3, <2>4 DEF KeysInv
<1>5. ASSUME NEW r \in Requests, Arrive(r) PROVE KeysInv'
  <2>1. call' = [call EXCEPT ![r] = call'[r]] /\ call'[r].step = "limit" /\ call[r].step = "new"
    BY <1>5, ArriveIs
  <2>2. UNCHANGED <<now, published, since, failures, ks>>
    BY <1>5 DEF Arrive
  <2>3. QED
    BY <1>4, <2>1, <2>2 DEF Fetching
<1>6. ASSUME NEW r \in Requests, Check(r) PROVE KeysInv'
  <2>1. UNCHANGED <<now, published, since, failures>>
    BY <1>6 DEF Check
  <2>2. CASE Claims(r)
    <3> DEFINE kid == call[r].input.kid
    <3>1. ks'.keys = ks.keys /\ ks'.fetchedAt = ks.fetchedAt
      BY <1>a, <2>2 DEF Claims, Claimed, KeySets
    <3>2. \A q \in Requests \ {r} : call'[q] = call[q]
      BY <1>a, <2>2 DEF Claims
    <3>3. \A q \in Requests : ~Fetching(q)
      BY <1>a, <2>2 DEF Claims, Throttled, FetchInv
    <3>0. now # 0
      BY <1>a, <2>2 DEF Claims, Throttled, FetchInv
    <3>4. Fetching(r)'
      BY <1>6, <2>2, CheckIs DEF Claims, Fetching
    <3>5. \A q \in Requests : Fetching(q)' => q = r
      BY <3>2, <3>3 DEF Fetching
    <3>6. call'[r].input.kid = kid /\ call'[r].at = now
      BY <2>2 DEF Claims
    <3>7. call'[r].stale => kid \in ks.keys /\ now - ks.fetchedAt <= 2 * MaxAge
      BY <2>2 DEF Claims, CanServeStale
    <3>8. QED
      BY <2>1, <3>0, <3>1, <3>4, <3>5, <3>6, <3>7 DEF KeysInv
  <2>3. CASE Authenticate(call[r].input) # "fetch" /\ UNCHANGED ks
               /\ Settles(r, call[r].step, Authenticate(call[r].input))
    <3>1. Authenticate(call[r].input) \in Results /\ call[r].step \in {"limit", "gate"}
      BY <1>6, <2>3, AuthenticateType, CheckIs
    <3>2. Authenticated(r, call[r].step, Authenticate(call[r].input)).step \in {"allow", "done"}
      BY <1>a, <3>1, MovesOn
    <3>3. ~Fetching(r)
      BY <3>1 DEF Fetching
    <3>4. QED
      BY <1>4, <2>1, <2>3, <3>2, <3>3 DEF Settles
  <2>4. QED
    BY <1>6, <2>2, <2>3, CheckIs
<1>7. ASSUME NEW r \in Requests, FetchSucceeds(r) \/ FetchFails(r) PROVE KeysInv'
  <2>1. PICK result \in Results : Settles(r, Place(r), result)
    BY <1>7, FetchIs
  <2>2. Authenticated(r, Place(r), result).step \in {"allow", "done"}
    BY <1>7, <1>a, FetchIs, MovesOn
  <2>3. UNCHANGED <<now, published, since>> /\ Fetching(r)
    BY <1>7 DEF FetchSucceeds, FetchFails
  <2>4. \A q \in Requests : ~Fetching(q)'
    <3>1. ~Fetching(r)'
      BY <1>a, <2>1, <2>2 DEF Settles, Fetching
    <3>2. ASSUME NEW q \in Requests, q # r PROVE ~Fetching(q)'
      <4>1. call'[q] = call[q] /\ ~Fetching(q)
        BY <1>a, <2>1, <2>3, <3>2 DEF Settles, FetchInv
      <4>2. QED
        BY <4>1 DEF Fetching
    <3>3. QED
      BY <3>1, <3>2
  <2>5. CASE FetchSucceeds(r)
    <3>1. /\ ks'.keys \in Answers(call[r].at) /\ ks'.fetchedAt = call[r].at
          /\ ks'.lastAttempt = ks.lastAttempt
      BY <1>a, <2>5 DEF FetchSucceeds, Stored, KeySets
    <3>2. call[r].at = ks.lastAttempt
      BY <2>3 DEF FetchInv
    <3>3. StampLag(call[r].at) = 0
      BY <2>3 DEF KeysInv, StampLag
    <3>4. \A k \in Kids : (k \in ks'.keys) # (k \in published) => call[r].at <= since[k] + 0
      BY <1>a, <3>1 DEF Answers
    <3>5. QED
      BY <2>3, <2>4, <3>1, <3>2, <3>3, <3>4 DEF KeysInv
  <2>6. CASE FetchFails(r)
    <3>1. ks'.keys = ks.keys /\ ks'.fetchedAt = ks.fetchedAt /\ failures' = 1
      BY <1>a, <2>6 DEF FetchFails, Failed, KeySets
    <3>2. QED
      BY <2>3, <2>4, <3>1 DEF KeysInv
  <2>7. QED
    BY <1>7, <2>5, <2>6
<1>8. ASSUME NEW r \in Requests, Charge(r) PROVE KeysInv'
  <2>1. /\ call' = [call EXCEPT ![r] = call'[r]] /\ call'[r].step \in {"done", "gate"}
        /\ call[r].step = "allow"
    BY <1>8, ChargeIs
  <2>2. UNCHANGED <<now, published, since, failures, ks>>
    BY <1>8 DEF Charge
  <2>3. QED
    BY <1>4, <2>1, <2>2 DEF Fetching
<1>9. QED
  BY <1>1, <1>2, <1>3, <1>5, <1>6, <1>7, <1>8 DEF Next, RequestStep

LEMMA FetchAndKeys == Spec => [](TypeOK /\ LimiterInv /\ PlaceInv /\ FetchInv /\ KeysInv)
<1>1. TypeOK /\ LimiterInv /\ FetchInv /\ [Next]_vars => FetchInv'
  BY FetchStep
<1>2. TypeOK /\ LimiterInv /\ FetchInv /\ KeysInv /\ [Next]_vars => KeysInv'
  BY KeysStep
<1>3. TypeOK /\ LimiterInv /\ PlaceInv /\ [Next]_vars => PlaceInv'
  BY PlaceStep
<1>4. QED
  BY <1>1, <1>2, <1>3, PlaceInit, FetchInit, KeysInit, TypeAndLimiter, PTL DEF Spec

\* Only a request's own steps move it.
LEMMA OwnStep ==
    ASSUME TypeOK, LimiterInv, [Next]_vars, NEW r \in Requests, call'[r] # call[r]
    PROVE  Arrive(r) \/ RequestStep(r)
<1> SUFFICES ASSUME NEW q \in Requests, q # r, Arrive(q) \/ RequestStep(q) PROVE FALSE
  BY DEF Next, Tick, Rotate, vars
<1>1. PICK d : call' = [call EXCEPT ![q] = d]
  BY CheckIs, FetchIs, ChargeIs, ArriveIs DEF RequestStep, Claims, Settles
<1>2. QED
  BY <1>1 DEF TypeOK

\* What becomes of a request that authenticating settles.
LEMMA SettledIs ==
    ASSUME TypeOK, NEW r \in Requests, NEW place \in {"limit", "gate"}, NEW result \in Results,
           Settles(r, place, result)
    PROVE  call'[r].principal <=> result = "authenticated"
<1> DEFINE a == Authenticated(r, place, result)
<1>1. call'[r] = a /\ call[r] \in Call
  BY SettledType DEF TypeOK
<1>2. a.principal = (result = "authenticated")
  BY <1>1, AuthenticatedIs
<1> HIDE DEF a
<1>3. QED
  BY <1>1, <1>2

\* A key the identity provider has retired is accepted no longer than the grace the cache
\* allows: MaxAge, twice that while another request fetches, and twice that and one fetch once
\* fetches fail; and one fetch more while the keys of start-up are cached (keySet.get, refresh).
THEOREM RetiredKeys == Spec => RetiredKeysExpire
<1> DEFINE Expires(r) == AcceptsKey(r) => \/ call[r].input.kid \in published
                                          \/ now - since[call[r].input.kid] <= Grace(r) + StampLag(ks.fetchedAt)
<1>1. ASSUME TypeOK, LimiterInv, PlaceInv, FetchInv, KeysInv, [Next]_vars, NEW r \in Requests,
             AcceptsKey(r), call[r].input.kid \notin published
      PROVE  now - since[call[r].input.kid] <= Grace(r) + StampLag(ks.fetchedAt)
  <2> DEFINE i == call[r].input
             lag == StampLag(ks.fetchedAt)
  <2> USE KeySetAssumption, AdminGateAssumption
  <2>a. /\ now \in Nat /\ ks.lastAttempt \in Nat /\ ks.fetchedAt \in Nat /\ call[r].at \in Nat
        /\ i \in AllInputs /\ call[r] \in Call /\ since \in [Kids -> Int]
        /\ lag \in Nat /\ FetchTimeout \in Nat /\ MaxAge \in Nat
    <3>1. now \in Nat /\ call[r] \in Call /\ since \in [Kids -> Int] /\ ks \in KeySets
      BY <1>1 DEF TypeOK
    <3>2. QED
      BY <3>1 DEF KeySets, Call, StampLag
  <2>b. i.kid \in Kids /\ since[i.kid] \in Int
    BY <2>a, InputType
  <2> HIDE DEF lag
  <2>c. i.kid \in ks.keys => now - since[i.kid] <= now - ks.fetchedAt + lag
    BY <1>1, <2>a, <2>b DEF KeysInv, lag
  <2>1. Arrive(r) \/ RequestStep(r)
    BY <1>1, OwnStep DEF AcceptsKey
  <2>2. CASE Arrive(r) \/ Charge(r)
    BY <1>1, <2>2, ArriveIs, ChargeIs DEF AcceptsKey
  <2>3. CASE Check(r)
    <3>1. ~Claims(r)
      BY <1>1 DEF Claims, AcceptsKey
    <3>2. Authenticate(i) # "fetch" /\ Settles(r, call[r].step, Authenticate(i))
      BY <1>1, <2>3, <3>1, CheckIs
    <3>3. call[r].step \in {"limit", "gate"} /\ ~Fetching(r) /\ UNCHANGED failures
      BY <2>3 DEF Check, Fetching
    <3>4. Authenticate(i) \in Results
      BY <3>2, AuthenticateType
    <3>5. Authenticate(i) = "authenticated"
      BY <1>1, <3>2, <3>3, <3>4, SettledIs DEF AcceptsKey
    <3>6. Lookup(ks, i.kid, now) = "key"
      <4>1. Lookup(ks, i.kid, now) \in {"key", "fetch", "unavailable", "invalid"}
        BY DEF Lookup
      <4>2. QED
        BY <1>1, <3>5, <4>1 DEF Authenticate, AcceptsKey
    <3>7. /\ i.kid \in ks.keys /\ now - ks.fetchedAt <= 2 * MaxAge
          /\ now - ks.fetchedAt <= MaxAge \/ now - ks.lastAttempt < RefreshMin
      BY <2>a, <3>6 DEF Lookup, Young, Throttled, CanServeStale
    <3>8. CASE failures' > 0
      BY <2>a, <2>b, <2>c, <3>7, <3>8 DEF Grace, lag
    <3>9. CASE ~(failures' > 0) /\ \E q \in Requests \ {r} : Fetching(q)
      BY <2>a, <2>b, <2>c, <3>7, <3>9 DEF Grace, lag
    <3>10. CASE ~(failures' > 0) /\ ~\E q \in Requests \ {r} : Fetching(q)
      <4>1. failures = 0 /\ \A q \in Requests : ~Fetching(q)
        BY <1>1, <3>3, <3>10 DEF TypeOK
      <4>2. ks.lastAttempt = ks.fetchedAt
        BY <1>1, <4>1 DEF KeysInv
      <4>3. QED
        BY <2>a, <2>b, <2>c, <3>7, <3>10, <4>2 DEF Grace, lag
    <3>11. QED
      BY <3>8, <3>9, <3>10
  <2>4. CASE FetchSucceeds(r)
    <3>1. PICK keys \in Answers(call[r].at) :
            Settles(r, Place(r), IF i.kid \in keys THEN Judged(i) ELSE "unauthorized")
      BY <2>4 DEF FetchSucceeds, Settles
    <3> DEFINE result == IF i.kid \in keys THEN Judged(i) ELSE "unauthorized"
    <3>2. result \in Results /\ Place(r) \in {"limit", "gate"} /\ Fetching(r)
      BY <2>4, AuthenticateType DEF Results, Place, FetchSucceeds
    <3>3. result = "authenticated"
      <4>1. Settles(r, Place(r), result)
        BY <3>1
      <4> HIDE DEF result
      <4>2. QED
        BY <1>1, <3>2, <4>1, SettledIs DEF AcceptsKey
    <3>4. call[r].at <= since[i.kid]
      BY <1>1, <2>b, <3>1, <3>3 DEF Answers
    <3>5. now <= call[r].at + FetchTimeout
      BY <1>1, <3>2 DEF FetchInv
    <3>6. Grace(r) \in Nat /\ Grace(r) >= FetchTimeout
      BY <2>a DEF Grace
    <3>7. QED
      BY <2>a, <2>b, <3>4, <3>5, <3>6 DEF lag
  <2>5. CASE FetchFails(r)
    <3> DEFINE result == IF call[r].stale THEN Judged(i) ELSE "unavailable"
    <3>1. Settles(r, Place(r), result) /\ Fetching(r)
      BY <1>1, <2>5 DEF FetchFails, Settles
    <3>2. result \in Results /\ Place(r) \in {"limit", "gate"}
      BY AuthenticateType DEF Results, Place
    <3>3. result = "authenticated"
      <4> HIDE DEF result
      <4>1. QED
        BY <1>1, <3>1, <3>2, SettledIs DEF AcceptsKey
    <3>4. call[r].stale
      BY <3>3
    <3>5. /\ i.kid \in ks.keys /\ call[r].at - ks.fetchedAt <= 2 * MaxAge
          /\ now <= call[r].at + FetchTimeout
      BY <1>1, <3>1, <3>4 DEF KeysInv, FetchInv
    <3>6. now - ks.fetchedAt <= 2 * MaxAge + FetchTimeout
      BY <2>a, <3>5
    <3>7. failures' > 0
      BY <2>5 DEF FetchFails
    <3>8. QED
      BY <2>a, <2>b, <2>c, <3>5, <3>6, <3>7 DEF Grace, lag
  <2>6. QED
    BY <2>1, <2>2, <2>3, <2>4, <2>5 DEF RequestStep
<1>2. TypeOK /\ LimiterInv /\ PlaceInv /\ FetchInv /\ KeysInv /\ [Next]_vars
        => [\A r \in Requests : Expires(r)]_vars
  BY <1>1
<1>3. QED
  BY <1>2, FetchAndKeys, PTL DEF Spec, RetiredKeysExpire

\* While fetches succeed, an admin whose token is signed with a published key is refused for the
\* key only while another request is fetching, or within RefreshMin of its publication, and the
\* time of one fetch more before the keys of start-up are fetched again (keySet.get, refresh).
THEOREM RotationPickedUp == Spec => RotationIsPickedUp
<1> DEFINE PickedUp(r) == failures' = 0 /\ Refuses(r) /\ GoodToken(call[r].input) =>
                            \/ \E q \in Requests \ {r} : Fetching(q)
                            \/ now - since[call[r].input.kid] < RefreshMin + StampLag(ks.lastAttempt)
<1>1. ASSUME TypeOK, LimiterInv, FetchInv, KeysInv, [Next]_vars, NEW r \in Requests,
             failures' = 0, Refuses(r), GoodToken(call[r].input),
             ~\E q \in Requests \ {r} : Fetching(q)
      PROVE  now - since[call[r].input.kid] < RefreshMin + StampLag(ks.lastAttempt)
  <2> DEFINE i == call[r].input
  <2> USE KeySetAssumption, AdminGateAssumption
  <2>a. /\ now \in Nat /\ ks.lastAttempt \in Nat /\ ks.fetchedAt \in Nat
        /\ i \in AllInputs /\ call[r] \in Call /\ since \in [Kids -> Int] /\ call[r].at \in Nat
        /\ StampLag(ks.lastAttempt) \in Nat
    <3>1. now \in Nat /\ call[r] \in Call /\ since \in [Kids -> Int] /\ ks \in KeySets
      BY <1>1 DEF TypeOK
    <3>2. QED
      BY <3>1 DEF KeySets, Call, StampLag
  <2>b. i.kid \in Kids /\ since[i.kid] \in Int
    BY <2>a, InputType
  <2>1. Arrive(r) \/ RequestStep(r)
    BY <1>1, OwnStep DEF Refuses
  <2>2. CASE Arrive(r) \/ Charge(r)
    BY <1>1, <2>2, ArriveIs, ChargeIs DEF Refuses
  <2>3. CASE Check(r)
    <3>1. ~Claims(r)
      BY <1>1 DEF Claims, Refuses
    <3>2. Authenticate(i) # "fetch" /\ Settles(r, call[r].step, Authenticate(i))
      BY <1>1, <2>3, <3>1, CheckIs
    <3>3. call[r].step \in {"limit", "gate"} /\ ~Fetching(r) /\ UNCHANGED failures
      BY <2>3 DEF Check, Fetching
    <3>4. Authenticate(i) \in Results
      BY <3>2, AuthenticateType
    <3>5. Authenticate(i) # "authenticated"
      BY <1>1, <3>2, <3>3, <3>4, SettledIs DEF Refuses
    <3>6. Lookup(ks, i.kid, now) \in {"unavailable", "invalid"}
      <4>1. Lookup(ks, i.kid, now) \in {"key", "fetch", "unavailable", "invalid"}
        BY DEF Lookup
      <4>2. QED
        BY <1>1, <3>2, <3>5, <4>1 DEF Authenticate, Refuses, GoodToken
    <3>7. now - ks.lastAttempt < RefreshMin /\ ~Young(ks, i.kid, now)
      BY <3>6 DEF Lookup, Throttled
    <3>8. failures = 0 /\ \A q \in Requests : ~Fetching(q)
      BY <1>1, <3>3
    <3>9. ks.lastAttempt = ks.fetchedAt
      BY <1>1, <3>8 DEF KeysInv
    <3>10. i.kid \notin ks.keys
      BY <2>a, <3>7, <3>9 DEF Young
    <3>11. ks.fetchedAt <= since[i.kid] + StampLag(ks.lastAttempt)
      BY <1>1, <2>b, <3>9, <3>10 DEF KeysInv, GoodToken
    <3>12. QED
      BY <2>a, <2>b, <3>7, <3>9, <3>11
  <2>4. CASE FetchSucceeds(r)
    <3>1. PICK keys \in Answers(call[r].at) :
            Settles(r, Place(r), IF i.kid \in keys THEN Judged(i) ELSE "unauthorized")
      BY <2>4 DEF FetchSucceeds, Settles
    <3>2. Place(r) \in {"limit", "gate"} /\ "authenticated" \in Results /\ Fetching(r)
      BY <2>4 DEF Place, Results, FetchSucceeds
    <3>3. i.kid \notin keys
      BY <1>1, <3>1, <3>2, SettledIs DEF Refuses, GoodToken
    <3>4. call[r].at <= since[i.kid]
      BY <1>1, <2>b, <3>1, <3>3 DEF Answers, GoodToken
    <3>5. now <= call[r].at + FetchTimeout
      BY <1>1, <3>2 DEF FetchInv
    <3>6. QED
      BY <2>a, <2>b, <3>4, <3>5
  <2>5. CASE FetchFails(r)
    BY <1>1, <2>5 DEF FetchFails
  <2>6. QED
    BY <2>1, <2>2, <2>3, <2>4, <2>5 DEF RequestStep
<1>2. TypeOK /\ LimiterInv /\ FetchInv /\ KeysInv /\ [Next]_vars
        => [\A r \in Requests : PickedUp(r)]_vars
  BY <1>1
<1>3. QED
  BY <1>2, FetchAndKeys, PTL DEF Spec, RotationIsPickedUp

-----------------------------------------------------------------------------
(* The rate.                                                               *)

LEMMA GivenType ==
    ASSUME NEW S \in SUBSET Requests
    PROVE  /\ Given(S) \in Nat /\ Given({}) = 0
           /\ \A T \in SUBSET S : Given(T) <= Given(S)
           /\ \A r \in Requests \ S : Given(S \cup {r}) = Given(S) + Unit
<1>1. IsFiniteSet(S) /\ Cardinality(S) \in Nat
  BY AdminGateAssumption, FS_Subset, FS_CardinalityType
<1>2. Given(S) \in Nat
  BY <1>1, CapType DEF Given
<1>3. Given({}) = 0
  BY FS_EmptySet, CapType DEF Given
<1>4. ASSUME NEW T \in SUBSET S PROVE Given(T) <= Given(S)
  <2>1. Cardinality(T) \in Nat /\ Cardinality(T) <= Cardinality(S)
    BY <1>1, FS_Subset, FS_CardinalityType
  <2>2. ASSUME NEW m \in Nat, NEW n \in Nat, NEW u \in Nat, m <= n PROVE m * u <= n * u
    <3>1. (n - m) * u \in Nat /\ n * u = (n - m) * u + m * u /\ m * u \in Nat
      BY <2>2
    <3>2. QED
      BY <3>1
  <2>3. QED
    BY <1>1, <2>1, <2>2, CapType DEF Given
<1>5. ASSUME NEW r \in Requests \ S PROVE Given(S \cup {r}) = Given(S) + Unit
  <2>1. Cardinality(S \cup {r}) = Cardinality(S) + 1
    BY <1>1, FS_AddElement
  <2>2. ASSUME NEW n \in Nat, NEW u \in Nat PROVE (n + 1) * u = n * u + u
    OBVIOUS
  <2>3. QED
    BY <1>1, <2>1, <2>2, CapType DEF Given
<1>6. QED
  BY <1>2, <1>3, <1>4, <1>5

\* What bounds what was given out and what is left bounds what was given out in part.
LEMMA PartIsBounded ==
    ASSUME NEW S \in SUBSET Requests, NEW T \in SUBSET S, NEW left \in Nat, NEW bound \in Nat,
           Given(S) + left <= bound
    PROVE  Given(T) <= bound
<1>1. Given(S) \in Nat /\ Given(T) \in Nat /\ Given(T) <= Given(S)
  BY GivenType
<1>2. QED
  BY <1>1

LEMMA RateInit == Init => RateInv
<1> SUFFICES ASSUME Init PROVE RateInv
  OBVIOUS
<1>1. now = 0 /\ TypeOK /\ LimiterInv
  BY TypeInit DEF Init
<1>2. \A r \in Requests : ~call[r].admitted /\ call[r].chargedAt = 0
  BY DEF Init
<1>3. Refilled(0, 0) = 0
  BY FastestIs DEF Refilled
<1>4. ASSUME NEW b \in BucketKeys, NEW from, NEW to
      PROVE  Given(AdmittedSince(b, from)) = 0 /\ Given(AdmittedBetween(b, from, to)) = 0
  <2>1. AdmittedSince(b, from) = {} /\ AdmittedBetween(b, from, to) = {}
    BY <1>2 DEF AdmittedSince, AdmittedBetween
  <2>2. QED
    BY <2>1, GivenType
<1>5. \A b \in BucketKeys : Available(limiter, b, 0) \in 0..Cap
  BY <1>1, TickRefills DEF LimiterInv
<1>6. 0..now = {0}
  BY <1>1
<1>7. QED
  BY <1>1, <1>2, <1>3, <1>4, <1>5, <1>6, CapType DEF RateInv

\* What nobody's charge depends on.
SameCharges ==
    \A r \in Requests :
      LET c == call[r]
          d == call'[r]
      IN  /\ d.admitted = c.admitted /\ d.chargedAt = c.chargedAt
          /\ c.admitted => d.bucket = c.bucket

LEMMA SameChargesStay ==
    ASSUME TypeOK, RateInv, SameCharges, UNCHANGED <<now, limiter>>
    PROVE  RateInv'
<1>1. ASSUME NEW b, NEW from, NEW to
      PROVE  AdmittedSince(b, from)' = AdmittedSince(b, from)
             /\ AdmittedBetween(b, from, to)' = AdmittedBetween(b, from, to)
  BY DEF SameCharges, AdmittedSince, AdmittedBetween
<1>2. \A r \in Requests : call'[r].chargedAt = call[r].chargedAt
  BY DEF SameCharges
<1>3. QED
  BY <1>1, <1>2 DEF RateInv, Available, Given

\* A request is not charged by what it does in the other middlewares.
LEMMA OnlyChargeCharges ==
    ASSUME TypeOK, LimiterInv, PlaceInv, NEW r \in Requests,
           Arrive(r) \/ Check(r) \/ FetchSucceeds(r) \/ FetchFails(r)
    PROVE  SameCharges /\ UNCHANGED <<now, limiter>>
<1>1. UNCHANGED <<now, limiter>>
  BY DEF Arrive, Check, FetchSucceeds, FetchFails
<1>2. ASSUME \A q \in Requests \ {r} : call'[q] = call[q],
             call'[r].admitted = call[r].admitted, call'[r].chargedAt = call[r].chargedAt,
             call[r].admitted => call'[r].bucket = call[r].bucket
      PROVE  SameCharges
  BY <1>2 DEF SameCharges
<1>b. ASSUME NEW d, call' = [call EXCEPT ![r] = d]
      PROVE  \A q \in Requests \ {r} : call'[q] = call[q]
  BY <1>b DEF TypeOK
<1>3. CASE Arrive(r)
  <2>1. /\ call' = [call EXCEPT ![r] = call'[r]]
        /\ call'[r].admitted = call[r].admitted /\ call'[r].chargedAt = call[r].chargedAt
        /\ call'[r].bucket = call[r].bucket
    BY <1>3, ArriveIs
  <2>2. QED
    BY <1>1, <1>2, <1>b, <2>1
<1>4. ASSUME NEW place \in {"limit", "gate"}, NEW result \in Results, Settles(r, place, result),
             place = "limit" => call[r].step \in {"limit", "fetch_limit"}
      PROVE  SameCharges
  <2> DEFINE a == Authenticated(r, place, result)
  <2>1. call[r] \in Call /\ Placed(r)
    BY DEF TypeOK, PlaceInv
  <2>2. a.admitted = call[r].admitted /\ a.chargedAt = call[r].chargedAt
    BY <2>1, AuthenticatedIs
  <2>3. call[r].admitted => a.bucket = call[r].bucket
    <3>1. call[r].admitted => place = "gate"
      BY <1>4, <2>1 DEF Placed
    <3>2. place = "gate" => a.bucket = call[r].bucket
      BY <2>1, AuthenticatedIs
    <3>3. QED
      BY <3>1, <3>2
  <2>4. call' = [call EXCEPT ![r] = a]
    BY <1>4 DEF Settles
  <2>5. call'[r] = a
    BY <1>4, SettledType
  <2> HIDE DEF a
  <2>6. \A q \in Requests \ {r} : call'[q] = call[q]
    BY <1>b, <2>4
  <2>7. QED
    BY <1>2, <2>2, <2>3, <2>5, <2>6
<1>5. CASE Check(r)
  <2>1. CASE Claims(r)
    <3>1. /\ call' = [call EXCEPT ![r] = call'[r]]
          /\ call'[r].admitted = call[r].admitted /\ call'[r].chargedAt = call[r].chargedAt
          /\ call'[r].bucket = call[r].bucket
      BY <2>1 DEF Claims
    <3>2. QED
      BY <1>1, <1>2, <1>b, <3>1
  <2>2. CASE Authenticate(call[r].input) # "fetch"
             /\ Settles(r, call[r].step, Authenticate(call[r].input))
    <3>1. Authenticate(call[r].input) \in Results /\ call[r].step \in {"limit", "gate"}
      BY <1>5, <2>2, AuthenticateType, CheckIs
    <3>2. QED
      BY <1>1, <1>4, <2>2, <3>1
  <2>3. QED
    BY <1>5, <2>1, <2>2, CheckIs
<1>6. CASE FetchSucceeds(r) \/ FetchFails(r)
  <2>1. Place(r) = "limit" => call[r].step \in {"limit", "fetch_limit"}
    BY DEF Place
  <2>2. Place(r) \in {"limit", "gate"}
    BY DEF Place
  <2>3. PICK result \in Results : Settles(r, Place(r), result)
    BY <1>6, FetchIs
  <2>4. QED
    BY <1>1, <1>4, <2>1, <2>2, <2>3
<1>7. QED
  BY <1>1, <1>3, <1>5, <1>6

\* Two sets that differ in one request at most.
LEMMA SetsApart ==
    ASSUME NEW r \in Requests, NEW A \in SUBSET Requests, NEW B \in SUBSET Requests, r \notin A,
           \A q \in Requests \ {r} : q \in B <=> q \in A
    PROVE  B = IF r \in B THEN A \cup {r} ELSE A
<1>1. CASE r \in B
  <2>1. \A q : q \in B <=> q \in A \cup {r}
    BY <1>1
  <2>2. QED
    BY <1>1, <2>1
<1>2. CASE r \notin B
  <2>1. \A q : q \in B <=> q \in A
    BY <1>2
  <2>2. QED
    BY <1>2, <2>1
<1>3. QED
  BY <1>1, <1>2

LEMMA RateStep ==
    ASSUME TypeOK, LimiterInv, PlaceInv, RateInv, [Next]_vars
    PROVE  RateInv'
<1> USE AdminGateAssumption
<1>a. /\ now \in Nat /\ call \in [Requests -> Call]
      /\ \A r \in Requests : call[r].chargedAt \in Nat /\ call[r].bucket \in BucketKeys
  BY DEF TypeOK, Call
<1>b. \A b, from, to : /\ AdmittedSince(b, from) \in SUBSET Requests
                       /\ AdmittedBetween(b, from, to) \in SUBSET Requests
  BY DEF AdmittedSince, AdmittedBetween
<1>c. TypeOK' /\ LimiterInv'
  BY TypeStep
<1>1. CASE UNCHANGED <<call, now, limiter>>
  BY <1>1, SameChargesStay DEF SameCharges
<1>2. CASE Tick
  <2>1. now' = now + 1 /\ UNCHANGED <<call, limiter>>
    BY <1>2, <1>a DEF Tick
  <2>2. \A b, from, to : /\ AdmittedSince(b, from)' = AdmittedSince(b, from)
                         /\ AdmittedBetween(b, from, to)' = AdmittedBetween(b, from, to)
    BY <2>1 DEF AdmittedSince, AdmittedBetween
  <2>3. ASSUME NEW b \in BucketKeys, NEW from \in 0..now'
        PROVE  Given(AdmittedSince(b, from)') + Available(limiter', b, now')
                 <= Cap + Refilled(from, now')
    <3>1. /\ Available(limiter, b, now) \in 0..Cap /\ Available(limiter, b, now + 1) \in 0..Cap
          /\ Available(limiter, b, now + 1) <= Available(limiter, b, now) + Fastest
      BY <1>a, TickRefills DEF LimiterInv
    <3>2. CASE from \in 0..now
      <4>1. Given(AdmittedSince(b, from)) + Available(limiter, b, now) <= Cap + Refilled(from, now)
        BY <3>2 DEF RateInv
      <4>2. /\ Refilled(from, now + 1) = Refilled(from, now) + Refilled(now, now + 1)
            /\ Refilled(from, now) \in Nat
        <5>1. from \in Nat /\ now + 1 \in Nat /\ from <= now
          BY <1>a, <3>2
        <5>2. Refilled(from, now) \in Nat
          BY <1>a, <5>1, RefilledType
        <5>3. Refilled(from, now + 1) = Refilled(from, now) + Refilled(now, now + 1)
          BY <1>a, <5>1, RefilledAdds
        <5>4. QED
          BY <5>2, <5>3
      <4>3. Refilled(now, now + 1) = Fastest
        BY <1>a, FastestIs DEF Refilled
      <4>4. Given(AdmittedSince(b, from)) \in Nat
        BY <1>b, GivenType
      <4>5. QED
        BY <2>1, <2>2, <3>1, <4>1, <4>2, <4>3, <4>4, CapType, FastestIs
    <3>3. CASE from = now + 1
      <4>1. AdmittedSince(b, from) = {}
        <5>1. \A r \in Requests : call[r].chargedAt <= now
          BY DEF RateInv
        <5>2. ASSUME NEW q \in Requests PROVE ~(from <= call[q].chargedAt)
          BY <1>a, <3>3, <5>1
        <5>3. QED
          BY <5>2 DEF AdmittedSince
      <4>2. Given(AdmittedSince(b, from)) = 0
        BY <1>b, <4>1, GivenType
      <4>3. Refilled(from, now + 1) = 0
        BY <1>a, <3>3, FastestIs DEF Refilled
      <4>4. QED
        BY <2>1, <2>2, <3>1, <4>2, <4>3, CapType
    <3>4. QED
      BY <1>a, <2>1, <3>2, <3>3
  <2>4. ASSUME NEW b \in BucketKeys, NEW from \in 0..now', NEW to \in 0..now', from <= to
        PROVE  Given(AdmittedBetween(b, from, to)') <= Cap + Refilled(from, to)
    <3>1. CASE to = now'
      <4>1. /\ AdmittedSince(b, from)' \in SUBSET Requests
            /\ AdmittedBetween(b, from, to)' \in SUBSET AdmittedSince(b, from)'
        BY <1>a, <2>1, <2>4 DEF AdmittedSince, AdmittedBetween
      <4>2. Available(limiter', b, now') \in Nat /\ Cap + Refilled(from, to) \in Nat
        <5>1. Available(limiter, b, now + 1) \in 0..Cap
          BY <1>a, TickRefills DEF LimiterInv
        <5>2. from \in Nat /\ to \in Nat
          BY <1>a, <2>1, <2>4
        <5>3. QED
          BY <2>1, <2>4, <5>1, <5>2, RefilledType, CapType
      <4>3. Given(AdmittedSince(b, from)') + Available(limiter', b, now') <= Cap + Refilled(from, to)
        BY <2>3, <2>4, <3>1
      <4>4. QED
        BY <4>1, <4>2, <4>3, PartIsBounded
    <3>2. CASE to # now'
      <4>1. from \in 0..now /\ to \in 0..now
        BY <1>a, <2>1, <2>4, <3>2
      <4>2. QED
        BY <2>2, <2>4, <4>1 DEF RateInv
    <3>3. QED
      BY <3>1, <3>2
  <2>5. \A r \in Requests : call'[r].chargedAt <= now'
    BY <1>a, <2>1 DEF RateInv
  <2>6. QED
    BY <2>1, <2>2, <2>3, <2>4, <2>5 DEF RateInv
<1>3. ASSUME NEW r \in Requests, Charge(r) PROVE RateInv'
  <2> DEFINE key == call[r].bucket
             ok == Allow(limiter, key, now).ok
             d == call'[r]
  <2>1. /\ ~call[r].admitted /\ key \in BucketKeys
        /\ \A q \in Requests \ {r} : call'[q] = call[q]
        /\ (d.admitted <=> ok) /\ d.bucket = key /\ d.chargedAt = now
    <3>1. call[r].step = "allow" /\ Placed(r)
      BY <1>3 DEF Charge, PlaceInv
    <3>2. QED
      BY <1>3, <1>a, <3>1, ChargeIs DEF Placed
  <2>2. UNCHANGED now /\ limiter' = Allow(limiter, key, now).lim
    BY <1>3 DEF Charge
  <2>3. /\ \A k \in BucketKeys \ {key} : Available(limiter', k, now) = Available(limiter, k, now)
        /\ Available(limiter, key, now) \in Nat /\ Available(limiter', key, now) \in Nat
        /\ Available(limiter', key, now) <=
             IF ok THEN Available(limiter, key, now) - Unit ELSE Available(limiter, key, now)
    BY <1>a, <2>1, <2>2, AllowSpends DEF LimiterInv
  <2> HIDE DEF key, ok, d
  <2>4. ASSUME NEW b \in BucketKeys, NEW from \in 0..now
        PROVE  AdmittedSince(b, from)' =
                 IF ok /\ b = key THEN AdmittedSince(b, from) \cup {r} ELSE AdmittedSince(b, from)
    <3>1. \A q \in Requests \ {r} : q \in AdmittedSince(b, from)' <=> q \in AdmittedSince(b, from)
      BY <2>1 DEF AdmittedSince
    <3>2. r \in AdmittedSince(b, from)' <=> ok /\ b = key
      BY <1>a, <2>1 DEF AdmittedSince, d
    <3>3. r \notin AdmittedSince(b, from)
      BY <2>1 DEF AdmittedSince
    <3>4. AdmittedSince(b, from)' \subseteq Requests /\ AdmittedSince(b, from) \subseteq Requests
      BY DEF AdmittedSince
    <3>5. QED
      BY <3>1, <3>2, <3>3, <3>4, SetsApart
  <2>5. ASSUME NEW b \in BucketKeys, NEW from \in 0..now
        PROVE  Given(AdmittedSince(b, from)') + Available(limiter', b, now)
                 <= Cap + Refilled(from, now)
    <3>1. Given(AdmittedSince(b, from)) + Available(limiter, b, now) <= Cap + Refilled(from, now)
      BY DEF RateInv
    <3>2. Given(AdmittedSince(b, from)) \in Nat /\ Refilled(from, now) \in Nat
      <4>1. from \in Nat /\ from <= now
        BY <1>a, <2>5
      <4>2. QED
        BY <1>a, <1>b, <4>1, GivenType, RefilledType
    <3>3. CASE ok /\ b = key
      <4>1. r \notin AdmittedSince(b, from)
        BY <2>1 DEF AdmittedSince
      <4>2. Given(AdmittedSince(b, from)') = Given(AdmittedSince(b, from)) + Unit
        BY <1>b, <2>4, <3>3, <4>1, GivenType
      <4>3. QED
        BY <2>3, <3>1, <3>2, <3>3, <4>2, CapType
    <3>4. CASE ~(ok /\ b = key)
      <4>1. Given(AdmittedSince(b, from)') = Given(AdmittedSince(b, from))
        BY <2>4, <3>4
      <4>2. Available(limiter, b, now) \in Nat /\ Available(limiter', b, now) \in Nat
        BY <1>a, <1>c, <2>2, TickRefills DEF LimiterInv
      <4>3. Available(limiter', b, now) <= Available(limiter, b, now)
        <5>1. CASE b = key
          BY <2>3, <3>4, <5>1
        <5>2. CASE b # key
          BY <2>3, <4>2, <5>2
        <5>3. QED
          BY <5>1, <5>2
      <4>4. QED
        BY <3>1, <3>2, <4>1, <4>2, <4>3, CapType
    <3>5. QED
      BY <3>3, <3>4
  <2>6. ASSUME NEW b \in BucketKeys, NEW from \in 0..now, NEW to \in 0..now, from <= to
        PROVE  Given(AdmittedBetween(b, from, to)') <= Cap + Refilled(from, to)
    <3>1. CASE to = now
      <4>1. /\ AdmittedSince(b, from)' \in SUBSET Requests
            /\ AdmittedBetween(b, from, to)' \in SUBSET AdmittedSince(b, from)'
        BY <1>a, <2>6 DEF AdmittedSince, AdmittedBetween
      <4>2. Available(limiter', b, now) \in Nat /\ Cap + Refilled(from, to) \in Nat
        <5>1. Available(limiter', b, now) \in 0..Cap
          BY <1>a, <1>c, <2>2, TickRefills DEF LimiterInv
        <5>2. from \in Nat /\ to \in Nat
          BY <1>a, <2>6
        <5>3. QED
          BY <2>6, <5>1, <5>2, RefilledType, CapType
      <4>3. Given(AdmittedSince(b, from)') + Available(limiter', b, now) <= Cap + Refilled(from, to)
        BY <2>5, <2>6, <3>1
      <4>4. QED
        BY <4>1, <4>2, <4>3, PartIsBounded
    <3>2. CASE to # now
      <4>1. AdmittedBetween(b, from, to)' = AdmittedBetween(b, from, to)
        <5>1. \A q \in Requests \ {r} : q \in AdmittedBetween(b, from, to)' <=> q \in AdmittedBetween(b, from, to)
          BY <2>1 DEF AdmittedBetween
        <5>2. r \notin AdmittedBetween(b, from, to)' /\ r \notin AdmittedBetween(b, from, to)
          BY <1>a, <2>1, <2>6, <3>2 DEF AdmittedBetween, d
        <5>3. /\ AdmittedBetween(b, from, to)' \subseteq Requests
              /\ AdmittedBetween(b, from, to) \subseteq Requests
          BY DEF AdmittedBetween
        <5>4. QED
          BY <5>1, <5>2, <5>3, SetsApart
      <4>2. QED
        BY <2>6, <4>1 DEF RateInv
    <3>3. QED
      BY <3>1, <3>2
  <2>7. \A q \in Requests : call'[q].chargedAt <= now
    BY <1>a, <2>1 DEF RateInv, d
  <2>8. QED
    BY <2>2, <2>5, <2>6, <2>7 DEF RateInv
<1>4. ASSUME NEW r \in Requests, Arrive(r) \/ Check(r) \/ FetchSucceeds(r) \/ FetchFails(r)
      PROVE  RateInv'
  BY <1>4, OnlyChargeCharges, SameChargesStay
<1>5. QED
  BY <1>1, <1>2, <1>3, <1>4 DEF Next, RequestStep, Rotate, vars

\* Refill, idle reset and eviction together admit no more of one bucket in any period than its
\* burst and what the period refills at the rate, or at the one that the idle reset comes to, for
\* every rate, burst, idle timeout and cleanup interval (Limiter.Allow).
THEOREM RateBounded == Spec => []RateIsBounded
<1>1. TypeOK /\ LimiterInv /\ PlaceInv /\ RateInv /\ [Next]_vars => RateInv'
  BY RateStep
<1>2. TypeOK /\ RateInv => RateIsBounded
  <2> SUFFICES ASSUME TypeOK, RateInv, NEW r1 \in Requests, NEW r2 \in Requests,
                      call[r1].chargedAt <= call[r2].chargedAt
               PROVE  Given(AdmittedBetween(call[r1].bucket, call[r1].chargedAt, call[r2].chargedAt))
                        <= Cap + Refilled(call[r1].chargedAt, call[r2].chargedAt)
    BY DEF RateIsBounded, Given, Cap, Refilled
  <2>1. call[r1] \in Call /\ call[r2] \in Call /\ now \in Nat
    BY AdminGateAssumption DEF TypeOK
  <2>2. /\ call[r1].bucket \in BucketKeys
        /\ call[r1].chargedAt \in 0..now /\ call[r2].chargedAt \in 0..now
    BY <2>1 DEF Call, RateInv
  <2>3. QED
    BY <2>2 DEF RateInv
<1>3. QED
  BY <1>1, <1>2, RateInit, FetchAndKeys, PTL DEF Spec

=============================================================================

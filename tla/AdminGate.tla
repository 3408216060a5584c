----------------------------- MODULE AdminGate -----------------------------
(***************************************************************************)
(* What stands before every governance handler: rateLimitMiddleware, which *)
(* authenticates a request to choose the bucket it is charged to,          *)
(* bodyLimitMiddleware, and AdminAuthMiddlewareWith, which authenticates   *)
(* again if that did not work.  Requests run concurrently; the limiter and *)
(* the key cache are shared, each behind its own mutex, and a fetch of the *)
(* keys runs behind neither.  The identity provider rotates its keys and   *)
(* may be unreachable; time passes between any two steps.                  *)
(***************************************************************************)
EXTENDS KeySet, RateLimiter, FiniteSets

CONSTANTS
    Requests,       \* the requests of a behaviour, 1..n in the order they arrive
    Inputs,         \* Inputs[r]: what request r may carry
    Subjects,       \* admins; a client may call itself so in X-Forwarded-For
    StaticAdmin,    \* the subject of the shared token
    Addresses,      \* client addresses
    Skew,           \* ClockSkew
    MaxTime,        \* bound: the clock
    MaxRotations,   \* bound: keys published or retired
    FirstKeys       \* the keys that the fetch at start-up was answered with

Carried ==
    [bearer: BOOLEAN,     \* an Authorization header with a well-formed, allowed token
     kid: Kids,
     genuine: BOOLEAN,    \* signed by the key it names; issuer, audience, type, subject fit
     exp: Nat, nbf: Nat,
     admin: BOOLEAN,      \* the roles hold the admin role
     sub: Subjects,
     static: BOOLEAN,     \* the shared token is there
     from: Addresses,
     large: BOOLEAN]      \* a declared body above the limit

ASSUME AdminGateAssumption ==
    /\ Inputs \in [Requests -> (SUBSET Carried) \ {{}}]
    /\ IsFiniteSet(Requests)
    /\ BucketKeys = Subjects \cup {StaticAdmin} \cup Addresses
    /\ Requests \subseteq Nat
    /\ FirstKeys \subseteq Kids
    /\ Skew \in Nat /\ MaxTime \in Nat /\ MaxRotations \in Nat

VARIABLES
    now,
    mode,           \* the authenticator: "oidc" or "static"
    published,      \* the keys the identity provider serves
    since,          \* since[k]: when k was last published or retired
    rotations,
    failures,       \* fetches that failed
    ks,             \* the verifier's keySet
    limiter,
    call            \* call[r]: where request r is

vars == <<now, mode, published, since, rotations, failures, ks, limiter, call>>

\* "limit" and "gate": authenticating in the first and the last middleware; "fetch_..." while
\* it fetches keys; "allow": Limiter.Allow is next.
Steps == {"new", "limit", "fetch_limit", "allow", "gate", "fetch_gate", "done"}
Outcomes == {"none", "served", "unauthorized", "forbidden", "unavailable", "rate_limited",
             "too_large"}

AllInputs == UNION {Inputs[r] : r \in Requests}
NoInput == CHOOSE i \in AllInputs : TRUE

Call ==
    [step: Steps, input: AllInputs, at: Nat, stale: BOOLEAN, principal: BOOLEAN,
     bucket: BucketKeys, chargedAt: Nat, admitted: BOOLEAN, outcome: Outcomes]

Fetching(r) == call[r].step \in {"fetch_limit", "fetch_gate"}

\* The identity provider's answer to a fetch that began at time from: what it publishes now,
\* but for keys that it has published or retired since.
Answers(from) ==
    {keys \in SUBSET Kids :
       \A k \in Kids : (k \in keys) # (k \in published) => from <= since[k]}

TypeOK ==
    /\ now \in 0..MaxTime
    /\ mode \in {"oidc", "static"}
    /\ published \subseteq Kids
    /\ since \in [Kids -> (-FetchTimeout)..MaxTime]
    /\ rotations \in 0..MaxRotations
    /\ failures \in 0..1
    /\ ks \in KeySets
    /\ limiter \in Limiters
    /\ call \in [Requests -> Call]

\* Time 0 is when the fetch at start-up is over; early are the keys that changed meanwhile.
Init ==
    /\ now = 0
    /\ mode \in {"oidc", "static"}
    /\ \E early \in SUBSET Kids :
         /\ mode = "static" => early = {}
         /\ rotations \in 0..MaxRotations /\ rotations = Cardinality(early)
         /\ published = {k \in Kids : (k \in FirstKeys) # (k \in early)}
         /\ since \in [Kids -> (-FetchTimeout)..0]
         /\ \A k \in Kids \ early : since[k] = -FetchTimeout
    /\ failures = 0
    /\ ks = Refreshed(FirstKeys, 0)
    /\ limiter = NewLimiter(0)
    /\ call = [r \in Requests |->
                 [step |-> "new", input |-> NoInput, at |-> 0, stale |-> FALSE,
                  principal |-> FALSE, bucket |-> NoInput.from, chargedAt |-> 0,
                  admitted |-> FALSE, outcome |-> "none"]]

-----------------------------------------------------------------------------
(* The world.                                                              *)

\* No fetch lasts longer than FetchTimeout.
Tick ==
    /\ now < MaxTime
    /\ \A r \in Requests : Fetching(r) => now < call[r].at + FetchTimeout
    /\ now' = now + 1
    /\ UNCHANGED <<mode, published, since, rotations, failures, ks, limiter, call>>

Rotate(k) ==
    /\ mode = "oidc"
    /\ rotations < MaxRotations
    /\ rotations' = rotations + 1
    /\ published' = IF k \in published THEN published \ {k} ELSE published \cup {k}
    /\ since' = [since EXCEPT ![k] = now]
    /\ UNCHANGED <<now, mode, failures, ks, limiter, call>>

-----------------------------------------------------------------------------
(* The middlewares.                                                        *)

\* Mutant of Judged: the role is not asked for.
JudgedWithoutRole(i) ==
    IF ~i.genuine \/ now >= i.exp + Skew \/ now + Skew < i.nbf THEN "unauthorized"
    ELSE "authenticated"

\* Verify, once it has a key; then the role.
Judged(i) ==
    IF ~i.genuine \/ now >= i.exp + Skew \/ now + Skew < i.nbf THEN "unauthorized"
    ELSE IF ~i.admin THEN "forbidden"
    ELSE "authenticated"

\* Authenticate, as far as it gets without a fetch.
Authenticate(i) ==
    IF mode = "static" THEN (IF i.static THEN "authenticated" ELSE "unauthorized")
    ELSE IF ~i.bearer THEN "unauthorized"
    ELSE CASE Lookup(ks, i.kid, now) = "key" -> Judged(i)
           [] Lookup(ks, i.kid, now) = "invalid" -> "unauthorized"
           [] Lookup(ks, i.kid, now) = "unavailable" -> "unavailable"
           [] Lookup(ks, i.kid, now) = "fetch" -> "fetch"

SubjectOf(i) == IF mode = "static" THEN StaticAdmin ELSE i.sub

\* What a request does with the result of authenticating it at either place: the first one
\* only chooses the bucket.
Authenticated(r, place, result) ==
    LET c == call[r]
    IN  IF place = "limit"
        THEN [c EXCEPT !.step = "allow", !.at = 0, !.stale = FALSE,
                       !.principal = (result = "authenticated"),
                       !.bucket = IF result = "authenticated" THEN SubjectOf(c.input)
                                  ELSE c.input.from]
        ELSE [c EXCEPT !.step = "done", !.at = 0, !.stale = FALSE,
                       !.principal = (result = "authenticated"),
                       !.outcome = IF result = "authenticated" THEN "served" ELSE result]

Arrive(r) ==
    /\ call[r].step = "new"
    /\ \A q \in Requests : q < r => call[q].step # "new"
    /\ \E i \in Inputs[r] : call' = [call EXCEPT ![r] = [@ EXCEPT !.step = "limit", !.input = i]]
    /\ UNCHANGED <<now, mode, published, since, rotations, failures, ks, limiter>>

Check(r) ==
    LET c == call[r]
        result == Authenticate(c.input)
    IN  /\ c.step \in {"limit", "gate"}
        /\ \/ /\ result = "fetch"
              /\ ks' = Claimed(ks, now)
              /\ call' = [call EXCEPT ![r] =
                            [c EXCEPT !.step = IF c.step = "limit" THEN "fetch_limit"
                                               ELSE "fetch_gate",
                                      !.at = now, !.stale = CanServeStale(ks, c.input.kid, now)]]
           \/ /\ result # "fetch"
              /\ call' = [call EXCEPT ![r] = Authenticated(r, c.step, result)]
              /\ UNCHANGED ks
        /\ UNCHANGED <<now, mode, published, since, rotations, failures, limiter>>

Place(r) == IF call[r].step = "fetch_limit" THEN "limit" ELSE "gate"

FetchSucceeds(r) ==
    LET i == call[r].input
    IN  /\ Fetching(r)
        /\ \E keys \in Answers(call[r].at) :
             /\ ks' = Stored(ks, keys, call[r].at)
             /\ call' = [call EXCEPT ![r] =
                           Authenticated(r, Place(r),
                                         IF i.kid \in keys THEN Judged(i) ELSE "unauthorized")]
        /\ UNCHANGED <<now, mode, published, since, rotations, failures, limiter>>

\* Unreachable, slower than httpTimeout, or not a key set.
FetchFails(r) ==
    LET result == IF call[r].stale THEN Judged(call[r].input) ELSE "unavailable"
    IN  /\ Fetching(r)
        /\ failures' = 1
        /\ ks' = Failed(ks)
        /\ call' = [call EXCEPT ![r] = Authenticated(r, Place(r), result)]
        /\ UNCHANGED <<now, mode, published, since, rotations, limiter>>

\* Limiter.Allow, then bodyLimitMiddleware, which needs nothing shared; a request that the
\* first middleware authenticated is served without a second look.
Charge(r) ==
    LET c == call[r]
        verdict == Allow(limiter, c.bucket, now)
        charged == [c EXCEPT !.chargedAt = now, !.admitted = verdict.ok]
    IN  /\ c.step = "allow"
        /\ limiter' = verdict.lim
        /\ call' = [call EXCEPT ![r] =
                      IF ~verdict.ok
                      THEN [charged EXCEPT !.step = "done", !.outcome = "rate_limited"]
                      ELSE IF c.input.large
                      THEN [charged EXCEPT !.step = "done", !.outcome = "too_large"]
                      ELSE IF c.principal
                      THEN [charged EXCEPT !.step = "done", !.outcome = "served"]
                      ELSE [charged EXCEPT !.step = "gate"]]
        /\ UNCHANGED <<now, mode, published, since, rotations, failures, ks>>

RequestStep(r) == Check(r) \/ FetchSucceeds(r) \/ FetchFails(r) \/ Charge(r)

Next ==
    \/ Tick
    \/ \E k \in Kids : Rotate(k)
    \/ \E r \in Requests : Arrive(r) \/ RequestStep(r)

Spec == Init /\ [][Next]_vars

-----------------------------------------------------------------------------
(***************************************************************************)
(* However many requests need a key that is not cached, one of them        *)
(* fetches (get claims the refresh slot before it releases the mutex, and  *)
(* a fetch ends before the slot is free again).                            *)
(***************************************************************************)
OneFetchAtATime == Cardinality({r \in Requests : Fetching(r)}) <= 1

(***************************************************************************)
(* A key the identity provider has retired is not accepted for long.       *)
(* While fetches succeed it is MaxAge, or twice that for a request that    *)
(* meets another one fetching; if fetches fail, twice MaxAge and the time  *)
(* of one fetch, because the age was judged before it.  The keys of the    *)
(* fetch at start-up are kept for the time of that fetch longer, because   *)
(* its stamp is taken when it is over (keySet.get, refresh).               *)
(***************************************************************************)
StampLag(stamp) == IF stamp = 0 THEN FetchTimeout ELSE 0

Grace(r) ==
    IF failures' > 0 THEN 2 * MaxAge + FetchTimeout
    ELSE IF \E q \in Requests \ {r} : Fetching(q) THEN 2 * MaxAge
    ELSE MaxAge

AcceptsKey(r) == mode = "oidc" /\ ~call[r].principal /\ call'[r].principal

RetiredKeysExpire ==
    [][\A r \in Requests :
         AcceptsKey(r) => \/ call[r].input.kid \in published
                          \/ now - since[call[r].input.kid] <= Grace(r) + StampLag(ks.fetchedAt)]_vars

(***************************************************************************)
(* Refill, idle reset and eviction together admit no more of one bucket in *)
(* any period than its burst and what the period refills, at the rate or,  *)
(* for a burst that takes longer than the idle timeout to refill, at the   *)
(* least rate that refills it in that time: then the reset gives more than *)
(* the refill it stands for (Allow).                                       *)
(***************************************************************************)
Refills(rate) == Burst * Unit <= rate * IdleTimeout

Fastest ==
    CHOOSE rate \in Rate..(Rate + Burst * Unit) :
      Refills(rate) /\ \A less \in Rate..(Rate + Burst * Unit) : Refills(less) => rate <= less

AdmittedBetween(b, from, to) ==
    {r \in Requests : call[r].admitted /\ call[r].bucket = b /\ call[r].chargedAt \in from..to}

RateIsBounded ==
    \A r1, r2 \in Requests :
      LET b == call[r1].bucket
          from == call[r1].chargedAt
          to == call[r2].chargedAt
      IN  call[r1].admitted /\ call[r2].admitted /\ call[r2].bucket = b /\ from <= to =>
            Cardinality(AdmittedBetween(b, from, to)) * Unit <=
              Burst * Unit + (to - from) * Fastest

(***************************************************************************)
(* While fetches succeed, an admin whose token is signed with a published  *)
(* key is refused for the key only while another request is fetching the   *)
(* keys, or if the key was published less than RefreshMin ago (and the     *)
(* time of a fetch more until the keys of start-up are fetched again): a   *)
(* rotation is picked up on use, whatever the throttle and the cached ages *)
(* (keySet.get, refresh).                                                  *)
(***************************************************************************)
Refuses(r) ==
    /\ mode = "oidc"
    /\ call[r].step \in {"limit", "fetch_limit", "gate", "fetch_gate"}
    /\ call'[r].step \in {"allow", "done"}
    /\ ~call'[r].principal

GoodToken(i) ==
    i.bearer /\ i.kid \in published /\ Judged(i) = "authenticated"

RotationIsPickedUp ==
    [][\A r \in Requests :
         failures' = 0 /\ Refuses(r) /\ GoodToken(call[r].input) =>
           \/ \E q \in Requests \ {r} : Fetching(q)
           \/ now - since[call[r].input.kid] < RefreshMin + StampLag(ks.lastAttempt)]_vars

(***************************************************************************)
(* Whoever is served was charged to a bucket and admitted, whichever of the *)
(* two middlewares authenticated him, and is an admin by the mode in force; *)
(* the shared token is always charged to the one bucket of its subject     *)
(* (rateLimitMiddleware, AdminAuthMiddlewareWith).                         *)
(***************************************************************************)
ServedIsEarned ==
    \A r \in Requests :
      LET c == call[r]
      IN  c.outcome = "served" =>
            /\ c.admitted /\ ~c.input.large
            /\ IF mode = "static" THEN c.input.static /\ c.bucket = StaticAdmin
               ELSE c.input.bearer /\ c.input.genuine /\ c.input.admin

=============================================================================

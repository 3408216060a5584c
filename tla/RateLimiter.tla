---------------------------- MODULE RateLimiter ----------------------------
(***************************************************************************)
(* ratelimit.Limiter: a token bucket per key.  A bucket holds Unit times   *)
(* its tokens, so that Rate units per tick stand for a fractional rate;    *)
(* Allow is one critical section: periodic eviction of idle buckets, then  *)
(* creation, idle reset or refill of the key's own, then the spending.     *)
(***************************************************************************)
EXTENDS Integers

CONSTANTS
    BucketKeys,         \* subjects and client addresses, one space of strings
    Unit,               \* units of one token
    Rate,               \* units refilled per tick
    Burst,              \* tokens of a fresh bucket
    IdleTimeout,        \* defaultIdleTimeout
    CleanupInterval

\* A rate so low that an idle bucket has not refilled when it is reset is allowed: Validate
\* asks only for a positive rate and burst.
ASSUME RateLimiterAssumption ==
    /\ Unit \in Nat \ {0} /\ Rate \in Nat \ {0} /\ Burst \in Nat \ {0}
    /\ IdleTimeout \in Nat \ {0} /\ CleanupInterval \in Nat

NoBucket == [tokens |-> -1, lastUpdate |-> 0, lastAccess |-> 0]

Buckets == [tokens: -1..(Burst * Unit), lastUpdate: Nat, lastAccess: Nat]
Limiters == [buckets: [BucketKeys -> Buckets], lastCleanup: Nat]

Fresh(now) == [tokens |-> Burst * Unit, lastUpdate |-> now, lastAccess |-> now]

NewLimiter(now) == [buckets |-> [k \in BucketKeys |-> NoBucket], lastCleanup |-> now]

\* Mutant of Idle: a bucket counts as idle from one cleanup to the next.
IdleByInterval(b, now) == now - b.lastAccess >= CleanupInterval

Idle(b, now) == now - b.lastAccess >= IdleTimeout

Evicted(lim, now) ==
    IF now - lim.lastCleanup < CleanupInterval THEN lim
    ELSE [buckets |-> [k \in BucketKeys |->
                         IF Idle(lim.buckets[k], now) THEN NoBucket ELSE lim.buckets[k]],
          lastCleanup |-> now]

AtMost(n, cap) == IF n > cap THEN cap ELSE n

Refill(b, now) ==
    [tokens |-> AtMost(b.tokens + (now - b.lastUpdate) * Rate, Burst * Unit),
     lastUpdate |-> now, lastAccess |-> now]

\* The key's bucket as Allow finds it.
Current(b, now) == IF b = NoBucket \/ Idle(b, now) THEN Fresh(now) ELSE Refill(b, now)

\* Mutant of Allow: the token is taken before the bucket is looked at.
AllowAfterSpending(lim, key, now) ==
    LET swept == Evicted(lim, now)
        b == Current(swept.buckets[key], now)
    IN  [ok |-> b.tokens >= Unit,
         lim |-> [swept EXCEPT !.buckets[key] = [b EXCEPT !.tokens = @ - Unit]]]

\* Allow(key) at time now: whether it admits, and the limiter it leaves.
Allow(lim, key, now) ==
    LET swept == Evicted(lim, now)
        b == Current(swept.buckets[key], now)
        ok == b.tokens >= Unit
        spent == IF ok THEN [b EXCEPT !.tokens = @ - Unit] ELSE b
    IN  [ok |-> ok, lim |-> [swept EXCEPT !.buckets[key] = spent]]

=============================================================================

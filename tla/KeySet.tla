------------------------------- MODULE KeySet -------------------------------
(***************************************************************************)
(* The identity provider's verification keys as oidcverify caches them: a  *)
(* record of the cached key ids, the time of the last successful fetch,    *)
(* the time of the last attempt and whether it failed.  A lookup either    *)
(* answers from the cache or claims the refresh slot and fetches, which    *)
(* the caller does without the mutex.                                      *)
(*                                                                         *)
(* New does the first fetch before anything is served, so lastAttempt is   *)
(* always a time; a key is its id.  The later fetches are stamped with the *)
(* time they were decided at, the first one with the time it was over.     *)
(***************************************************************************)
EXTENDS Naturals

CONSTANTS
    Kids,           \* key ids
    RefreshMin,     \* jwksRefreshMin
    FetchTimeout,   \* httpTimeout: a fetch ends within it
    MaxAge          \* JWKSMaxAge

ASSUME KeySetAssumption ==
    /\ RefreshMin \in Nat /\ FetchTimeout \in Nat /\ MaxAge \in Nat
    /\ FetchTimeout < RefreshMin
    /\ RefreshMin <= MaxAge

KeySets == [keys: SUBSET Kids, fetchedAt: Nat, lastAttempt: Nat, lastErr: BOOLEAN]

\* refresh, the fetch at start-up, which was over at time now: keys may be older than that.
Refreshed(keys, now) ==
    [keys |-> keys, fetchedAt |-> now, lastAttempt |-> now, lastErr |-> FALSE]

Young(ks, kid, now) == kid \in ks.keys /\ now - ks.fetchedAt <= MaxAge
CanServeStale(ks, kid, now) == kid \in ks.keys /\ now - ks.fetchedAt <= 2 * MaxAge
Throttled(ks, now) == now - ks.lastAttempt < RefreshMin

\* Mutant of Lookup: only a key that is known and old is fetched again.
LookupKnownOnly(ks, kid, now) ==
    IF Young(ks, kid, now) THEN "key"
    ELSE IF kid \notin ks.keys THEN "invalid"
    ELSE IF ~Throttled(ks, now) THEN "fetch"
    ELSE IF CanServeStale(ks, kid, now) THEN "key" ELSE "unavailable"

(***************************************************************************)
(* get, up to the fetch: a cached answer, or "fetch".                      *)
(***************************************************************************)
Lookup(ks, kid, now) ==
    IF Young(ks, kid, now) THEN "key"
    ELSE IF ~Throttled(ks, now) THEN "fetch"
    ELSE IF CanServeStale(ks, kid, now) THEN "key"
    ELSE IF kid \in ks.keys \/ ks.lastErr THEN "unavailable"
    ELSE "invalid"

\* Mutant of Claimed: the slot is claimed when the fetch is over.
ClaimedNever(ks, now) == ks

\* The slot is claimed before the mutex is released.
Claimed(ks, now) == [ks EXCEPT !.lastAttempt = now]

\* Mutant of Stored: a fetch adds to what is cached.
StoredOnTop(ks, keys, at) == [ks EXCEPT !.keys = @ \cup keys, !.fetchedAt = at, !.lastErr = FALSE]

\* get, after the fetch that was decided at time at.
Stored(ks, keys, at) == [ks EXCEPT !.keys = keys, !.fetchedAt = at, !.lastErr = FALSE]
Failed(ks) == [ks EXCEPT !.lastErr = TRUE]

=============================================================================

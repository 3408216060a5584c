\* Three requests; keys that age within the clock's bound; a burst of one, reset before it
\* has refilled.
SPECIFICATION Spec
CONSTANTS
    k1 = k1
    k2 = k2
    s1 = s1
    root = root
    a1 = a1
    Kids = {k1, k2}
    RefreshMin = 2
    FetchTimeout = 1
    MaxAge = 2
    BucketKeys <- AllBuckets
    Unit = 3
    Rate = 1
    Burst = 1
    IdleTimeout = 2
    CleanupInterval = 1
    Requests = {1, 2, 3}
    Inputs <- SomeInputs
    Subjects = {s1}
    StaticAdmin = root
    Addresses = {a1, s1}
    Skew = 1
    MaxTime = 6
    MaxRotations = 1
    FirstKeys = {k1}
CHECK_DEADLOCK FALSE
INVARIANTS
    TypeOK
    OneFetchAtATime
    RateIsBounded
    ServedIsEarned
PROPERTIES
    RetiredKeysExpire
    RotationIsPickedUp

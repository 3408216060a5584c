\* Every fault, timeouts, an activation and a crash.
SPECIFICATION Spec
CONSTANTS
    c1 = c1
    c2 = c2
    c3 = c3
    v1 = v1
    v2 = v2
    Checks = {c1, c2}
    Unadaptable = {}
    Mutations = {m1}
    Versions = {v1, v2}
    NoVersion = none
    Permits <- MCPermits
    NoOne = noone
    Faults = {"issue", "read", "reject", "orphan"}
    MaxCrashes = 1
INVARIANTS
    TypeOK
    AllowIsDurable
    OneRowEach
PROPERTIES
    ImplementsLedger

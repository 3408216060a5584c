\* An activation between the evaluation and the second look at the cache.
SPECIFICATION Spec
CONSTANTS
    c1 = c1
    c2 = c2
    c3 = c3
    v1 = v1
    v2 = v2
    Checks = {c1}
    Unadaptable = {}
    Mutations = {m1}
    Versions = {v1, v2}
    NoVersion = none
    Permits <- MCPermits
    NoOne = noone
    Faults = {}
    MaxCrashes = 0
INVARIANTS
    ProvenanceIsExact

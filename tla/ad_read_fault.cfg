\* A failed GetLatestRecord restarts the chain from genesis.
SPECIFICATION Spec
CONSTANTS
    c1 = c1
    c2 = c2
    c3 = c3
    v1 = v1
    v2 = v2
    Checks = {c1, c2}
    Unadaptable = {}
    Mutations = {}
    Versions = {v1, v2}
    NoVersion = none
    Permits <- MCPermits
    NoOne = noone
    Faults = {"read"}
    MaxCrashes = 0
INVARIANTS
    ChainIntact

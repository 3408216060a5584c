\* Reads and commits that do not lie, fair scheduling; c2 cannot be adapted.
SPECIFICATION FairSpec
CONSTANTS
    c1 = c1
    c2 = c2
    c3 = c3
    v1 = v1
    v2 = v2
    Checks = {c1, c2}
    Unadaptable = {c2}
    Mutations = {m1}
    Versions = {v1, v2}
    NoVersion = none
    Permits <- MCPermits
    NoOne = noone
    Faults = {"issue", "reject"}
    MaxCrashes = 1
INVARIANTS
    ChainIntact
    AnsweredAsRecorded
PROPERTIES
    ChecksAreAnswered

\* Two admins at once, writes that commit or are rejected, a crash anywhere.
SPECIFICATION Spec
CONSTANTS
    Workspaces = {default}
    Versions = {v0, v1, bad}
    NoVersion = none
    Parses = {v0, v1}
    Default = default
    Baseline = v0
    Admins = {a1, a2}
    Boot = boot
    Outcomes = {"committed", "rejected"}
    BootOutcomes = {"committed", "rejected"}
    MaxCalls = 4
    MaxCrashes = 1
SYMMETRY AdminSymmetry
INVARIANTS
    TypeOK
    CacheIsCommitted
    ServingEnforcesDefault
    TrailAccountsForActive
    RepliesDescribeTheCall

\* Two activations that overlap leave the cache on the wrong version.
SPECIFICATION Spec
CONSTANTS
    Workspaces = {default}
    Versions = {v0, v1}
    NoVersion = none
    Parses = {v0, v1}
    Default = default
    Baseline = v0
    Admins = {a1, a2}
    Boot = boot
    Outcomes = {"committed"}
    BootOutcomes = {"committed"}
    MaxCalls = 3
    MaxCrashes = 0
SYMMETRY AdminSymmetry
INVARIANTS
    EnforcedIsActive

\* One admin call at a time, writes commit or are rejected, two crashes, also during
\* start-up, whose writes commit but may be reported as errors.
SPECIFICATION FairSpec
CONSTANTS
    Workspaces = {default, other}
    Versions = {v0, v1, bad}
    NoVersion = none
    Parses = {v0, v1}
    Default = default
    Baseline = v0
    Admins = {a1}
    Boot = boot
    Outcomes = {"committed", "rejected"}
    BootOutcomes = {"committed", "unknown"}
    MaxCalls = 4
    MaxCrashes = 2
INVARIANTS
    EnforcedIsActive
PROPERTIES
    EventuallyServes

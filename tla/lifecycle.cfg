\* Every environment; two tools, two admin requests, a check, two starts, every fault.
SPECIFICATION Spec
CONSTANTS
    t1 = t1
    t2 = t2
    d1 = d1
    d2 = d2
    blank = blank
    p1 = p1
    p2 = p2
    Tools = {t1, t2}
    Defs = {d1, d2, blank}
    Unbuildable = {blank}
    NoDef = nodef
    Seed <- SeedBoth
    Calls = {p1, p2}
    Inputs <- TwoRequests
    NoOne = noone
    Faults = {"reject", "unknown", "list", "disconnect", "append"}
    Environments <- AllEnvironments
    Checks = {c1}
    MaxStarts = 2
CHECK_DEADLOCK FALSE
INVARIANTS
    LifecycleTypeOK
    DivergenceIsReported
    UnrecordedIsCounted
    ServesOnlyWhole
    ProductionIsHardened
PROPERTIES
    RepliesAreTrue
    StartKeepsCatalog
    CleanExitAnswers
    SignalStops

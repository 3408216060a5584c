\* One check of every kind; four catalogs, four policies in two workspaces, two changes.
SPECIFICATION Spec
CONSTANTS
    ada = ada
    bob = bob
    agent = agent
    w1 = w1
    w2 = w2
    f1 = f1
    f2 = f2
    Agents = {ada, bob}
    Roles = {agent}
    Workspaces = {w1, w2}
    DefaultWorkspace = w1
    Backends <- SomeBackends
    DefaultBackend <- FirstBackend
    Names <- SomeNames
    ArgNames = {"n", "m"}
    Fingerprints = {f1, f2}
    NoTool = notool
    Policies <- SomePolicies
    NoPolicy = nopolicy
    Audiences <- OneAudience
    Checks = {c1}
    Inputs <- SomeInputs
    Catalogs <- SomeSnapshots
    Engines <- SomeEngines
    Trials <- SomeTrials
    MaxChanges = 2
CHECK_DEADLOCK FALSE
INVARIANTS
    TypeOK
    AllowIsEarned
    ReasonsAreTrue
    UndeclaredHasNoSay
    AnswersAreOnRecord
    DryRunForetells

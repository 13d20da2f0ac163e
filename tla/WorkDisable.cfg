SPECIFICATION Spec
CONSTANTS
    s1 = s1
    s2 = s2
    s3 = s3
    r1 = r1
    r2 = r2
    p1 = p1
    a = a
    b = b
    Session = {s1}
    Run = {r1}
    Worker = {w1}
    Repository = {p1}
    Source = {a}
    NoSession = NoSession
    NoWorker = NoWorker
    RunOf <- SingleRun
    RepoOf <- SingleRepository
    SourceOf <- SingleSource
    AgentUpdateRuns = {}
    ConcurrencyLimit <- LimitOne
    Capacity <- CapacityOne
    StageCount = 1
    LeaseTicks = 1
    MaxAttempts = 1
INVARIANTS
    DisableAccepted

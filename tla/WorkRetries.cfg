SPECIFICATION FairSpec
CONSTANTS
    s1 = s1
    s2 = s2
    s3 = s3
    r1 = r1
    r2 = r2
    p1 = p1
    a = a
    b = b
    Session = {s1}
    Run = {r1}
    Worker = {w1, w2}
    Repository = {p1}
    Source = {a}
    NoSession = NoSession
    NoWorker = NoWorker
    RunOf <- SingleRun
    RepoOf <- SingleRepository
    SourceOf <- SingleSource
    AgentUpdateRuns = {r1}
    ConcurrencyLimit <- LimitOne
    Capacity <- CapacityOne
    StageCount = 2
    LeaseTicks = 2
    MaxAttempts = 2
INVARIANTS
    TypeOK
    AttemptOwnsWork
    Resumable
    RepeatWarned
PROPERTIES
    DecidedStays
    CancelledWorkEnds

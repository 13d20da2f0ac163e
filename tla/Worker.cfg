SPECIFICATION WorkerSpec
CONSTANTS
    Requests = {r1, r2}
    Attempts = {a1, a2}
    Capacity = 1
    MaxLosses = 1
    MaxChecks = 1
    MaxCrashes = 1
    Tokens = {t1, t2}
    Credentials = {k1, k2}
    Legacy = legacy
    MaxStops = 1
    MaxLost = 1
    MaxOutputs = 2
    MaxFaults = 1
    QueueSize = 2
    Budget = 3
    MaxLines = 4
    MaxMissed = 2
    None = None
INVARIANTS
    ClaimsAgree
    CredentialsAgree
    StoppedIsDead
    HistoryIsPrefix
    AcknowledgedIsOver
PROPERTIES
    ClaimReturns
    AcceptedIsSaved
    RuntimeIsStopped
    QueuedArrives

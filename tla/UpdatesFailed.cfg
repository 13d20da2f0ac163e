SPECIFICATION Spec
CONSTANTS
    Requests = {q1}
    AgentWaits = TRUE
    MaxSends = 2
    MaxProgress = 1
    MaxHead = 1
    MaxLosses = 2
    None = None
INVARIANTS
    FailedIsRetained

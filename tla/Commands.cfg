SPECIFICATION CommandsSpec
CONSTANTS
    Requests = {q1, q2}
    AgentWaits = FALSE
    MaxSends = 2
    MaxProgress = 1
    MaxHead = 1
    MaxLosses = 1
    Commands = {c1, c2}
    Sources = {issue}
    RandomKeys = {k1, k2}
    ExplicitKeys = {x1}
    MaxPending = 1
    MaxStarts = 3
    Files = {1, 2, 3}
    Sound = {1, 3}
    Rivals = FALSE
    MaxFaults = 2
    MaxOutages = 1
    None = None
SYMMETRY CommandSymmetry
INVARIANTS
    OutcomeAgreed
    RepeatIsSafe
    PublicationHolds

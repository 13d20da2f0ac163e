SPECIFICATION Spec
CONSTANTS
    Requests = {q1}
    AgentWaits = TRUE
    MaxSends = 2
    MaxProgress = 1
    MaxHead = 2
    MaxLosses = 2
    None = None
INVARIANTS
    DeliveredIsChecked

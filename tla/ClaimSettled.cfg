SPECIFICATION FairSpec
CONSTANTS
    None = None
    Requests = {r1, r2}
    Attempts = {a1, a2}
    Capacity = 1
    MaxLosses = 1
    MaxChecks = 1
    MaxCrashes = 0
PROPERTY ClaimsAreSettled

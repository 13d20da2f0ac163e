SPECIFICATION Spec
CONSTANTS
    Commands = {c1, c2}
    Files = {1}
    Sound = {1}
    Rivals = TRUE
    MaxFaults = 0
    MaxOutages = 0
    None = None
INVARIANTS
    PublishedKept

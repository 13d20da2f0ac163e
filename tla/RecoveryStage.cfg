SPECIFICATION Spec
CONSTANTS
    Attempts = {a1}
    Edited = {a1}
    Stages = 2
    Slots = 1
    MaxFaults = 0
    MaxStarts = 2
    MaxEdits = 0
INVARIANT HandoffRecovers

SPECIFICATION Spec
CONSTANTS
    Attempts = {a1}
    Edited = {a1}
    Stages = 1
    Slots = 1
    MaxFaults = 1
    MaxStarts = 2
    MaxEdits = 0
INVARIANT DisposalsRemovable

SPECIFICATION FairSpec
CONSTANTS
    Attempts = {a1, a2}
    Edited = {a1}
    Stages = 2
    Slots = 1
    MaxFaults = 1
    MaxStarts = 2
    MaxEdits = 1
INVARIANTS
    StoppedBeforeCleanup
    SlotsAccounted
PROPERTIES
    WorkKept
    SlotReturned

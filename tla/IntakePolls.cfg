SPECIFICATION FairSpec
CONSTANTS
    Issues = {1}
    Faults = {"reference", "catalog", "diagnostic", "status", "visit", "rebuild", "admission",
              "reread", "release", "clear", "list", "wake", "replace", "crash"}
    Moves = {"label", "ready", "route", "pull", "operator"}
    MaxWorks = 3
    MaxMoves = 3
    MaxFaults = 1
INVARIANTS
    OneWorkPerVisit
    OneChain
PROPERTIES
    WakeRuns

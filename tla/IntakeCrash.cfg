CONSTANTS
  Issues = {1}
  Faults = {"crash"}
  Moves = {"label"}
  MaxWorks = 2
  MaxMoves = 2
  MaxFaults = 1
SPECIFICATION FairSpec
PROPERTIES VisitRuns

CONSTANTS
  Issues = {1}
  Faults = {"status"}
  Moves = {"label"}
  MaxWorks = 3
  MaxMoves = 3
  MaxFaults = 1
SPECIFICATION Spec
INVARIANTS OneWorkPerPeriod

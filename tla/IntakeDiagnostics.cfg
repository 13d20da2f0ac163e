CONSTANTS
  Issues = {1}
  Faults = {"catalog"}
  Moves = {"label"}
  MaxWorks = 2
  MaxMoves = 2
  MaxFaults = 1
SPECIFICATION Spec
INVARIANTS DiagnosticsNameBlocked

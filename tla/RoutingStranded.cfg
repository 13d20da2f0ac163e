CONSTANTS
    Workers = {w1, w2}
    Repositories = {q1, q2}
    GitHub = {q1, q2}
    MaxSessions = 2
    MaxCheckouts = 1
    MaxCache = 1
    DropsCheckouts = TRUE
    LateClones = FALSE
    None = None
SPECIFICATION Spec
INVARIANTS
    AcceptedIsFound

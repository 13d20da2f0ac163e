SPECIFICATION Spec
CONSTANTS
    Workers = {w1, w2}
    Repositories = {q1, q2}
    GitHub = {q1, q2}
    MaxSessions = 2
    MaxCheckouts = 1
    MaxCache = 1
    DropsCheckouts = FALSE
    LateClones = FALSE
    None = None
SYMMETRY RoutingSymmetry
INVARIANTS
    RoutesAgree

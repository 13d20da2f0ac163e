SPECIFICATION Spec
CONSTANTS
    Users = {u1, u2, u3}
    Repositories = {r1, r2}
    Entries = {e1, e2}
    MaxCache = 1
    MaxRestarts = 1
    None = None
INVARIANTS
    ExclusiveUse
    CacheAccounted
PROPERTIES
    WaitersServed

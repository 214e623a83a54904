SPECIFICATION Spec
CONSTANTS
    a1 = a1
    a2 = a2
    c1 = c1
    c2 = c2
    d1 = d1
    NoAction = NoAction
    Action = {a1, a2}
    Caller = {c1, c2}
    Id = {d1}
    Runbooks <- Both
    MaxHistory = 1
    Levels = {0, 2}
    MaxSaves = 0
INVARIANTS
    WaitsForApproval
CHECK_DEADLOCK FALSE

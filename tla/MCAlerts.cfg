SPECIFICATION Spec
CONSTANTS
    e1 = e1
    e2 = e2
    a1 = a1
    a2 = a2
    w = w
    db = db
    k1 = k1
    k2 = k2
    Event = {e1, e2}
    Alert = {a1, a2, w}
    Service = {db}
    AlertOf <- EventAlerts
    ServiceOf <- AllDb
    Callback = {k1, k2}
    Config <- Settings
    MaxLimit = 1
    SeenCap = 1
    IndexCap = 1
    MaxPolls = 3
    MaxTools = 1
    MaxOthers = 1
SYMMETRY Callbacks
INVARIANTS
    TypeOK
    StartBound
    StormBound
    CountsOccurrences
CHECK_DEADLOCK FALSE

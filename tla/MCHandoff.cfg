SPECIFICATION FairSpec
CONSTANTS
    r1 = r1
    r2 = r2
    a3 = a3
    a1 = a1
    a2 = a2
    NoAgent = NoAgent
    Request = {r1, r2}
    Agent = {a1, a2, a3}
    QueueCap = 1
INVARIANTS
    TypeOK
    NoLeak
    NeverDropped
PROPERTIES
    KeepsPromise
    WaitEnds
CHECK_DEADLOCK FALSE

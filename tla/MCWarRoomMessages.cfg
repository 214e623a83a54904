SPECIFICATION FairSpec
CONSTANTS
    s1 = s1
    s2 = s2
    s3 = s3
    a1 = a1
    a2 = a2
    c1 = c1
    c2 = c2
    NoSession = NoSession
    NoAgent = NoAgent
    Session = {s1}
    Agent = {a1, a2}
    Caller = {c1, c2}
    Teams <- TwoAgents
    MaxSessions = 1
    AgentBuf = 1
    FindingsBuf = 1
    HasStore = FALSE
    Ops = {"start", "assign", "submit", "close"}
    MaxCalls = 4
    MaxCrashes = 0
INVARIANTS
    LookupsOpen
    NoOrphan
PROPERTIES
    CloseReaps
    TaskAccepted
    FindingsDrained
CHECK_DEADLOCK FALSE

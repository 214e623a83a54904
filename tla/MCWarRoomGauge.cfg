SPECIFICATION Spec
CONSTANTS
    s1 = s1
    s2 = s2
    s3 = s3
    a1 = a1
    a2 = a2
    c1 = c1
    c2 = c2
    NoSession = NoSession
    NoAgent = NoAgent
    Session = {s1, s2}
    Agent = {a1}
    Caller = {c1, c2}
    Teams <- OneAgent
    MaxSessions = 1
    AgentBuf = 1
    FindingsBuf = 1
    HasStore = FALSE
    Ops = {"start", "close"}
    MaxCalls = 3
    MaxCrashes = 0
INVARIANTS
    GaugeIsActive
CHECK_DEADLOCK FALSE

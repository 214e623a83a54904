SPECIFICATION FairSpec
CONSTANTS
    o1 = o1
    o2 = o2
    k1 = k1
    l1 = l1
    l2 = l2
    notify = notify
    warroom = warroom
    Op = {o1, o2}
    Level = {1}
    Action = {notify, warroom}
    ActionsOf <- Escalation
    PreApproved = {notify}
    UsesConfig = {warroom}
    Cycle = {k1}
    Loop = {l1, l2}
    MaxConfigs = 2
    MaxResults = 1
    Grant = {"auto", "full"}
    NoOp = NoOp
    NoLoop = NoLoop
    NoAction = NoAction
INVARIANTS
    TypeOK
    OverrideBound
PROPERTIES
    LoopsEnd
CHECK_DEADLOCK FALSE

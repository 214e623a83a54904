SPECIFICATION FairSpec
CONSTANTS
    c1 = c1
    c2 = c2
    b1 = b1
    b2 = b2
    bash = bash
    agent = agent
    Client = {c1, c2}
    Block = {b1, b2}
    Tool = {agent, bash}
    ToolOf <- BothAgent
    Gated = {b1, b2}
    AgentTool = {agent}
    SendCap = 1
    HubCap = 1
    MaxRounds = 1
    Sent <- Messages
    MaxSent = 3
    NoBlock = NoBlock
    AnyTool = AnyTool
INVARIANTS
    TypeOK
    RequestsAwaited
    RunsApproved
    HubSurvives
PROPERTIES
    KeepsApprovals
    ChatEnds
CHECK_DEADLOCK FALSE

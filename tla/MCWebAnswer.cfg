SPECIFICATION PatientSpec
CONSTANTS
    c1 = c1
    c2 = c2
    b1 = b1
    b2 = b2
    bash = bash
    agent = agent
    Client = {c1}
    Block = {b1, b2}
    Tool = {agent, bash}
    ToolOf <- BothAgent
    Gated = {b1, b2}
    AgentTool = {agent}
    SendCap = 1
    HubCap = 1
    MaxRounds = 1
    Sent <- Messages
    MaxSent = 2
    NoBlock = NoBlock
    AnyTool = AnyTool
PROPERTIES
    AnswerEndsWait
CHECK_DEADLOCK FALSE

SPECIFICATION FairSpec
CONSTANTS
    infra = infra
    app = app
    net = net
    reasoning = reasoning
    Agent = {infra, app, net}
    Reasoner = reasoning
    Infra = infra
    App = app
    Rank <- Order
    Cap = 2
    Teams <- Sets
    MaxRecs = 2
INVARIANTS
    TypeOK
    NoGhost
    AllHeard
PROPERTIES
    KeepsPhases
    Ends
CHECK_DEADLOCK FALSE

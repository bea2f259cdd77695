CONSTANTS
    Node <- MCNode
    Exits <- MCExits
    Edges <- MCEdges
    Factor <- MCFactor
    Block = 200000
    Threshold = 200000
    Owners <- MCOwners
    Tables <- MCTables
SPECIFICATION Spec
INVARIANTS
    TypeOK
    Certificate
    RouteNotBurning
    CostIsCheapest
    ShelterIffBlocked
    NextHopIsCheapest
PROPERTIES
    Terminates
\* A run of routing_compute returns.
CHECK_DEADLOCK FALSE

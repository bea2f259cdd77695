CONSTANTS
    Building <- MCBuilding
    Unknown <- MCUnknown
    Tall <- MCTall
    Client <- MCClient
    Loose = {}
    MaxSnapshots = 1
    Stages = 2
SPECIFICATION Spec
INVARIANTS
    TickSurvives

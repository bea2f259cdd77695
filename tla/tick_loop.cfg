CONSTANTS
    Building <- MCBuilding
    Unknown <- MCUnknown
    Tall <- MCTall
    Client <- MCClient
    Loose <- MCLoose
    MaxSnapshots = 1
    Stages = 2
SPECIFICATION FairSpec
INVARIANTS
    TypeOK
    ResetIsFinal
    OpenIsListed
PROPERTIES
    BuildingsAdvance
    ClientsAreServed

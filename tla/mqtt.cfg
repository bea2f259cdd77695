CONSTANTS
    Graph <- MCGraph
    Messages <- MCMessages
    Injections <- MCInjections
    FloorCount = 2
    FloorW = 20
    FloorD = 8
    Cols = 4
    Rows = 2
    MaxPackets = 3
    Files <- MCFiles
    Zones <- MCZones
    Ages <- MCAges
    MaxSeq = 2
SPECIFICATION AllSpec
INVARIANTS
    TypesOK
    StatusHasFires
    MapIsCurrent
    TierTellsFailure
    RoutesAvoidFire
    ShownIsSent
    DamageIsNoticed
\* The injector ends.
CHECK_DEADLOCK FALSE

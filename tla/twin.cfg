CONSTANTS
    Defs <- MCDefs
    Cols = 5
    Rows = 3
    Dts = {8, 20}
    Injections <- MCInjections
    MaxOrigins = 4
    MaxSteps = 4
SPECIFICATION Spec
INVARIANTS
    TypeOK
    PlanIsConnected
    GraphsAgree
    RoutesAreSafe
    HeatIsLocal
    ResetRestores
    DemoSpreads
PROPERTIES
    FlameStays

CONSTANTS
    Defs <- MCWard
    Cols = 5
    Rows = 3
    Dts = {8, 20}
    Injections <- MCInjections
    MaxOrigins = 4
    MaxSteps = 1
SPECIFICATION Spec
INVARIANTS
    FailuresSpread

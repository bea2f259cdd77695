CONSTANTS
    Me = 2
    Remote <- MCRemote
    MaxNodes = 4
    Stale = 0
    TimeMod = 16
    MaxAged = 1
    Half = 3
    Lit = {1, 3}
    Lifetime = 3
    Start = {1}
    MaxAt <- MCMaxAt
    MaxTime = 1
SPECIFICATION Spec
INVARIANTS
    NoSharedTable

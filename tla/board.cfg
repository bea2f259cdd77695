CONSTANTS
    Me = 2
    Remote <- MCRemote
    Routed <- MCRouted
    HoldDown = 2
    HighCost = 140000
    Detour = 20000
    Threshold <- MCThreshold
    TimeMod = 4
    Analog = {"temp"}
    Flame = "flame"
    Readings <- MCReadings
    Bad = 9
    Ring = 3
    IdxMod = 8
    Window = 4
    ClockMod = 12
SPECIFICATION AllSpec
INVARIANTS
    TypeOK
    SensorsTyped
    QuietIsSafe
    VerdictIsRecent
PROPERTIES
    HeldDown
    Settles
    StuckIsNoticed

CONSTANTS
    Analog = {"temp"}
    Flame = "flame"
    Readings <- MCReadings
    Bad = 9
    Ring = 3
    IdxMod = 8
    Window = 4
    ClockMod = 12
SPECIFICATION Spec
INVARIANTS
    StaticIsLastResort

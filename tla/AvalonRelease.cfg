CONSTANTS
    p1 = p1
    p2 = p2
    Word = 16
    Short = 4
    PitLimit = 16
    AdjMult = 9
    AdjDiv = 6
    Pool = {p1, p2}
    Slots = 3
    BootPools <- OnePool
    BootResolution = 2
    Resolutions = {}
    Micros = {}
    Delays = {}
    Deadlines = {}
    Priorities = {}
    Drifts = {}
    Rates = {}
    Times = {}
    Before = {255}
    MaxTicks = 18
    Allow = {"release"}
SPECIFICATION Spec
INVARIANTS HandedOutOnce
CHECK_DEADLOCK FALSE

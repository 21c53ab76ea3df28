CONSTANTS
    p1 = p1
    p2 = p2
    Word = 16
    Short = 4
    PitLimit = 16
    AdjMult = 9
    AdjDiv = 6
    Pool = {p1, p2}
    Slots = 2
    BootPools <- OnePool
    BootResolution = 2
    Resolutions = {3}
    Micros = {2}
    Delays = {}
    Deadlines = {}
    Priorities = {}
    Drifts = {5}
    Rates = {6}
    Times = {}
    Before = {255}
    MaxTicks = 18
    Allow = {"release", "change_resolution"}
SPECIFICATION Spec
  
PROPERTIES DriftWorkedOff
CHECK_DEADLOCK FALSE

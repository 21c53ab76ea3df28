CONSTANTS
    p1 = p1
    p2 = p2
    Word = 32
    Short = 4
    PitLimit = 16
    AdjMult = 19
    AdjDiv = 13
    Pool = {p1}
    Slots = 3
    BootPools <- OnePool
    BootResolution = 2
    Resolutions = {}
    Micros = {}
    Delays = {0, 2, 5}
    Deadlines = {3, 6}
    Priorities = {0, 3}
    Drifts = {}
    Rates = {}
    Times = {20}
    Before = {1023}
    MaxTicks = 10
    Allow = {}
SPECIFICATION FairSpec
INVARIANTS TypeOK TimerRingHoldsArmed
PROPERTIES NoTimerMissed TimersAnswered 
CHECK_DEADLOCK FALSE

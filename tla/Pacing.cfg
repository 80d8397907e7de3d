SPECIFICATION Spec
CONSTANTS
    TIMER = 4
    Increments = {1, 2}
    TimerValues = {3}
    WORD = 1024
    SEC = 16
    MEGA = 9
    ClockSpeeds = {0, 2, 5, 16}
    EntryIncrement = 1
    WorkTimes = {0, 1}
    Overshoots = {0, 1}
    Disturbances <- MCDisturbances
    MaxDisturbances = 2
    MaxLag = 45
    MaxDropped = 12
INVARIANTS
    DeltaIsLag
    AheadByTheLossOnly
    SleepsFit
    NoRoundIsMissed
PROPERTIES
    CatchesUp
CHECK_DEADLOCK FALSE

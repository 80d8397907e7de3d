SPECIFICATION EmuSpec
CONSTANTS
    Threads = {t1, t2}
    Users = {"patient"}
    Events <- OneEvent
    QUEUE_SIZE = 2
    PinValues <- NoPins
    PortDValues <- None
    EimskValues <- Int0
    SenseValues <- NoSenses
    PcicrValues <- None
    PcmskValues <- None
    FlagValues <- None
    InstructionsPerRound = 2
    MaxNesting = 0
INVARIANT
    LatestLevelArrives
PROPERTIES
    StopsAreInvisible
    EventsAreHandled
CHECK_DEADLOCK FALSE


SPECIFICATION Spec
CONSTANTS
    PinValues <- NoPins
    PortDValues <- DrivePin5
    EimskValues <- BothInt
    SenseValues <- TwoSenses
    PcicrValues <- Group2
    PcmskValues <- Bit2
    FlagValues <- Pcif1
    InstructionsPerRound = 1
    MaxNesting = 1
INVARIANTS
    TypeOK
    RoutinesAreAtomic
PROPERTIES
    LowestVectorFirst
    NoSpuriousEntry
    NoLostFlag
    PinTriggersItsInterrupt
    PendingIsServed

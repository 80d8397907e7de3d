SPECIFICATION Spec
CONSTANTS
    RECORDS = 3
    LINES = 100
    PROGRAM_MEMORY_END = 101
    Files <- AllFiles
    Updated <- SomeFiles
    Starts <- SomeStarts
    Undefined <- SomeLengths
INVARIANTS
    OnePattern
    LengthsAgree
    OperandsAsDocumented
PROPERTIES
    LinesShowTheFile
    ListingEnds
CHECK_DEADLOCK FALSE

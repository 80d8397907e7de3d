SPECIFICATION Spec
CONSTANTS
    NIBBLE = 4
    BYTE = 8
    MaxWeight = 65
INVARIANTS
    CarryChainExact
    ZeroOfWholeDifference
    SignedTests
    HalfCarryOfNibbles

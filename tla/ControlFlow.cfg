SPECIFICATION Spec
CONSTANTS
    PROGRAM_MEMORY_END = 23
    BRANCH = 4
    OFFSET = 8
    VECTORS = {1}
    Programs <- AllPrograms
    WORD = 32
    MaxDepth = 3
INVARIANT OnInstructions
PROPERTY FollowsTheProgram
CHECK_DEADLOCK FALSE

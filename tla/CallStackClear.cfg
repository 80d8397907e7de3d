SPECIFICATION ClearSpec
CONSTANTS
    Words = {w1, w2}
    Data = {d1}
    PAGE = 4
    DATA_MEMORY_END = 11
PROPERTY ImplementsByteStack
CHECK_DEADLOCK FALSE

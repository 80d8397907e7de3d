SPECIFICATION CpuSpec
CONSTANTS
    Threads = {t1, t2}
    Users = {"alternating"}
INVARIANT AtMostOneCpu
CHECK_DEADLOCK FALSE

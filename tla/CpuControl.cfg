SPECIFICATION CpuSpec
CONSTANTS
    Threads = {t1, t2, t3}
    Users = {"any", "patient"}
INVARIANTS
    CpuTypeOK
    PatientAtMostOneCpu
PROPERTIES
    SignalConsumed
    StopObeyed
    StartObeyed
    OnlyStopEndsTheLoop
CHECK_DEADLOCK FALSE

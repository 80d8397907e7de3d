SPECIFICATION SafeSpec
CONSTANTS
    QUEUE_SIZE = 5
    Events <- MCEvents
    Cpus = {c1, c2}
PROPERTY ImplementsBoundedQueue

SPECIFICATION Spec
CONSTANTS
    QUEUE_SIZE = 3
    Events <- MCOneEvent
    Cpus = {c1, c2}
INVARIANTS
    TypeOK
    NothingWaits
PROPERTIES
    FlagIsServed
    EventsAreTaken
CHECK_DEADLOCK FALSE

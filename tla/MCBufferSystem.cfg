CONSTANTS
    Event = {e1, e2, e3, e4}
    Capacity = 2
    BatchSize = 2
SPECIFICATION FairSpec
INVARIANTS
    FifoConservation
    StopDrains
PROPERTIES
    ImplementsSink
    AcceptedIsHanded
    StopTerminates
CHECK_DEADLOCK FALSE

CONSTANTS
    Files = {f1, f2}
    SessionOf <- OwnSession
    MaxFiles = 1
    Window = 1
    Activity = {}
    MaxWrites = 2
    MaxFailures = 2
SPECIFICATION FairSpec
INVARIANTS
    ReadyIsComplete
PROPERTIES
    CatchesUp

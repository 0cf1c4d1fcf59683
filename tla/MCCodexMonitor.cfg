CONSTANTS
    Files = {f1, f2}
    SessionOf <- OneSession
    MaxFiles = 0
    Window = 1
    Activity = {"call", "item"}
    MaxWrites = 3
    MaxFailures = 1
SPECIFICATION Spec
SYMMETRY Symmetry
INVARIANTS
    IncrementalIsFull
    BilledOnce
    ReadyIsComplete
PROPERTIES
    FullHeals

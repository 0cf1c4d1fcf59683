CONSTANTS
    Lines = {l1, l2}
    Requests = {r1}
    Posts = {p1}
    Capacity = 1
    BatchSize = 2
SPECIFICATION FairSpec
CHECK_DEADLOCK FALSE
INVARIANTS
    LossOnlyFromStragglers
    FinalBackupIsLast
PROPERTIES
    ShutdownTerminates

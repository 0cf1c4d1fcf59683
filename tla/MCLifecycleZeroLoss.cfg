CONSTANTS
    Lines = {l1, l2}
    Requests = {r1}
    Posts = {}
    Capacity = 1
    BatchSize = 2
SPECIFICATION Spec
CHECK_DEADLOCK FALSE
INVARIANTS
    ZeroDataLoss

CONSTANTS
    Refreshers = {ticker, handler}
    NumFiles = 2
    MaxFiles = 1
    MaxWrites = 3
    MaxFailures = 1
SPECIFICATION FairSpec
INVARIANTS
    Accurate
PROPERTIES
    NeverShrinks
    RefreshIsCurrent
    CatchesUp

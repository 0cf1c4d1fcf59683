CONSTANTS
    c1 = c1
    c2 = c2
    m1 = m1
    m2 = m2
    Chat <- OneChat
    Interactive = {p1}
    Model = {m1, m2}
    NoModel = NoModel
    DefaultModel = m1
    Dirs <- OneDir
    Script <- OneScript
    Lookback = 1
    FlushEvery = 2
    TasksEvery = 2
    Capacity = 1
    BatchSize = 2
    MaxFills = 1
    MaxRestarts = 1
    WithRollup = FALSE
SPECIFICATION FairSpec
INVARIANTS
    TypeOK
    OneRowPerEvent
    NothingSkipped
    BackfillComplete
PROPERTIES
    ImplementsLedger
    CatchesUp
    BufferedIsStored
CHECK_DEADLOCK FALSE

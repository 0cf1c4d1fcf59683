CONSTANTS
    c1 = c1
    c2 = c2
    m1 = m1
    m2 = m2
    Chat <- TwoChat
    Interactive = {}
    Model = {m1, m2}
    NoModel = NoModel
    DefaultModel = m1
    Dirs <- TwoDirs
    Script <- TwoScript
    Lookback = 1
    FlushEvery = 3
    TasksEvery = 2
    Capacity = 1
    BatchSize = 1
    MaxFills = 1
    MaxRestarts = 0
    WithRollup = TRUE
SPECIFICATION Spec
PROPERTIES
    RollupNeverDoubles
CHECK_DEADLOCK FALSE

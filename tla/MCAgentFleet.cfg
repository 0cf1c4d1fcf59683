CONSTANTS
    NumSteps = 3
    NumCalls <- MCNumCalls
    Undated <- MCUndated
    Recent = 1
    SweepAge = 2
    Zone = 1
    TasksEvery = 3
    MaxFills = 2
    MaxFailures = 1
SPECIFICATION FairSpec
PROPERTIES
    StatusIsEarned
    AnswerAgrees
    GhostsEnd

CONSTANTS
    a = a
    b = b
    c = c
    d = d
    t = t
    g = g
    k = k
    claude1 = claude1
    claude2 = claude2
    CodexLine = {a, b}
    ClaudeLine = {c, d, t}
    OtherLine = {g, k}
    Log = {g}
    Task = {k}
    Kind <- MCKind
    CodexFile = {1, 2}
    SessionOf <- MCSessionOf
    SessionOfLine <- MCSessionOfLine
    ClaudeFile = {claude1, claude2}
    FileOf <- MCFileOf
    Ranges = {"today", "1d", "7d"}
    MaxRows = 1
    Day = 4
    Week = 4
    Month = 6
    WeekAgo <- MCWeekAgo
    MonthAgo <- MCMonthAgo
    ClockChange = 3
    Moments = {4, 6, 9}
    Midnight <- MCMidnight
    UTCMidnight <- MCUTCMidnight
    MaxLines = 3
    Project = {1, 2}
    ProjectOf <- MCProjectOf
    Price <- MCPrice
    OneSecond = 2
    Truncated <- MCTruncated
    Ahead <- MCAhead
SYMMETRY MCSymmetry
SPECIFICATION Spec
INVARIANTS
    CountedOnce
    WithinRange
    OnlyLimitsHide
    RankedRight
    SeriesInOrder

SPECIFICATION MCSpec
CHECK_DEADLOCK FALSE
SYMMETRY Symmetry
CONSTANTS
    Absent = Absent
    Timeframes = {1, 3, 6}
    Day = 6
    Month = 12
    Year = 24
    MaxGapRanges = 2
    Callers = {p, q}
    Markets <- MCMarkets
    Asks <- MCAsks
    CandlesMax = 4
    LiveTtl = 1
    ClockMax = 15
    Histories <- MCHistories
    First = 0
    AvailableFrom = 0
    PageSize = 2
    BridgeSize = 3
    EmptyPages = 2
    Opens = 6
    MaxNow = 11
    Null = Null
INVARIANT SetIsWhole
INVARIANT LastAreCounted
INVARIANT ChunksFitTheCalendar
PROPERTY ChartStaysWhole

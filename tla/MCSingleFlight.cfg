CONSTANTS
    r1 = r1
    r2 = r2
    r3 = r3
    p1 = p1
    p2 = p2
    None = None
    MaxExcuses = 2
    Requests = {r1, r2, r3}
    Procs = {p1, p2}
    ProcOf <- MCProcOf
SPECIFICATION FairSpec
CHECK_DEADLOCK FALSE
INVARIANTS
    LocksAreKept
    FetchesWhatIsMissing
    SourceCallsExcused
    OneOutcome
PROPERTIES
    EveryCallEnds

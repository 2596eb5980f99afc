\* Two backtests of the command, three of the user at first, pages of two.
CONSTANTS
    s1 = s1
    s2 = s2
    m1 = m1
    m2 = m2
    None = None
    Seeds = {s1, s2}
    Stars = {"star"}
    Removals = {"removal"}
    Renames = {"rename"}
    Closings = {"closing"}
    Runs <- MCRuns
    Others <- MCOthers
    Earlier <- MCEarlier
    Models <- MCModels
    Renamed <- MCRenamed
    PageSize = 2
SPECIFICATION FairSpec
CONSTRAINT Together
CHECK_DEADLOCK FALSE
INVARIANTS
    SeedReplacesItself
    ListsAddUp
PROPERTIES
    AtomicSpec
    EveryRequestEnds

\* One change of the files; two thresholds and two stop losses make a row each.
CONSTANTS
    Absent = Absent
    r1 = r1
    r2 = r2
    g1 = g1
    g2 = g2
    Singles = {r1, r2}
    Grids = {g1, g2}
    Names <- MCNames
    Hidden = {"_old"}
    Contents <- MCContents
    ModelChoices <- MCModelChoices
    Thresholds <- MCThresholds
    StopLosses <- MCStopLosses
    Jobs = {1, 2}
    MaxChanges = 1
SPECIFICATION CommandSpec
SYMMETRY Symmetry
CONSTRAINT Bounded
CHECK_DEADLOCK FALSE
INVARIANTS
    ResultsAreComplete
    RecordComesLast
PROPERTIES
    ExitCodeTells

CONSTANTS
    u1 = u1
    u2 = u2
    u3 = u3
    None = None
    Uploads = {u1, u2, u3}
    Changes = {"x1"}
    Removals = {"d1"}
    Closings = {"c1"}
    Size <- MCSize
    Quota = 2
    ModelsMax = 2
    Numbers = {1, 2}
SPECIFICATION Spec
CONSTRAINT Together
SYMMETRY Symmetry
CHECK_DEADLOCK FALSE
INVARIANTS
    WithinQuota
    NoNameClash
    RowsAndFilesAgree
    NothingAfterTheAccount

SPECIFICATION Spec
CONSTANTS
  p1 = p1
  p2 = p2
  r1 = r1
  Procs = {p1, p2}
  Readers = {r1}
  ProcOf <- MCProcOf
  Symbols = {s1, s2}
  RefreshAfter = 1
  Keep = 2
  MaxNow = 2
  MaxFaults = 1
  Dead = Dead
  None = None
SYMMETRY MCSymmetry
CONSTRAINT Together
PROPERTIES StoredNeverGoesBack RowsKeepTheirTime

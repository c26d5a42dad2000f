SPECIFICATION Spec
CONSTANTS
  c1 = c1
  p1 = p1
  n1 = n1
  n2 = n2
  v1 = v1
  v2 = v2
  None = None
  Partial = Partial
  Callers = {c1}
  Procs = {p1}
  Names = {n1,n2}
  Versions = {v1, v2}
  Original = v1
  Jobs = {"upgrade", "backup", "restore", "delete"}
  SameSecond = FALSE
  Reboots = TRUE
SYMMETRY Interchangeable
INVARIANTS TypeOK FailureRestores  
PROPERTY UpgradeIsOneStep

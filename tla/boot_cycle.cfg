CONSTANTS
  p1 = p1
  p2 = p2
  Procs = {p1}
  Commands = {"refresh", "rollback"}
  Kernels = {"linux", "linux-lts"}
  Base = "linux"
  Included = {}
  Excluded = {}
  ReadWrite = {2}
  IncludeReadWrite = TRUE
  MaxMenu = 1
  MaxNumber = 2
SPECIFICATION Spec
INVARIANTS TypeOK MenuComplete StillBoots RollbackOffered
PROPERTIES OverrideIsAuthoritative SnapshotKeepsMenu
SYMMETRY Symmetry
CHECK_DEADLOCK FALSE

CONSTANTS
  p1 = p1
  p2 = p2
  Procs = {p1}
  Commands = {"refresh", "rollback"}
  Kernels = {"linux", "linux-lts"}
  Base = "linux"
  Included = {}
  Excluded = {}
  ReadWrite = {}
  IncludeReadWrite = FALSE
  MaxMenu = 1
  MaxNumber = 1
SPECIFICATION Spec
INVARIANT MainEntryBootsMain
SYMMETRY Symmetry
CHECK_DEADLOCK FALSE

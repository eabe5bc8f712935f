CONSTANTS
  p1 = p1
  p2 = p2
  Procs = {p1, p2}
  MaxFaults = 2
  MaxCrashes = 2
SPECIFICATION Spec
INVARIANTS TypeOK RootsKept TargetPresent
PROPERTIES SuccessMeansReplaced FirstFailureUndone RunningRootStays
CHECK_DEADLOCK FALSE

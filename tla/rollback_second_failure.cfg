CONSTANTS
  p1 = p1
  p2 = p2
  Procs = {p1, p2}
  MaxFaults = 1
  MaxCrashes = 0
SPECIFICATION Spec
PROPERTY PartlyRecovered
CHECK_DEADLOCK FALSE

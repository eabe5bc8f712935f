CONSTANTS
  a1 = a1
  a2 = a2
  r = r
  c = c
  Procs = {a1, a2}
  Role <- RoleOf
  LockDir <- OneDir
  Absent = Absent
  Unused = Unused
  Texts = {"menu", "other"}
  Names = {1, 2}
  OldBackups = {}
  Retention = 1
  ClockGrain = 1
  MaxEdits = 0
  MaxFaults = 0
  MaxCrashes = 0
SPECIFICATION SBSpec
INVARIANT InStepAtRest
CHECK_DEADLOCK FALSE

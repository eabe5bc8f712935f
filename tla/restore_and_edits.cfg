CONSTANTS
  a1 = a1
  a2 = a2
  r = r
  c = c
  Procs = {a1, r}
  Role <- RoleOf
  LockDir <- OneDir
  Absent = Absent
  Unused = Unused
  Texts = {"menu", "other"}
  Names = {1, 2, 3}
  OldBackups = {2}
  Retention = 1
  ClockGrain = 1
  MaxEdits = 1
  MaxFaults = 1
  MaxCrashes = 1
SPECIFICATION Spec
INVARIANT Exclusive
PROPERTY LostOnlyInWindow
CHECK_DEADLOCK FALSE

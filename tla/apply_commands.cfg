CONSTANTS
  a1 = a1
  a2 = a2
  r = r
  c = c
  Procs = {a1, a2, c}
  Role <- RoleOf
  LockDir <- OneDir
  Absent = Absent
  Unused = Unused
  Texts = {"menu", "other"}
  Names = {1, 2, 3}
  OldBackups = {2}
  Retention = 1
  ClockGrain = 1
  MaxEdits = 0
  MaxFaults = 2
  MaxCrashes = 1
SPECIFICATION Spec
INVARIANTS TypeOK Exclusive NeverTorn RollbackBreaksOnlyTwice
PROPERTIES NothingLost AllOrNothing OldestGoFirst ReplacesAtomically
CHECK_DEADLOCK FALSE

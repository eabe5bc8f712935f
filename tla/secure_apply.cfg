CONSTANTS
  a1 = a1
  a2 = a2
  r = r
  c = c
  Procs = {a1, c}
  Role <- RoleOf
  LockDir <- OneDir
  Absent = Absent
  Unused = Unused
  Texts = {"menu", "other"}
  Names = {1, 2}
  OldBackups = {2}
  Retention = 1
  ClockGrain = 1
  MaxEdits = 0
  MaxFaults = 3
  MaxCrashes = 1
SPECIFICATION SBSpec
INVARIANTS SBTypeOK InStepAtRest WayBack BrokenOnlyAfterRetries
PROPERTY SecureAllOrNothing
CHECK_DEADLOCK FALSE

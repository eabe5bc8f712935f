SPECIFICATION MCSpec
CONSTANTS
  Machines <- MCMachines
  NameOrder <- MCNameOrder
  Uuids <- MCUuids
  NumberWords <- MCNumberWords
  Commands = {"status", "plan", "apply"}
  LargeMenu = 1
  MaxChanges = 1
  MaxRuns = 2
  Arguments <- MCArguments
  ConfigFiles <- MCConfigFiles
  Descriptions <- MCDescriptions
  DiffLines = {1, 2}
  MaxArguments = 2
  MaxSnapshots = 2
  MaxDiffLines = 4
INVARIANTS
  TypeOK
  HealthyMenuBoots
  GeneratedLineAccepted
  RenderedLineIsRead
  ShownConfigLoads
  SnapshotsAreRead
  DiffIsExact
PROPERTY
  VerdictStands
CHECK_DEADLOCK FALSE

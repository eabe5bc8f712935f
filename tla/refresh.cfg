CONSTANTS
  service = service
  refresh = refresh
  apply = apply
  snapper = snapper
  pacman = pacman
  Hooks = {snapper, pacman}
  Service = service
  Manual = {refresh}
  Applies = {apply}
  MaxEvents = 2
  MaxFaults = 1
  MaxInvalid = 1
  MaxReboots = 1
SPECIFICATION Spec
INVARIANTS TypeOK EventsReachMenu
PROPERTIES NeverGoesBack Settles RefreshEnds
CHECK_DEADLOCK FALSE

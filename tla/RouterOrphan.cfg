SPECIFICATION Spec
CONSTANTS
  r1 = r1
  r2 = r2
  r3 = r3
  Refs <- MCRefs
  Capacity = 2
  Volumes = {1, 2, 3}
  StrategyCount = 2
  Quantum <- MCQuantum
  QueueLength = 3
  Owner <- MCOwner
  Sign <- MCSign
  OpenLimit = 3
  Burst <- MCBurst
  PendingCapacity = 1
  ReducingAllowed = TRUE
  Rooms <- MCRooms
  Scenarios <- Orphaned
  MaxReports = 3
  MaxTicks = 1
PROPERTIES UndoExact
CHECK_DEADLOCK FALSE

SPECIFICATION Spec
CONSTANTS
  MaxPositions = 1
  MaxLosses = 2
  MaxRearms = 1
  MaxConsec = 2
  Setups <- AllSetups
  Faults <- MCFaults
INVARIANTS PendingIsOwed PaperAgrees ViewSound
PROPERTIES OpensOnlyAwaited CommandAnswered OrphanClosed
CHECK_DEADLOCK FALSE

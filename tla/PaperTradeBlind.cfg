SPECIFICATION Spec
CONSTANTS
  MaxPositions = 1
  MaxLosses = 2
  MaxRearms = 1
  MaxConsec = 2
  Setups <- Bridge
  Faults <- BlindFaults
INVARIANTS KnownFlatStart
CHECK_DEADLOCK FALSE

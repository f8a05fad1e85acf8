SPECIFICATION Spec
CONSTANTS
  MaxPositions = 1
  MaxLosses = 2
  MaxRearms = 1
  MaxConsec = 2
  Setups <- Bridge
  Faults <- MCFaults
PROPERTIES NeverRefired
CHECK_DEADLOCK FALSE

SPECIFICATION Spec
CONSTANTS
  r1 = r1
  r2 = r2
  r3 = r3
  r4 = r4
  NoRef = NoRef
  Refs = {r1, r2, r3, r4}
  Capacity = 2
  Volumes = {1}
  Home <- MCHome
INVARIANT IndexExact
PROPERTY ImplementsOms
CHECK_DEADLOCK FALSE

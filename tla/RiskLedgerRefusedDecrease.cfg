SPECIFICATION Spec
CONSTANTS
  a = a
  b = b
  c = c
  s1 = s1
  s2 = s2
  g = g
  Void = Void
  Callers = {t1}
  Refs = {b}
  Volumes = {1, 2, 3}
  Dims = {s1, s2, g}
  Halting = {s2}
  MaxOrderVolume = 3
  TableCapacity = 3
  Path <- MCPath
  OpenLimit <- MCLimitOfThree
  Budget <- MCLimitOfThree
  Sign <- MCSign
  Home <- MCHome
INVARIANT RefusedDecreaseSelfCorrects
CHECK_DEADLOCK FALSE

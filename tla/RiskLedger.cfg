SPECIFICATION Spec
CONSTANTS
  a = a
  b = b
  c = c
  s1 = s1
  s2 = s2
  g = g
  Void = Void
  Callers = {t1, t2}
  Refs = {a, b, c}
  Volumes = {1, 2, 3}
  Dims = {s1, s2, g}
  Halting = {s2}
  MaxOrderVolume = 2
  TableCapacity = 3
  Path <- MCPath
  OpenLimit <- MCOpenLimit
  Budget <- MCBudget
  Sign <- MCSign
  Home <- MCHome
SYMMETRY Threads
INVARIANTS NeverOversubscribed CountersExact
CHECK_DEADLOCK FALSE

SPECIFICATION Spec
CONSTANTS
  None = None
  p1 = p1
  p2 = p2
  p3 = p3
  f1 = f1
  f2 = f2
  Devs = {p1, p2}
  Files = {f1}
  MaxTries = 1
  Faults <- Unbinds
CHECK_DEADLOCK FALSE
INVARIANTS
  LastCoreRemoved

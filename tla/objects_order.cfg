SPECIFICATION FairSpec
CONSTANTS
  None = None
  f1 = f1
  f2 = f2
  b1 = b1
  b2 = b2
  b3 = b3
  j1 = j1
  j2 = j2
  j3 = j3
  j4 = j4
  j5 = j5
  p1 = p1
  p2 = p2
  Files = {f1}
  BOs = {b1, b2}
  Jobs = {j1, j2, j3}
  Cores = {p1, p2}
  FileOf <- MCFileOf
  InBos <- MCInBos
  OutBos <- MCOutBos
  Faults <- Failures
CHECK_DEADLOCK FALSE
INVARIANTS
  CpuOwnsOutput
  NoConflict
  ObjInv
PROPERTIES
  FileGivesBackAll

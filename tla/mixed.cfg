SPECIFICATION WorkingSpec
CONSTANTS
  None = None
  c1 = c1
  c2 = c2
  c3 = c3
  l1 = l1
  l2 = l2
  d1 = d1
  d2 = d2
  t1 = t1
  t2 = t2
  Jobs = {c1, c2, l1, l2}
  ChainedJobs <- MCChained
  TaskCount <- MCTaskCount
  DomainOf <- MCDomainOf
  LutOf <- MCLutOf
  Faults <- NoFaults
  OpenMask = TRUE
CHECK_DEADLOCK FALSE
INVARIANTS
  DoneFenceMeansComplete
  StartedOnce
  ChainHasItsLut
  DmaThroughOwnDomain
  ExecuterFree
PROPERTIES
  JobsSucceed
  ServesJobs

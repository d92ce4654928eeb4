SPECIFICATION Spec
CONSTANTS
  None = None
  c1 = c1
  c2 = c2
  c3 = c3
  l1 = l1
  l2 = l2
  d1 = d1
  d2 = d2
  t1 = t1
  t2 = t2
  Jobs = {c2, l1}
  ChainedJobs <- MCChained
  TaskCount <- MCTaskCount
  DomainOf <- MCDomainOf
  LutOf <- MCLutOf
  Faults <- AllFaults
  OpenMask = FALSE
CHECK_DEADLOCK FALSE
INVARIANTS
  TypeOK
  IInv
  PmNeverShort
  PoweredInUse
  CreditsMatch
  InFlightAlive
  SignalInOrder
PROPERTIES
  InFlightNotOverwritten
  OrdersJobs

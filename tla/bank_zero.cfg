SPECIFICATION Spec
CONSTANTS
  None = None
  c1 = c1
  c2 = c2
  l1 = l1
  l2 = l2
  empty = empty
  Jobs = {c1, c2, l1, l2, empty}
  Args <- MCArgs
  UserJobs <- MCUserJobs
  UserTasks <- MCUserTasks
  Submits <- MCSubmits
  U32 <- MCU32
  TASK_SIZE = 8
  JOB_SIZE = 72
  LutWords = 2
  Scale = 2
  Index = 1
  OpenMask = FALSE
  Walk = FALSE
  PulseKeep = FALSE
  Faults = {"mmu_irq"}
  Reports = {0, 16}
CHECK_DEADLOCK FALSE
INVARIANTS
  LegacySteppingOnly

--------------------------- MODULE RocketJobProofs ---------------------------
(****************************************************************************)
(* What holds of one core's job driver for every set of jobs, every number  *)
(* of tasks, every pattern of faults and either scheduler configuration:    *)
(* the inductive invariant IInv of RocketJobInv, one lemma per action of    *)
(* RocketJob, and the invariants and action properties that follow from it. *)
(****************************************************************************)
EXTENDS RocketJobInv, TLAPS

USE JobAssumption DEF hwVars, schedVars, pmVars, pcVars, runVars, irqVars,
  thrVars, tdrVars, lutVars, One

(* The counter and the two flags of the PM core, over its operations.       *)
LEMMA PmOperations ==
  ASSUME PmTypeOK,
         \/ GetSync \/ GetSyncFailed \/ GetIfInUse \/ PowerOff(JobIsIdle)
         \/ usage > 0 /\ (Put \/ PutNoidle)
  PROVE  PmTypeOK'
<1>1. usage' \in Nat
  <2>1. CASE usage' \in {usage, usage + 1} BY <2>1 DEF PmTypeOK
  <2>2. CASE usage > 0 /\ usage' = usage - 1 BY <2>2 DEF PmTypeOK
  <2> QED
    BY <2>1, <2>2 DEF GetSync, GetSyncFailed, GetIfInUse, PowerOff, Put,
      PutNoidle
<1>2. idleReq' \in BOOLEAN
  BY DEF PmTypeOK, GetSync, GetSyncFailed, GetIfInUse, PowerOff, Put, PutNoidle
<1>3. powered' \in BOOLEAN
  BY DEF PmTypeOK, GetSync, GetSyncFailed, GetIfInUse, PowerOff, Put, PutNoidle
<1> QED BY <1>1, <1>2, <1>3 DEF PmTypeOK

(* rocket_job_hw_submit() keeps the types of what it writes.                *)
LEMMA HwSubmitType ==
  ASSUME HwTypeOK, FlowTypeOK, NEW j \in Jobs, HwSubmit(j)
  PROVE  /\ HwTypeOK'
         /\ nextTask' \in [Jobs -> Nat]
         /\ lutValid' \in BOOLEAN
<1>1. CASE resetPending
  BY <1>1 DEF HwSubmit, HwTypeOK, FlowTypeOK
<1>2. CASE ~resetPending /\ Chained(j) /\ SubmitChain(j)
  <2>1. nextTask' \in [Jobs -> Nat] BY <1>2 DEF SubmitChain, FlowTypeOK
  <2>2. lutValid' \in BOOLEAN BY <1>2 DEF SubmitChain, FlowTypeOK
  <2>3. mask' \subseteq Bits BY <1>2 DEF SubmitChain, Start, ChainMask, Bits
  <2>4. HwTypeOK' BY <1>2, <2>3 DEF SubmitChain, Start, HwTypeOK
  <2> QED BY <2>1, <2>2, <2>4
<1>3. CASE ~resetPending /\ ~Chained(j) /\ SubmitTask(j)
  <2>1. nextTask' \in [Jobs -> Nat] BY <1>3 DEF SubmitTask, FlowTypeOK
  <2>2. lutValid' \in BOOLEAN BY <1>3 DEF SubmitTask, FlowTypeOK
  <2>3. autoGating' \in BOOLEAN BY <1>3 DEF SubmitTask, HwTypeOK
  <2>4. hwTask' \in Nat BY <1>3 DEF SubmitTask, Start, FlowTypeOK
  <2>5. executer' \in {0, 1} BY <1>3 DEF SubmitTask, HwTypeOK
  <2>6. /\ hw' \in Jobs \cup {None} /\ raw' \subseteq Bits /\ mask' \subseteq Bits
        /\ ran' \in [Jobs -> Nat] /\ starts' \in [Jobs -> Nat]
    BY <1>3 DEF SubmitTask, Start, HwTypeOK
  <2> QED BY <2>1, <2>2, <2>3, <2>4, <2>5, <2>6 DEF HwTypeOK
<1> QED BY <1>1, <1>2, <1>3 DEF HwSubmit

(* rocket_job_push() arms the job and hands it to the entity queue.         *)
LEMMA SubmitStep ==
  ASSUME IInv, NEW j \in Jobs, Submit(j)
  PROVE  IInv'
<1>1. HwTypeOK' BY DEF IInv, TypeOK, HwTypeOK, Submit
<1>2. SchedTypeOK' BY DEF IInv, TypeOK, SchedTypeOK, Places, Submit, Push
<1>3. PmTypeOK' BY DEF IInv, TypeOK, PmTypeOK, Submit
<1>4. FlowTypeOK' BY DEF IInv, TypeOK, FlowTypeOK, Submit
<1>5. RunnerOK' BY DEF IInv, RunnerOK, Submit, Push
<1>6. ArmedOK' BY DEF IInv, ArmedOK, Submit, Push
<1>7. CreditOK' BY DEF IInv, CreditOK, Submit, Push
<1>8. SchedOK' BY DEF IInv, SchedOK, Submit, Push
<1>9. UnfinishedOK' BY DEF IInv, UnfinishedOK, Submit, Push
<1>10. SeqOK' BY DEF IInv, SeqOK, Submit, Push
<1>11. FlightOK' BY DEF IInv, FlightOK, Submit, Push
<1>12. PmOK'
  BY DEF IInv, PmOK, PmNeverShort, PmBalanced, PoweredInUse, PmHolders,
    RunnerHolds, Submit
<1> QED
  BY <1>1, <1>2, <1>3, <1>4, <1>5, <1>6, <1>7, <1>8, <1>9, <1>10, <1>11, <1>12
    DEF IInv, TypeOK

(* The scheduler worker takes a job within the credit limit.                *)
LEMMA RunJobStep ==
  ASSUME IInv, NEW j \in Jobs, RunJob(j)
  PROVE  IInv'
<1>1. HwTypeOK' BY DEF IInv, TypeOK, HwTypeOK, RunJob
<1>2. SchedTypeOK'
  BY DEF IInv, TypeOK, SchedTypeOK, Places, RunJob, Begin, CreditLimit
<1>3. PmTypeOK' BY DEF IInv, TypeOK, PmTypeOK, RunJob
<1>4. FlowTypeOK' BY DEF IInv, TypeOK, FlowTypeOK, RunJob
<1>5. RunnerOK'
  BY DEF IInv, TypeOK, SchedTypeOK, RunnerOK, CreditOK, SchedOK, FlightOK,
    RunJob, Begin, CreditLimit
<1>6. ArmedOK' BY DEF IInv, ArmedOK, RunJob, Begin, CreditLimit
<1>7. CreditOK' BY DEF IInv, CreditOK, RunJob, Begin, CreditLimit
<1>8. SchedOK'
  BY DEF IInv, TypeOK, SchedTypeOK, SchedOK, RunJob, Begin, CreditLimit
<1>9. UnfinishedOK' BY DEF IInv, UnfinishedOK, RunJob, Begin, CreditLimit
<1>10. SeqOK'
  BY DEF IInv, TypeOK, SchedTypeOK, CreditOK, UnfinishedOK, SeqOK, RunJob,
    Begin, CreditLimit
<1>11. FlightOK' BY DEF IInv, FlightOK, RunJob, Begin, CreditLimit
<1>12. PmOK'
  BY DEF IInv, PmOK, PmNeverShort, PmBalanced, PoweredInUse, PmHolders,
    RunnerHolds, RunJob
<1> QED
  BY <1>1, <1>2, <1>3, <1>4, <1>5, <1>6, <1>7, <1>8, <1>9, <1>10, <1>11, <1>12
    DEF IInv, TypeOK

(* No fence could be allocated: the job ends without the core.              *)
LEMMA RunNoFenceStep ==
  ASSUME IInv, RunNoFence
  PROVE  IInv'
<1>1. HwTypeOK' BY DEF IInv, TypeOK, HwTypeOK, RunNoFence
<1>2. SchedTypeOK'
  BY DEF IInv, TypeOK, SchedTypeOK, RunnerOK, CreditOK, RunNoFence, JobDone
<1>3. PmTypeOK' BY DEF IInv, TypeOK, PmTypeOK, RunNoFence
<1>4. FlowTypeOK' BY DEF IInv, TypeOK, FlowTypeOK, RunNoFence
<1>5. RunnerOK' BY DEF IInv, RunnerOK, Starting, RunNoFence, JobDone
<1>6. ArmedOK' BY DEF IInv, ArmedOK, RunNoFence, JobDone
<1>7. CreditOK' BY DEF IInv, RunnerOK, CreditOK, RunNoFence, JobDone
<1>8. SchedOK' BY DEF IInv, RunnerOK, SchedOK, RunNoFence, JobDone
<1>9. UnfinishedOK'
  BY DEF IInv, TypeOK, SchedTypeOK, UnfinishedOK, RunNoFence, JobDone
<1>10. SeqOK' BY DEF IInv, SeqOK, RunNoFence, JobDone
<1>11. FlightOK' BY DEF IInv, RunnerOK, FlightOK, RunNoFence, JobDone
<1>12. PmOK'
  BY DEF IInv, PmOK, PmNeverShort, PmBalanced, PoweredInUse, PmHolders,
    RunnerHolds, RunNoFence
<1> QED
  BY <1>1, <1>2, <1>3, <1>4, <1>5, <1>6, <1>7, <1>8, <1>9, <1>10, <1>11, <1>12
    DEF IInv, TypeOK

(* pm_runtime_get_sync() of rocket_job_run(), or its failure.               *)
LEMMA RunResumeStep ==
  ASSUME IInv, RunResume
  PROVE  IInv'
<1>1. HwTypeOK'
  BY DEF IInv, TypeOK, HwTypeOK, RunResume, GetSync, GetSyncFailed
<1>2. SchedTypeOK'
  BY DEF IInv, TypeOK, SchedTypeOK, RunResume, GetSync, GetSyncFailed
<1>3. PmTypeOK'
  BY PmOperations DEF RunResume, IInv, TypeOK
<1>4. FlowTypeOK'
  <2>1. lutValid' \in BOOLEAN BY DEF RunResume, IInv, TypeOK, FlowTypeOK
  <2>2. /\ runPc' \in {"attach", "return"}
        /\ UNCHANGED <<runJob, irqVars, thrVars, tdrVars, inFlight, nextTask,
                       doneFence, resetPending>>
    BY DEF RunResume
  <2> QED BY <2>1, <2>2 DEF IInv, TypeOK, FlowTypeOK
<1>5. RunnerOK'
  BY DEF IInv, RunnerOK, Starting, RunResume, GetSync, GetSyncFailed
<1>6. ArmedOK' BY DEF IInv, ArmedOK, RunResume, GetSync, GetSyncFailed
<1>7. CreditOK' BY DEF IInv, CreditOK, RunResume, GetSync, GetSyncFailed
<1>8. SchedOK' BY DEF IInv, SchedOK, RunResume, GetSync, GetSyncFailed
<1>9. UnfinishedOK'
  BY DEF IInv, UnfinishedOK, RunResume, GetSync, GetSyncFailed
<1>10. SeqOK' BY DEF IInv, SeqOK, RunResume, GetSync, GetSyncFailed
<1>11. FlightOK' BY DEF IInv, FlightOK, RunResume, GetSync, GetSyncFailed
<1>12. PmOK'
  <2>1. ASSUME GetSync, runPc' = "attach" PROVE PmOK'
    <3>1. usage' = usage + 1 /\ PmHolders' = PmHolders + 1
      BY <2>1 DEF RunResume, GetSync, PmHolders, RunnerHolds
    <3>2. powered' BY <2>1 DEF GetSync
    <3> QED
      BY <3>1, <3>2 DEF IInv, TypeOK, PmTypeOK, PmOK, PmNeverShort,
        PmBalanced,
                 PoweredInUse, PmHolders
  <2>2. ASSUME GetSyncFailed, runPc' = "return", "resume" \in Faults PROVE PmOK'
    BY <2>2 DEF RunResume, GetSyncFailed, IInv, TypeOK, PmTypeOK, PmOK,
      PmNeverShort, PmBalanced, PoweredInUse, PmHolders, RunnerHolds
  <2> QED BY <2>1, <2>2 DEF RunResume
<1> QED
  BY <1>1, <1>2, <1>3, <1>4, <1>5, <1>6, <1>7, <1>8, <1>9, <1>10, <1>11, <1>12
    DEF IInv, TypeOK

(* The domain is attached: the job must already hold its reference.         *)
LEMMA RunAttachStep ==
  ASSUME IInv, RunAttach
  PROVE  IInv'
<1>1. HwTypeOK' BY DEF IInv, TypeOK, HwTypeOK, RunAttach
<1>2. SchedTypeOK' BY DEF IInv, TypeOK, SchedTypeOK, RunAttach
<1>3. PmTypeOK' BY DEF IInv, TypeOK, PmTypeOK, RunAttach
<1>4. FlowTypeOK' BY DEF IInv, TypeOK, FlowTypeOK, RunAttach
<1>5. RunnerOK' BY DEF IInv, RunnerOK, Starting, RunAttach
<1>6. ArmedOK' BY DEF IInv, ArmedOK, RunAttach
<1>7. CreditOK' BY DEF IInv, CreditOK, RunAttach
<1>8. SchedOK' BY DEF IInv, SchedOK, RunAttach
<1>9. UnfinishedOK' BY DEF IInv, UnfinishedOK, RunAttach
<1>10. SeqOK' BY DEF IInv, SeqOK, RunAttach
<1>11. FlightOK' BY DEF IInv, FlightOK, RunAttach
<1>12. PmOK'
  BY DEF IInv, TypeOK, PmTypeOK, PmOK, PmNeverShort, PmBalanced, PoweredInUse,
    PmHolders, RunnerHolds, RunAttach
<1> QED
  BY <1>1, <1>2, <1>3, <1>4, <1>5, <1>6, <1>7, <1>8, <1>9, <1>10, <1>11, <1>12
    DEF IInv, TypeOK

(* rocket_job_hw_submit() under the job lock makes the job current.         *)
LEMMA RunSubmitStep ==
  ASSUME IInv, RunSubmit
  PROVE  IInv'
<1>1. HwTypeOK'
  <2>1. runJob \in Jobs BY DEF RunSubmit, IInv, RunnerOK
  <2> QED BY <2>1, HwSubmitType DEF RunSubmit, IInv, TypeOK
<1>2. SchedTypeOK' BY DEF IInv, TypeOK, SchedTypeOK, RunSubmit, JobLockFree
<1>3. PmTypeOK' BY DEF IInv, TypeOK, PmTypeOK, RunSubmit, JobLockFree
<1>4. FlowTypeOK'
  <2>1. runJob \in Jobs BY DEF RunSubmit, IInv, RunnerOK
  <2> QED BY <2>1, HwSubmitType DEF RunSubmit, IInv, TypeOK, FlowTypeOK
<1>5. RunnerOK' BY DEF IInv, RunnerOK, Starting, RunSubmit, JobLockFree
<1>6. ArmedOK' BY DEF IInv, ArmedOK, RunSubmit, JobLockFree
<1>7. CreditOK' BY DEF IInv, CreditOK, RunSubmit, JobLockFree
<1>8. SchedOK' BY DEF IInv, SchedOK, RunSubmit, JobLockFree
<1>9. UnfinishedOK' BY DEF IInv, UnfinishedOK, RunSubmit, JobLockFree
<1>10. SeqOK' BY DEF IInv, SeqOK, RunSubmit, JobLockFree
<1>11. FlightOK'
  BY DEF IInv, RunnerOK, Starting, SchedOK, FlightOK, RunSubmit, JobLockFree
<1>12. PmOK'
  BY DEF IInv, TypeOK, PmTypeOK, RunnerOK, SchedOK, FlightOK, PmOK,
    PmNeverShort, PmBalanced, PoweredInUse, PmHolders, RunnerHolds, RunSubmit,
    JobLockFree
<1> QED
  BY <1>1, <1>2, <1>3, <1>4, <1>5, <1>6, <1>7, <1>8, <1>9, <1>10, <1>11, <1>12
    DEF IInv, TypeOK

(* run_job() returned a fence, perhaps one that is already signalled.       *)
LEMMA RunReturnStep ==
  ASSUME IInv, RunReturn
  PROVE  IInv'
<1>1. HwTypeOK' BY DEF IInv, TypeOK, HwTypeOK, RunReturn
<1>2. SchedTypeOK'
  <2>1. creditCount - 1 \in Nat
    BY DEF RunReturn, IInv, TypeOK, SchedTypeOK, CreditOK, RunnerOK
  <2> QED
    BY <2>1 DEF RunReturn, Hook, JobDone, IInv, TypeOK, SchedTypeOK, RunnerOK
<1>3. PmTypeOK' BY DEF IInv, TypeOK, PmTypeOK, RunReturn
<1>4. FlowTypeOK' BY DEF IInv, TypeOK, FlowTypeOK, RunReturn
<1>5. RunnerOK' BY DEF IInv, RunnerOK, Starting, RunReturn, Hook, JobDone
<1>6. ArmedOK' BY DEF IInv, RunnerOK, ArmedOK, RunReturn, Hook, JobDone
<1>7. CreditOK' BY DEF IInv, RunnerOK, CreditOK, RunReturn, Hook, JobDone
<1>8. SchedOK'
  BY DEF IInv, TypeOK, SchedTypeOK, SchedOK, RunReturn, Hook, JobDone
<1>9. UnfinishedOK'
  BY DEF IInv, TypeOK, SchedTypeOK, UnfinishedOK, RunReturn, Hook, JobDone
<1>10. SeqOK'
  BY DEF IInv, TypeOK, SchedTypeOK, SeqOK, RunReturn, Hook, JobDone
<1>11. FlightOK' BY DEF IInv, FlightOK, RunReturn, Hook, JobDone
<1>12. PmOK'
  BY DEF IInv, PmOK, PmNeverShort, PmBalanced, PoweredInUse, PmHolders,
    RunnerHolds, RunReturn
<1> QED
  BY <1>1, <1>2, <1>3, <1>4, <1>5, <1>6, <1>7, <1>8, <1>9, <1>10, <1>11, <1>12
    DEF IInv, TypeOK

(* The worker frees the oldest finished job of the pending list.            *)
LEMMA FreeJobStep ==
  ASSUME IInv, NEW j \in Jobs, FreeJob(j)
  PROVE  IInv'
<1>1. HwTypeOK' BY DEF IInv, TypeOK, HwTypeOK, FreeJob, FreeOldest
<1>2. SchedTypeOK'
  BY DEF IInv, TypeOK, SchedTypeOK, Places, FreeJob, FreeOldest
<1>3. PmTypeOK' BY DEF IInv, TypeOK, PmTypeOK, FreeJob, FreeOldest
<1>4. FlowTypeOK' BY DEF IInv, TypeOK, FlowTypeOK, FreeJob, FreeOldest
<1>5. RunnerOK' BY DEF IInv, RunnerOK, FreeJob, FreeOldest, Oldest, Pending
<1>6. ArmedOK' BY DEF IInv, ArmedOK, FreeJob, FreeOldest, Oldest, Pending
<1>7. CreditOK' BY DEF IInv, CreditOK, FreeJob, FreeOldest, Oldest, Pending
<1>8. SchedOK' BY DEF IInv, SchedOK, FreeJob, FreeOldest, Oldest, Pending
<1>9. UnfinishedOK'
  BY DEF IInv, UnfinishedOK, FreeJob, FreeOldest, Oldest, Pending
<1>10. SeqOK' BY DEF IInv, SeqOK, FreeJob, FreeOldest, Oldest, Pending
<1>11. FlightOK'
  BY DEF IInv, SchedOK, FlightOK, FreeJob, FreeOldest, Oldest, Pending
<1>12. PmOK'
  BY DEF IInv, PmOK, PmNeverShort, PmBalanced, PoweredInUse, PmHolders,
    RunnerHolds, FreeJob, FreeOldest
<1> QED
  BY <1>1, <1>2, <1>3, <1>4, <1>5, <1>6, <1>7, <1>8, <1>9, <1>10, <1>11, <1>12
    DEF IInv, TypeOK

(* The hard handler looks at the core only while it is in use.              *)
LEMMA IrqEnterStep ==
  ASSUME IInv, IrqEnter
  PROVE  IInv'
<1>1. HwTypeOK' BY DEF IInv, TypeOK, HwTypeOK, IrqEnter, GetIfInUse, InUse
<1>2. SchedTypeOK'
  BY DEF IInv, TypeOK, SchedTypeOK, IrqEnter, GetIfInUse, InUse
<1>3. PmTypeOK'
  BY PmOperations DEF IrqEnter, IInv, TypeOK
<1>4. FlowTypeOK'
  BY DEF IInv, TypeOK, HwTypeOK, FlowTypeOK, IrqEnter, GetIfInUse, InUse
<1>5. RunnerOK' BY DEF IInv, RunnerOK, IrqEnter, GetIfInUse, InUse
<1>6. ArmedOK' BY DEF IInv, ArmedOK, IrqEnter, GetIfInUse, InUse
<1>7. CreditOK' BY DEF IInv, CreditOK, IrqEnter, GetIfInUse, InUse
<1>8. SchedOK' BY DEF IInv, SchedOK, IrqEnter, GetIfInUse, InUse
<1>9. UnfinishedOK' BY DEF IInv, UnfinishedOK, IrqEnter, GetIfInUse, InUse
<1>10. SeqOK' BY DEF IInv, SeqOK, IrqEnter, GetIfInUse, InUse
<1>11. FlightOK' BY DEF IInv, FlightOK, IrqEnter, GetIfInUse, InUse
<1>12. PmOK'
  BY DEF IInv, TypeOK, PmTypeOK, PmOK, PmNeverShort, PmBalanced, PoweredInUse,
    PmHolders, RunnerHolds, IrqEnter, GetIfInUse, InUse
<1> QED
  BY <1>1, <1>2, <1>3, <1>4, <1>5, <1>6, <1>7, <1>8, <1>9, <1>10, <1>11, <1>12
    DEF IInv, TypeOK

(* The hard handler masks the core and gives its reference back.            *)
LEMMA IrqActStep ==
  ASSUME IInv, IrqAct
  PROVE  IInv'
<1>1. HwTypeOK' BY DEF IInv, TypeOK, HwTypeOK, IrqAct, Put
<1>2. SchedTypeOK' BY DEF IInv, TypeOK, SchedTypeOK, IrqAct, Put
<1>3. PmTypeOK'
  <2>1. usage > 0
    BY DEF IrqAct, IInv, TypeOK, PmTypeOK, PmOK, PmNeverShort, PmHolders,
      RunnerHolds
  <2> QED BY <2>1, PmOperations DEF IrqAct, IInv, TypeOK
<1>4. FlowTypeOK'
  <2>1. thrWake' \in BOOLEAN BY DEF IrqAct, IInv, TypeOK, FlowTypeOK
  <2> QED BY <2>1 DEF IrqAct, IInv, TypeOK, FlowTypeOK
<1>5. RunnerOK' BY DEF IInv, RunnerOK, IrqAct, Put
<1>6. ArmedOK' BY DEF IInv, ArmedOK, IrqAct, Put
<1>7. CreditOK' BY DEF IInv, CreditOK, IrqAct, Put
<1>8. SchedOK' BY DEF IInv, SchedOK, IrqAct, Put
<1>9. UnfinishedOK' BY DEF IInv, UnfinishedOK, IrqAct, Put
<1>10. SeqOK' BY DEF IInv, SeqOK, IrqAct, Put
<1>11. FlightOK' BY DEF IInv, FlightOK, IrqAct, Put
<1>12. PmOK'
  BY DEF IInv, TypeOK, PmTypeOK, PmOK, PmNeverShort, PmBalanced, PoweredInUse,
    PmHolders, RunnerHolds, IrqAct, Put
<1> QED
  BY <1>1, <1>2, <1>3, <1>4, <1>5, <1>6, <1>7, <1>8, <1>9, <1>10, <1>11, <1>12
    DEF IInv, TypeOK

(* The interrupt thread wakes.                                              *)
LEMMA ThrStartStep ==
  ASSUME IInv, ThrStart
  PROVE  IInv'
<1>1. HwTypeOK' BY DEF IInv, TypeOK, HwTypeOK, ThrStart
<1>2. SchedTypeOK' BY DEF IInv, TypeOK, SchedTypeOK, ThrStart
<1>3. PmTypeOK' BY DEF IInv, TypeOK, PmTypeOK, ThrStart
<1>4. FlowTypeOK' BY DEF IInv, TypeOK, FlowTypeOK, ThrStart
<1>5. RunnerOK' BY DEF IInv, RunnerOK, ThrStart
<1>6. ArmedOK' BY DEF IInv, ArmedOK, ThrStart
<1>7. CreditOK' BY DEF IInv, CreditOK, ThrStart
<1>8. SchedOK' BY DEF IInv, SchedOK, ThrStart
<1>9. UnfinishedOK' BY DEF IInv, UnfinishedOK, ThrStart
<1>10. SeqOK' BY DEF IInv, SeqOK, ThrStart
<1>11. FlightOK' BY DEF IInv, FlightOK, ThrStart
<1>12. PmOK'
  BY DEF IInv, PmOK, PmNeverShort, PmBalanced, PoweredInUse, PmHolders,
    RunnerHolds, ThrStart
<1> QED
  BY <1>1, <1>2, <1>3, <1>4, <1>5, <1>6, <1>7, <1>8, <1>9, <1>10, <1>11, <1>12
    DEF IInv, TypeOK

(* The thread decides under the job lock whose completion this is.          *)
LEMMA ThrCheckStep ==
  ASSUME IInv, ThrCheck
  PROVE  IInv'
<1>1. HwTypeOK' BY DEF IInv, TypeOK, HwTypeOK, ThrCheck
<1>2. SchedTypeOK' BY DEF IInv, TypeOK, SchedTypeOK, ThrCheck
<1>3. PmTypeOK' BY DEF IInv, TypeOK, PmTypeOK, ThrCheck
<1>4. FlowTypeOK' BY DEF IInv, TypeOK, HwTypeOK, FlowTypeOK, ThrCheck
<1>5. RunnerOK' BY DEF IInv, RunnerOK, ThrCheck, CurrentIsChain
<1>6. ArmedOK' BY DEF IInv, ArmedOK, ThrCheck, CurrentIsChain
<1>7. CreditOK' BY DEF IInv, CreditOK, ThrCheck, CurrentIsChain
<1>8. SchedOK' BY DEF IInv, SchedOK, ThrCheck, CurrentIsChain
<1>9. UnfinishedOK' BY DEF IInv, UnfinishedOK, ThrCheck, CurrentIsChain
<1>10. SeqOK' BY DEF IInv, SeqOK, ThrCheck, CurrentIsChain
<1>11. FlightOK' BY DEF IInv, FlightOK, ThrCheck, CurrentIsChain
<1>12. PmOK'
  BY DEF IInv, PmOK, PmNeverShort, PmBalanced, PoweredInUse, PmHolders,
    RunnerHolds, ThrCheck
<1> QED
  BY <1>1, <1>2, <1>3, <1>4, <1>5, <1>6, <1>7, <1>8, <1>9, <1>10, <1>11, <1>12
    DEF IInv, TypeOK

(* The thread clears what the core reported.                                *)
LEMMA ThrAckStep ==
  ASSUME IInv, ThrAck
  PROVE  IInv'
<1>1. HwTypeOK'
  <2>1. mask' \subseteq Bits
    BY DEF ThrAck, ChainMask, IInv, TypeOK, HwTypeOK, Bits
  <2>2. raw' \subseteq Bits BY DEF ThrAck, IInv, TypeOK, HwTypeOK
  <2> QED BY <2>1, <2>2 DEF ThrAck, IInv, TypeOK, HwTypeOK
<1>2. SchedTypeOK' BY DEF IInv, TypeOK, SchedTypeOK, ThrAck
<1>3. PmTypeOK' BY DEF IInv, TypeOK, PmTypeOK, ThrAck
<1>4. FlowTypeOK' BY DEF IInv, TypeOK, FlowTypeOK, ThrAck
<1>5. RunnerOK' BY DEF IInv, RunnerOK, ThrAck, ChainMask
<1>6. ArmedOK' BY DEF IInv, ArmedOK, ThrAck, ChainMask
<1>7. CreditOK' BY DEF IInv, CreditOK, ThrAck, ChainMask
<1>8. SchedOK' BY DEF IInv, SchedOK, ThrAck, ChainMask
<1>9. UnfinishedOK' BY DEF IInv, UnfinishedOK, ThrAck, ChainMask
<1>10. SeqOK' BY DEF IInv, SeqOK, ThrAck, ChainMask
<1>11. FlightOK' BY DEF IInv, FlightOK, ThrAck, ChainMask
<1>12. PmOK'
  BY DEF IInv, PmOK, PmNeverShort, PmBalanced, PoweredInUse, PmHolders,
    RunnerHolds, ThrAck
<1> QED
  BY <1>1, <1>2, <1>3, <1>4, <1>5, <1>6, <1>7, <1>8, <1>9, <1>10, <1>11, <1>12
    DEF IInv, TypeOK

(* The thread stops the core before it goes on.                             *)
LEMMA ThrQuiesceStep ==
  ASSUME IInv, ThrQuiesce
  PROVE  IInv'
<1>1. HwTypeOK' BY DEF IInv, TypeOK, HwTypeOK, ThrQuiesce
<1>2. SchedTypeOK' BY DEF IInv, TypeOK, SchedTypeOK, ThrQuiesce
<1>3. PmTypeOK' BY DEF IInv, TypeOK, PmTypeOK, ThrQuiesce
<1>4. FlowTypeOK' BY DEF IInv, TypeOK, FlowTypeOK, ThrQuiesce
<1>5. RunnerOK' BY DEF IInv, RunnerOK, ThrQuiesce
<1>6. ArmedOK' BY DEF IInv, ArmedOK, ThrQuiesce
<1>7. CreditOK' BY DEF IInv, CreditOK, ThrQuiesce
<1>8. SchedOK' BY DEF IInv, SchedOK, ThrQuiesce
<1>9. UnfinishedOK' BY DEF IInv, UnfinishedOK, ThrQuiesce
<1>10. SeqOK' BY DEF IInv, SeqOK, ThrQuiesce
<1>11. FlightOK' BY DEF IInv, FlightOK, ThrQuiesce
<1>12. PmOK'
  BY DEF IInv, PmOK, PmNeverShort, PmBalanced, PoweredInUse, PmHolders,
    RunnerHolds, ThrQuiesce
<1> QED
  BY <1>1, <1>2, <1>3, <1>4, <1>5, <1>6, <1>7, <1>8, <1>9, <1>10, <1>11, <1>12
    DEF IInv, TypeOK

(* The next task of the current job is started, or the job is over.         *)
LEMMA ThrStepStep ==
  ASSUME IInv, ThrStep
  PROVE  IInv'
<1>1. HwTypeOK'
  <2>1. CASE UNCHANGED <<hwVars, nextTask, lutVars>>
    BY <2>1 DEF ThrStep, IInv, TypeOK, HwTypeOK
  <2>2. CASE inFlight # None /\ HwSubmit(inFlight)
    <3>1. inFlight \in Jobs BY <2>2 DEF IInv, TypeOK, FlowTypeOK
    <3> QED BY <2>2, <3>1, HwSubmitType DEF ThrStep, IInv, TypeOK
  <2> QED BY <2>1, <2>2 DEF ThrStep
<1>2. SchedTypeOK' BY DEF IInv, TypeOK, SchedTypeOK, ThrStep
<1>3. PmTypeOK' BY DEF IInv, TypeOK, PmTypeOK, ThrStep
<1>4. FlowTypeOK'
  <2>1. CASE UNCHANGED <<hwVars, nextTask, lutVars>>
    BY <2>1 DEF ThrStep, IInv, TypeOK, FlowTypeOK
  <2>2. CASE inFlight # None /\ HwSubmit(inFlight)
    <3>1. inFlight \in Jobs BY <2>2 DEF IInv, TypeOK, FlowTypeOK
    <3> QED BY <2>2, <3>1, HwSubmitType DEF ThrStep, IInv, TypeOK, FlowTypeOK
  <2> QED BY <2>1, <2>2 DEF ThrStep
<1>5. RunnerOK' BY DEF IInv, RunnerOK, ThrStep
<1>6. ArmedOK' BY DEF IInv, ArmedOK, ThrStep
<1>7. CreditOK' BY DEF IInv, CreditOK, ThrStep
<1>8. SchedOK' BY DEF IInv, SchedOK, ThrStep
<1>9. UnfinishedOK' BY DEF IInv, UnfinishedOK, ThrStep
<1>10. SeqOK' BY DEF IInv, SeqOK, ThrStep
<1>11. FlightOK' BY DEF IInv, FlightOK, ThrStep
<1>12. PmOK'
  BY DEF IInv, PmOK, PmNeverShort, PmBalanced, PoweredInUse, PmHolders,
    RunnerHolds, ThrStep
<1> QED
  BY <1>1, <1>2, <1>3, <1>4, <1>5, <1>6, <1>7, <1>8, <1>9, <1>10, <1>11, <1>12
    DEF IInv, TypeOK

(* The done fence is signalled, after the job left the core.                *)
LEMMA ThrSignalStep ==
  ASSUME IInv, ThrSignal
  PROVE  IInv'
<1>1. HwTypeOK' BY DEF IInv, TypeOK, HwTypeOK, ThrSignal
<1>2. SchedTypeOK'
  <2>1. CASE inFlight \in armed
    <3>1. creditCount - 1 \in Nat
      BY <2>1 DEF IInv, TypeOK, SchedTypeOK, CreditOK
    <3> QED BY <2>1, <3>1 DEF ThrSignal, JobDone, IInv, TypeOK, SchedTypeOK
  <2>2. CASE inFlight \notin armed
    BY <2>2 DEF ThrSignal, IInv, TypeOK, SchedTypeOK
  <2> QED BY <2>1, <2>2
<1>3. PmTypeOK' BY DEF IInv, TypeOK, PmTypeOK, ThrSignal
<1>4. FlowTypeOK' BY DEF IInv, TypeOK, FlowTypeOK, FlightOK, ThrSignal
<1>5. RunnerOK' BY DEF IInv, RunnerOK, ThrSignal, JobDone
<1>6. ArmedOK' BY DEF IInv, ArmedOK, ThrSignal, JobDone
<1>7. CreditOK' BY DEF IInv, ArmedOK, CreditOK, ThrSignal, JobDone
<1>8. SchedOK'
  BY DEF IInv, TypeOK, SchedTypeOK, SchedOK, FlightOK, ThrSignal, JobDone
<1>9. UnfinishedOK'
  BY DEF IInv, TypeOK, SchedTypeOK, UnfinishedOK, ThrSignal, JobDone
<1>10. SeqOK' BY DEF IInv, TypeOK, SchedTypeOK, SeqOK, ThrSignal, JobDone
<1>11. FlightOK' BY DEF IInv, FlightOK, ThrSignal, JobDone
<1>12. PmOK'
  BY DEF IInv, PmOK, PmNeverShort, PmBalanced, PoweredInUse, PmHolders,
    RunnerHolds, ThrSignal
<1> QED
  BY <1>1, <1>2, <1>3, <1>4, <1>5, <1>6, <1>7, <1>8, <1>9, <1>10, <1>11, <1>12
    DEF IInv, TypeOK

(* The thread gives the PM reference of the job back.                       *)
LEMMA ThrReleaseStep ==
  ASSUME IInv, ThrRelease
  PROVE  IInv'
<1>1. HwTypeOK' BY DEF IInv, TypeOK, HwTypeOK, ThrRelease, Put
<1>2. SchedTypeOK' BY DEF IInv, TypeOK, SchedTypeOK, ThrRelease, Put
<1>3. PmTypeOK'
  <2>1. usage > 0
    BY DEF ThrRelease, FlightOK, IInv, TypeOK, PmTypeOK, PmOK, PmNeverShort,
      PmHolders, RunnerHolds
  <2> QED BY <2>1, PmOperations DEF ThrRelease, IInv, TypeOK
<1>4. FlowTypeOK' BY DEF IInv, TypeOK, FlowTypeOK, ThrRelease, Put
<1>5. RunnerOK' BY DEF IInv, RunnerOK, Starting, ThrRelease, Put
<1>6. ArmedOK' BY DEF IInv, ArmedOK, ThrRelease, Put
<1>7. CreditOK' BY DEF IInv, CreditOK, ThrRelease, Put
<1>8. SchedOK' BY DEF IInv, SchedOK, ThrRelease, Put
<1>9. UnfinishedOK' BY DEF IInv, UnfinishedOK, ThrRelease, Put
<1>10. SeqOK' BY DEF IInv, SeqOK, ThrRelease, Put
<1>11. FlightOK' BY DEF IInv, FlightOK, ThrRelease, Put
<1>12. PmOK'
  BY DEF IInv, TypeOK, PmTypeOK, FlightOK, PmOK, PmNeverShort, PmBalanced,
    PoweredInUse, PmHolders, RunnerHolds, ThrRelease, Put
<1> QED
  BY <1>1, <1>2, <1>3, <1>4, <1>5, <1>6, <1>7, <1>8, <1>9, <1>10, <1>11, <1>12
    DEF IInv, TypeOK

(* The timeout handler takes the oldest pending job off the list.           *)
LEMMA TdrPickStep ==
  ASSUME IInv, NEW j \in Jobs, TdrPick(j)
  PROVE  IInv'
<1>1. HwTypeOK' BY DEF IInv, TypeOK, HwTypeOK, TdrPick, TakeOldest
<1>2. SchedTypeOK'
  BY DEF IInv, TypeOK, SchedTypeOK, Places, TdrPick, TakeOldest
<1>3. PmTypeOK' BY DEF IInv, TypeOK, PmTypeOK, TdrPick, TakeOldest
<1>4. FlowTypeOK' BY DEF IInv, TypeOK, FlowTypeOK, TdrPick, TakeOldest
<1>5. RunnerOK' BY DEF IInv, RunnerOK, TdrPick, TakeOldest, Oldest, Pending
<1>6. ArmedOK' BY DEF IInv, ArmedOK, TdrPick, TakeOldest, Oldest, Pending
<1>7. CreditOK' BY DEF IInv, CreditOK, TdrPick, TakeOldest, Oldest, Pending
<1>8. SchedOK' BY DEF IInv, SchedOK, TdrPick, TakeOldest, Oldest, Pending
<1>9. UnfinishedOK'
  BY DEF IInv, SchedOK, UnfinishedOK, TdrPick, TakeOldest, Oldest, Pending
<1>10. SeqOK' BY DEF IInv, SeqOK, TdrPick, TakeOldest, Oldest, Pending
<1>11. FlightOK' BY DEF IInv, FlightOK, TdrPick, TakeOldest, Oldest, Pending
<1>12. PmOK'
  BY DEF IInv, PmOK, PmNeverShort, PmBalanced, PoweredInUse, PmHolders,
    RunnerHolds, TdrPick, TakeOldest
<1> QED
  BY <1>1, <1>2, <1>3, <1>4, <1>5, <1>6, <1>7, <1>8, <1>9, <1>10, <1>11, <1>12
    DEF IInv, TypeOK

(* drm_sched_stop() parks the worker and unhooks the callbacks.             *)
LEMMA TdrStopStep ==
  ASSUME IInv, TdrStop
  PROVE  IInv'
<1>1. HwTypeOK' BY DEF IInv, TypeOK, HwTypeOK, TdrStop, Stop
<1>2. SchedTypeOK'
  BY DEF IInv, TypeOK, SchedTypeOK, Places, CreditOK, TdrStop, Stop
<1>3. PmTypeOK' BY DEF IInv, TypeOK, PmTypeOK, TdrStop, Stop
<1>4. FlowTypeOK' BY DEF IInv, TypeOK, FlowTypeOK, TdrStop, Stop
<1>5. RunnerOK' BY DEF IInv, RunnerOK, TdrStop, Stop
<1>6. ArmedOK' BY DEF IInv, ArmedOK, TdrStop, Stop
<1>7. CreditOK' BY DEF IInv, CreditOK, TdrStop, Stop
<1>8. SchedOK' BY DEF IInv, SchedOK, UnfinishedOK, TdrStop, Stop
<1>9. UnfinishedOK' BY DEF IInv, ArmedOK, SchedOK, UnfinishedOK, TdrStop, Stop
<1>10. SeqOK' BY DEF IInv, SeqOK, TdrStop, Stop
<1>11. FlightOK'
  BY DEF IInv, TypeOK, FlowTypeOK, ArmedOK, FlightOK, TdrStop, Stop
<1>12. PmOK'
  BY DEF IInv, PmOK, PmNeverShort, PmBalanced, PoweredInUse, PmHolders,
    RunnerHolds, TdrStop, Stop
<1> QED
  BY <1>1, <1>2, <1>3, <1>4, <1>5, <1>6, <1>7, <1>8, <1>9, <1>10, <1>11, <1>12
    DEF IInv, TypeOK

(* The handler takes the current job away and puts its reference.           *)
LEMMA TdrClearStep ==
  ASSUME IInv, TdrClear
  PROVE  IInv'
<1>1. HwTypeOK'
  BY DEF IInv, TypeOK, HwTypeOK, TdrClear, JobLockFree, PutNoidle
<1>2. SchedTypeOK'
  BY DEF IInv, TypeOK, SchedTypeOK, TdrClear, JobLockFree, PutNoidle
<1>3. PmTypeOK'
  <2>1. CASE inFlight = None
    BY <2>1 DEF TdrClear, IInv, TypeOK, PmTypeOK
  <2>2. CASE inFlight # None
    <3>1. usage > 0
      BY <2>2 DEF IInv, TypeOK, PmTypeOK, PmOK, PmNeverShort, PmHolders,
        RunnerHolds
    <3> QED BY <2>2, <3>1, PmOperations DEF TdrClear, IInv, TypeOK
  <2> QED BY <2>1, <2>2
<1>4. FlowTypeOK'
  BY DEF IInv, TypeOK, FlowTypeOK, TdrClear, JobLockFree, PutNoidle
<1>5. RunnerOK'
  BY DEF IInv, RunnerOK, Starting, TdrClear, JobLockFree, PutNoidle
<1>6. ArmedOK' BY DEF IInv, ArmedOK, TdrClear, JobLockFree, PutNoidle
<1>7. CreditOK' BY DEF IInv, CreditOK, TdrClear, JobLockFree, PutNoidle
<1>8. SchedOK' BY DEF IInv, SchedOK, TdrClear, JobLockFree, PutNoidle
<1>9. UnfinishedOK'
  BY DEF IInv, UnfinishedOK, TdrClear, JobLockFree, PutNoidle
<1>10. SeqOK' BY DEF IInv, SeqOK, TdrClear, JobLockFree, PutNoidle
<1>11. FlightOK' BY DEF IInv, FlightOK, TdrClear, JobLockFree, PutNoidle
<1>12. PmOK'
  BY DEF IInv, TypeOK, PmTypeOK, PmOK, PmNeverShort, PmBalanced, PoweredInUse,
    PmHolders, RunnerHolds, TdrClear, JobLockFree, PutNoidle
<1> QED
  BY <1>1, <1>2, <1>3, <1>4, <1>5, <1>6, <1>7, <1>8, <1>9, <1>10, <1>11, <1>12
    DEF IInv, TypeOK

(* The core is reset and what it held is wiped.                             *)
LEMMA TdrResetStep ==
  ASSUME IInv, TdrReset
  PROVE  IInv'
<1>1. HwTypeOK' BY DEF IInv, TypeOK, HwTypeOK, TdrReset, ResetRearm, Wipe
<1>2. SchedTypeOK' BY DEF IInv, TypeOK, SchedTypeOK, TdrReset, ResetRearm
<1>3. PmTypeOK' BY DEF IInv, TypeOK, PmTypeOK, TdrReset, ResetRearm
<1>4. FlowTypeOK' BY DEF IInv, TypeOK, FlowTypeOK, TdrReset, ResetRearm
<1>5. RunnerOK' BY DEF IInv, RunnerOK, TdrReset, ResetRearm, Wipe
<1>6. ArmedOK' BY DEF IInv, ArmedOK, TdrReset, ResetRearm, Wipe
<1>7. CreditOK' BY DEF IInv, CreditOK, TdrReset, ResetRearm, Wipe
<1>8. SchedOK' BY DEF IInv, SchedOK, TdrReset, ResetRearm, Wipe
<1>9. UnfinishedOK' BY DEF IInv, UnfinishedOK, TdrReset, ResetRearm, Wipe
<1>10. SeqOK' BY DEF IInv, SeqOK, TdrReset, ResetRearm, Wipe
<1>11. FlightOK' BY DEF IInv, FlightOK, TdrReset, ResetRearm, Wipe
<1>12. PmOK'
  BY DEF IInv, PmOK, PmNeverShort, PmBalanced, PoweredInUse, PmHolders,
    RunnerHolds, TdrReset, ResetRearm
<1> QED
  BY <1>1, <1>2, <1>3, <1>4, <1>5, <1>6, <1>7, <1>8, <1>9, <1>10, <1>11, <1>12
    DEF IInv, TypeOK

(* drm_sched_start() hooks the callbacks again and restarts the worker.     *)
LEMMA TdrStartStep ==
  ASSUME IInv, TdrStart
  PROVE  IInv'
<1>1. HwTypeOK' BY DEF IInv, TypeOK, HwTypeOK, TdrStart, Restart
<1>2. SchedTypeOK' BY DEF IInv, TypeOK, SchedTypeOK, Places, TdrStart, Restart
<1>3. PmTypeOK' BY DEF IInv, TypeOK, PmTypeOK, TdrStart, Restart
<1>4. FlowTypeOK' BY DEF IInv, TypeOK, FlowTypeOK, TdrStart, Restart
<1>5. RunnerOK' BY DEF IInv, RunnerOK, SchedOK, TdrStart, Restart
<1>6. ArmedOK' BY DEF IInv, ArmedOK, SchedOK, TdrStart, Restart
<1>7. CreditOK' BY DEF IInv, CreditOK, TdrStart, Restart
<1>8. SchedOK'
  <2>1. bad \in Jobs BY DEF TdrStart, IInv, SchedOK
  <2>2. ASSUME NEW j \in Jobs
        PROVE  IF sched'[j] \in {"new", "queued"}
                 THEN finished'[j] = "no" /\ j \notin doneFence' /\ seqno'[j] = 0
                 ELSE seqno'[j] > 0
    BY <2>1 DEF TdrStart, Restart, IInv, TypeOK, SchedOK, SchedTypeOK
  <2>3. \A j \in Jobs : sched'[j] # "timedout"
    BY <2>1 DEF TdrStart, Restart, IInv, TypeOK, SchedOK, SchedTypeOK
  <2>4. ASSUME NEW j \in Jobs, sched'[j] = "freed" PROVE finished'[j] # "no"
    BY <2>1, <2>4 DEF TdrStart, Restart, IInv, TypeOK, SchedOK, SchedTypeOK,
      UnfinishedOK, RunnerOK, ArmedOK
  <2>5. tdrPc' = "idle" /\ ~stopped' BY DEF TdrStart, Restart
  <2> QED BY <2>2, <2>3, <2>4, <2>5 DEF SchedOK
<1>9. UnfinishedOK' BY DEF IInv, UnfinishedOK, TdrStart, Restart
<1>10. SeqOK' BY DEF IInv, SeqOK, TdrStart, Restart
<1>11. FlightOK' BY DEF IInv, FlightOK, TdrStart, Restart
<1>12. PmOK'
  BY DEF IInv, PmOK, PmNeverShort, PmBalanced, PoweredInUse, PmHolders,
    RunnerHolds, TdrStart, Restart
<1> QED
  BY <1>1, <1>2, <1>3, <1>4, <1>5, <1>6, <1>7, <1>8, <1>9, <1>10, <1>11, <1>12
    DEF IInv, TypeOK

(* Runtime suspend: only a core without references and jobs powers off.     *)
LEMMA SuspendStep ==
  ASSUME IInv, Suspend
  PROVE  IInv'
<1>1. HwTypeOK' BY DEF IInv, TypeOK, HwTypeOK, Suspend, PowerOff, Wipe
<1>2. SchedTypeOK' BY DEF IInv, TypeOK, SchedTypeOK, Suspend, PowerOff
<1>3. PmTypeOK'
  BY PmOperations DEF Suspend, IInv, TypeOK
<1>4. FlowTypeOK' BY DEF IInv, TypeOK, FlowTypeOK, Suspend, PowerOff
<1>5. RunnerOK' BY DEF IInv, RunnerOK, Suspend, PowerOff, Wipe
<1>6. ArmedOK' BY DEF IInv, ArmedOK, Suspend, PowerOff, Wipe
<1>7. CreditOK' BY DEF IInv, CreditOK, Suspend, PowerOff, Wipe
<1>8. SchedOK' BY DEF IInv, SchedOK, Suspend, PowerOff, Wipe
<1>9. UnfinishedOK' BY DEF IInv, UnfinishedOK, Suspend, PowerOff, Wipe
<1>10. SeqOK' BY DEF IInv, SeqOK, Suspend, PowerOff, Wipe
<1>11. FlightOK' BY DEF IInv, FlightOK, Suspend, PowerOff, Wipe
<1>12. PmOK'
  BY DEF IInv, PmOK, PmNeverShort, PmBalanced, PoweredInUse, PmHolders,
    RunnerHolds, Suspend, PowerOff
<1> QED
  BY <1>1, <1>2, <1>3, <1>4, <1>5, <1>6, <1>7, <1>8, <1>9, <1>10, <1>11, <1>12
    DEF IInv, TypeOK

(* The core moves on its own: it finishes a task or reports one.            *)
LEMMA HardwareStepStep ==
  ASSUME IInv, HardwareStep
  PROVE  IInv'
<1>1. HwTypeOK'
  <2>1. CASE TaskEnds
    <3>1. ran' \in [Jobs -> Nat] BY <2>1 DEF TaskEnds, IInv, TypeOK, HwTypeOK
    <3>2. raw' \subseteq Bits BY <2>1 DEF TaskEnds, IInv, TypeOK, HwTypeOK, Bits
    <3>3. executer' \in {0, 1} BY <2>1 DEF TaskEnds, IInv, TypeOK, HwTypeOK
    <3>4. hw' \in Jobs \cup {None} /\ hwTask' \in Nat
      BY <2>1 DEF TaskEnds, IInv, TypeOK, HwTypeOK
    <3> QED BY <2>1, <3>1, <3>2, <3>3, <3>4 DEF TaskEnds, IInv, TypeOK, HwTypeOK
  <2>2. CASE \E b \in Bits : UnitReports(b)
    BY <2>2 DEF UnitReports, IInv, TypeOK, HwTypeOK
  <2> QED BY <2>1, <2>2 DEF HardwareStep, Hardware
<1>2. SchedTypeOK' BY DEF IInv, TypeOK, SchedTypeOK, HardwareStep
<1>3. PmTypeOK' BY DEF IInv, TypeOK, PmTypeOK, HardwareStep
<1>4. FlowTypeOK' BY DEF IInv, TypeOK, FlowTypeOK, HardwareStep
<1>5. RunnerOK' BY DEF IInv, RunnerOK, HardwareStep, Hardware, UnitReports
<1>6. ArmedOK' BY DEF IInv, ArmedOK, HardwareStep, Hardware, UnitReports
<1>7. CreditOK' BY DEF IInv, CreditOK, HardwareStep, Hardware, UnitReports
<1>8. SchedOK' BY DEF IInv, SchedOK, HardwareStep, Hardware, UnitReports
<1>9. UnfinishedOK'
  BY DEF IInv, UnfinishedOK, HardwareStep, Hardware, UnitReports
<1>10. SeqOK' BY DEF IInv, SeqOK, HardwareStep, Hardware, UnitReports
<1>11. FlightOK' BY DEF IInv, FlightOK, HardwareStep, Hardware, UnitReports
<1>12. PmOK'
  BY DEF IInv, PmOK, PmNeverShort, PmBalanced, PoweredInUse, PmHolders,
    RunnerHolds, HardwareStep
<1> QED
  BY <1>1, <1>2, <1>3, <1>4, <1>5, <1>6, <1>7, <1>8, <1>9, <1>10, <1>11, <1>12
    DEF IInv, TypeOK

-----------------------------------------------------------------------------
(* A step that changes nothing.                                             *)
LEMMA StutterStep ==
  ASSUME IInv, UNCHANGED vars
  PROVE  IInv'
<1>1. TypeOK'
  BY DEF IInv, TypeOK, HwTypeOK, SchedTypeOK, PmTypeOK, FlowTypeOK, vars
<1>2. RunnerOK' /\ ArmedOK' /\ CreditOK'
  BY DEF IInv, RunnerOK, ArmedOK, CreditOK, vars
<1>3. SchedOK' /\ UnfinishedOK' /\ SeqOK' /\ FlightOK'
  BY DEF IInv, SchedOK, UnfinishedOK, SeqOK, FlightOK, vars
<1>4. PmOK'
  BY DEF IInv, PmOK, PmNeverShort, PmBalanced, PoweredInUse, PmHolders,
    RunnerHolds, vars
<1> QED BY <1>1, <1>2, <1>3, <1>4 DEF IInv

(* rocket_core_init() leaves a core on which nothing is owed to anyone.     *)
LEMMA InitIInv == ASSUME Init PROVE IInv
<1>1. TypeOK
  <2>1. HwTypeOK BY DEF Init, HwInit, HwTypeOK
  <2>2. SchedTypeOK BY DEF Init, SchedInit, SchedTypeOK, Places
  <2>3. PmTypeOK BY DEF Init, PmInit, PmTypeOK
  <2>4. FlowTypeOK BY DEF Init, FlowTypeOK
  <2> QED BY <2>1, <2>2, <2>3, <2>4 DEF TypeOK
<1>2. RunnerOK /\ ArmedOK /\ CreditOK
  BY DEF Init, SchedInit, RunnerOK, ArmedOK, CreditOK, Starting
<1>3. SchedOK /\ UnfinishedOK /\ SeqOK
  BY DEF Init, SchedInit, SchedOK, UnfinishedOK, SeqOK
<1>4. FlightOK
  BY DEF Init, FlightOK
<1>5. PmOK
  BY DEF Init, PmInit, PmOK, PmNeverShort, PmBalanced, PoweredInUse,
    PmHolders, RunnerHolds
<1> QED BY <1>1, <1>2, <1>3, <1>4, <1>5 DEF IInv

(* The invariant is preserved, action by action.                            *)
LEMMA NextIInv == ASSUME IInv, [Next]_vars PROVE IInv'
<1>1. CASE \E j \in Jobs : Submit(j)
  BY <1>1, SubmitStep
<1>2. CASE RunWorker
  BY <1>2, RunJobStep, RunNoFenceStep, RunResumeStep, RunAttachStep,
    RunSubmitStep,
     RunReturnStep DEF RunWorker
<1>3. CASE FreeWorker
  BY <1>3, FreeJobStep DEF FreeWorker
<1>4. CASE HardIrq
  BY <1>4, IrqEnterStep, IrqActStep DEF HardIrq
<1>5. CASE IrqThread
  BY <1>5, ThrStartStep, ThrCheckStep, ThrAckStep, ThrQuiesceStep, ThrStepStep,
     ThrSignalStep, ThrReleaseStep DEF IrqThread
<1>6. CASE TimeoutWork
  BY <1>6, TdrPickStep, TdrStopStep, TdrClearStep, TdrResetStep, TdrStartStep
  DEF TimeoutWork
<1>7. CASE Suspend
  BY <1>7, SuspendStep
<1>8. CASE HardwareStep
  BY <1>8, HardwareStepStep
<1>9. CASE UNCHANGED vars
  BY <1>9, StutterStep
<1> QED BY <1>1, <1>2, <1>3, <1>4, <1>5, <1>6, <1>7, <1>8, <1>9 DEF Next

(* In every behaviour of the driver, for any set of jobs and any faults,    *)
(* the ownership of credit, current job and PM references is as IInv says.  *)
THEOREM Invariant == Spec => []IInv
<1>1. Init => IInv BY InitIInv
<1>2. IInv /\ [Next]_vars => IInv' BY NextIInv
<1> QED BY <1>1, <1>2, PTL DEF Spec

(* No counter goes below zero and no variable leaves its domain: no PM      *)
(* reference is put twice, no credit given back twice.                      *)
THEOREM TypeCorrect == Spec => []TypeOK
<1>1. IInv => TypeOK BY DEF IInv
<1> QED BY <1>1, Invariant, PTL

(* The runtime-PM usage counter covers the job in flight and every handler  *)
(* that is using the registers, under every fault.                          *)
THEOREM NeverShort == Spec => []PmNeverShort
<1>1. IInv => PmNeverShort BY DEF IInv, PmOK
<1> QED BY <1>1, Invariant, PTL

(* Without failing resumes and attaches the counter is exact: completions   *)
(* and timeout resets, in whatever order they race, leak nothing.           *)
THEOREM Balanced == Spec => []PmBalanced
<1>1. IInv => PmBalanced BY DEF IInv, PmOK
<1> QED BY <1>1, Invariant, PTL

(* The NPU is powered whenever a job is in flight or registers are in use   *)
(* by a flow that took a reference.                                         *)
THEOREM Powered == Spec => []PoweredInUse
<1>1. IInv => PoweredInUse BY DEF IInv, PmOK
<1> QED BY <1>1, Invariant, PTL

(* The scheduler's one credit is out exactly while a job is with the core.  *)
THEOREM Credits == Spec => []CreditsMatch
<1>1. IInv => CreditsMatch
  <2> SUFFICES ASSUME IInv PROVE CreditsMatch OBVIOUS
  <2>1. creditCount = One(runPc # "idle") + One(armed # {})
    BY DEF IInv, CreditOK
  <2>2. runPc # "idle" => armed = {}
    BY DEF IInv, RunnerOK
  <2>3. creditCount <= 1
    BY <2>1, <2>2
  <2>4. \A j, k \in armed : j = k
    BY DEF IInv, ArmedOK
  <2> QED BY <2>1, <2>3, <2>4 DEF CreditsMatch
<1> QED BY <1>1, Invariant, PTL

(* Whoever finds a current job under job_lock may dereference it.           *)
THEOREM CurrentIsAlive == Spec => []InFlightAlive
<1>1. IInv => InFlightAlive
  <2> SUFFICES ASSUME IInv, inFlight # None, thrPc # "release"
               PROVE  sched[inFlight] \in {"pending", "timedout"}
    BY DEF InFlightAlive
  <2>1. CASE inFlight \in armed
    BY <2>1 DEF IInv, ArmedOK
  <2>2. CASE runPc = "return" /\ runJob = inFlight
    BY <2>2 DEF IInv, RunnerOK
  <2>3. CASE tdrPc = "clear" /\ sched[inFlight] = "pending"
    BY <2>3
  <2> QED BY <2>1, <2>2, <2>3 DEF IInv, FlightOK
<1> QED BY <1>1, Invariant, PTL

(* A younger job's fence never overtakes that of an older one.              *)
THEOREM InOrder == Spec => []SignalInOrder
<1>1. IInv => SignalInOrder
  BY DEF IInv, TypeOK, FlowTypeOK, SeqOK, SignalInOrder
<1> QED BY <1>1, Invariant, PTL

(* A job never becomes current while another one is: by the time the worker *)
(* has job_lock the job before it is completed or taken away by a reset.    *)
THEOREM NotOverwritten == Spec => InFlightNotOverwritten
<1> DEFINE Kept == inFlight # None /\ inFlight' # None => inFlight' = inFlight
<1>1. ASSUME IInv, RunSubmit PROVE inFlight = None
  <2>1. runPc = "submit" /\ thrPc # "release"
    BY <1>1 DEF RunSubmit, JobLockFree
  <2>2. armed = {} /\ ~stopped
    BY <1>1, <2>1 DEF IInv, RunnerOK
  <2>3. tdrPc # "clear"
    BY <1>1, <2>2 DEF IInv, SchedOK
  <2> QED BY <1>1, <2>1, <2>2, <2>3 DEF IInv, FlightOK
<1>2. IInv /\ [Next]_vars => Kept
  <2> SUFFICES ASSUME IInv, [Next]_vars PROVE Kept OBVIOUS
  <2>1. CASE RunSubmit BY <2>1, <1>1
  <2>2. CASE ThrRelease \/ TdrClear BY <2>2 DEF ThrRelease, TdrClear
  <2>3. CASE FreeWorker \/ HardIrq \/ Suspend \/ HardwareStep \/ UNCHANGED vars
    BY <2>3 DEF FreeWorker, FreeJob, HardIrq, IrqEnter, IrqAct, Suspend,
      HardwareStep, vars
  <2>4. CASE \E j \in Jobs : Submit(j) \/ RunJob(j)
    BY <2>4 DEF Submit, RunJob
  <2>5. CASE RunNoFence \/ RunResume \/ RunAttach \/ RunReturn
    BY <2>5 DEF RunNoFence, RunResume, RunAttach, RunReturn
  <2>6. CASE ThrStart \/ ThrCheck \/ ThrAck \/ ThrQuiesce \/ ThrStep \/ ThrSignal
    BY <2>6 DEF ThrStart, ThrCheck, ThrAck, ThrQuiesce, ThrStep, ThrSignal
  <2>7. CASE (\E j \in Jobs : TdrPick(j)) \/ TdrStop \/ TdrReset \/ TdrStart
    BY <2>7 DEF TdrPick, TdrStop, TdrReset, TdrStart
  <2> QED BY <2>1, <2>2, <2>3, <2>4, <2>5, <2>6, <2>7
    DEF Next, RunWorker, IrqThread, TimeoutWork
<1> QED BY <1>2, Invariant, PTL DEF InFlightNotOverwritten, Spec
=============================================================================

----------------------------- MODULE RocketJob ------------------------------
(****************************************************************************)
(* Execution of jobs on one NPU core: module/rocket_job.c with the parts of *)
(* rocket_core.c and rocket_drv.c it calls.  Five flows of control meet:    *)
(*   the run worker     rocket_job_run()                                    *)
(*   the hard interrupt rocket_job_irq_handler()                            *)
(*   the irq thread     rocket_job_irq_handler_thread()                     *)
(*   the timeout work   rocket_job_timedout() and rocket_reset()            *)
(*   the PM workqueue   rocket_device_runtime_suspend()                     *)
(* beside the scheduler's free worker and the hardware itself.  A step is   *)
(* what happens between two points where another flow can come in; a        *)
(* critical section of core->job_lock that no other flow can observe        *)
(* half-way is one step.                                                    *)
(****************************************************************************)
EXTENDS NpuHw, DrmSched, RocketPm

VARIABLES
  runPc, runJob,        \* the run worker, and the job it is running
  irqPc, irqRaw,        \* the hard handler, and its raw_status
  thrPc, thrWake,       \* the irq thread, and whether it has been woken
  thrSt,                \* the thread's st
  tdrPc, bad,           \* the timeout work, and the job that timed out
  inFlight,             \* core->in_flight_job
  nextTask,             \* [Jobs -> job->next_task_idx]
  doneFence,            \* jobs whose done_fence has been signalled
  resetPending,         \* core->reset.pending
  lutValid, lutCache,   \* core->lut_valid, core->lut_cache
  attached              \* core->attached_domain

pcVars   == <<runPc, runJob, irqPc, irqRaw, thrPc, thrWake, thrSt, tdrPc, bad>>
runVars  == <<runPc, runJob>>
irqVars  == <<irqPc, irqRaw>>
thrVars  == <<thrPc, thrWake, thrSt>>
tdrVars  == <<tdrPc, bad>>
lutVars  == <<lutValid, lutCache>>

vars == <<hwVars, schedVars, pmVars, pcVars, inFlight, nextTask, doneFence,
          resetPending, lutVars, attached>>

(* Definitions marked "Mutant" are mistaken variants of the one that follows *)
(* them; no specification uses them, the mutation runs put them in its place *)
(* to see the named property fail.                                           *)

(* Mutant: job_lock is not taken.                                          *)
NoJobLock == TRUE

(***************************************************************************)
(* core->job_lock.  Only the irq thread keeps it across steps: from its    *)
(* reading of the raw status of a chained job to the acknowledgement, and  *)
(* from the decision to complete a job to the reset of in_flight_job.      *)
(***************************************************************************)
JobLockFree == thrPc \notin {"ack", "signal", "release"}

FlowTypeOK ==
  /\ runPc \in {"idle", "resume", "attach", "submit", "return", "nofence"}
  /\ runJob \in Jobs \cup {None}
  /\ irqPc \in {"idle", "act"}
  /\ irqRaw \subseteq Bits
  /\ thrPc \in {"idle", "check", "ack", "quiesce", "step", "signal", "release"}
  /\ thrWake \in BOOLEAN
  /\ thrSt \subseteq Bits
  /\ tdrPc \in {"idle", "stop", "clear", "reset", "start"}
  /\ bad \in Jobs \cup {None}
  /\ inFlight \in Jobs \cup {None}
  /\ nextTask \in [Jobs -> Nat]
  /\ doneFence \subseteq Jobs
  /\ resetPending \in BOOLEAN
  /\ lutValid \in BOOLEAN

(* No PM reference is put that was not taken and no credit given back twice: *)
(* both counters stay natural numbers (job.c:541, 558, 578, 724-741).        *)
TypeOK == HwTypeOK /\ SchedTypeOK /\ PmTypeOK /\ FlowTypeOK

(* rocket_core_init() has run: the core is reset, powered, and its last    *)
(* reference put.                                                          *)
Init ==
  /\ HwInit /\ SchedInit /\ PmInit
  /\ runPc = "idle" /\ runJob = None
  /\ irqPc = "idle" /\ irqRaw = {}
  /\ thrPc = "idle" /\ thrWake = FALSE /\ thrSt = {}
  /\ tdrPc = "idle" /\ bad = None
  /\ inFlight = None
  /\ nextTask = [j \in Jobs |-> 0]
  /\ doneFence = {}
  /\ resetPending = FALSE
  /\ lutValid = FALSE /\ lutCache = None
  /\ attached = None

-----------------------------------------------------------------------------
(***************************************************************************)
(* rocket_job_hw_submit(), called under job_lock.  Nothing is queued while *)
(* a reset is in progress.                                                 *)
(***************************************************************************)

(* The lookup tables are loaded only if the job has some and they are not  *)
(* known to be in the unit already.                                        *)
LutLoadUnlessValid(j) == LutOf[j] # None /\ ~lutValid \* Mutant: no comparison
LutLoad(j) == LutOf[j] # None /\ (~lutValid \/ lutCache # LutOf[j])

(* The PC unit walks the whole chain: one start, from the first task.      *)
SubmitChain(j) ==
  /\ nextTask' = [nextTask EXCEPT ![j] = 0]
  /\ lutValid' = IF LutLoad(j) THEN TRUE ELSE lutValid
  /\ lutCache' = IF LutLoad(j) THEN LutOf[j] ELSE lutCache
  /\ hwLut'    = IF LutLoad(j) THEN LutOf[j] ELSE hwLut
  /\ Start(j, 1, ChainMask)
  /\ UNCHANGED <<executer, mmu, autoGating, ran>>

(* The last task ended on the other bank: this one would wait for ever.    *)
NeverStalled == FALSE \* Mutant: no reset before a single task
Stalled == executer = 1

(***************************************************************************)
(* One task is started.  If the executer was left on the other bank the    *)
(* core is reset first and its MMU re-armed: the DTE survives, the tables  *)
(* and the MMU's AUTO_GATING bit do not.                                   *)
(***************************************************************************)
SubmitTask(j) ==
  /\ nextTask' = [nextTask EXCEPT ![j] = @ + 1]
  /\ IF Stalled
       THEN /\ lutValid' = FALSE
            /\ hwLut' = None
            /\ autoGating' = FALSE
            /\ executer' = 0
       ELSE UNCHANGED <<lutValid, hwLut, autoGating, executer>>
  /\ Start(j, nextTask[j] + 1, Bits)
  /\ UNCHANGED <<lutCache, mmu, ran>>

HwSubmit(j) ==
  \/ resetPending /\ UNCHANGED <<hwVars, nextTask, lutVars>>
  \/ ~resetPending /\ Chained(j) /\ SubmitChain(j)
  \/ ~resetPending /\ ~Chained(j) /\ SubmitTask(j)

(* Mutant: the MMU is not re-armed.                                        *)
BareReset ==
  /\ Wipe
  /\ mmu' = None
  /\ lutValid' = FALSE
  /\ UNCHANGED lutCache

(* Mutant: the tables are believed to survive the reset.                   *)
ResetKeepsLut ==
  /\ Wipe
  /\ UNCHANGED <<mmu, lutVars>>

(* rocket_core_reset_rearm() and the rocket_core_reset() in it.            *)
ResetRearm ==
  /\ Wipe
  /\ UNCHANGED mmu
  /\ lutValid' = FALSE
  /\ UNCHANGED lutCache

-----------------------------------------------------------------------------
(* rocket_ioctl_submit_job() has pushed a job and its dependencies are met. *)
Submit(j) ==
  /\ Push(j)
  /\ UNCHANGED <<hwVars, pmVars, pcVars, inFlight, nextTask, doneFence,
                 resetPending, lutVars, attached>>

(***************************************************************************)
(* rocket_job_run().  Its two early returns cannot be taken: no job gets a *)
(* finished error before it runs, and none is run twice.                   *)
(***************************************************************************)
RunJob(j) ==
  /\ runPc = "idle"
  /\ Begin(j)
  /\ runJob' = j
  /\ runPc' \in {"resume"} \cup (IF "alloc" \in Faults THEN {"nofence"} ELSE {})
  /\ UNCHANGED <<hwVars, pmVars, irqVars, thrVars, tdrVars, inFlight, nextTask,
                 doneFence, resetPending, lutVars, attached>>

(* rocket_fence_create() failed: the scheduler finishes the job itself.    *)
RunNoFence ==
  /\ runPc = "nofence"
  /\ JobDone(runJob, "failed")
  /\ runPc' = "idle" /\ runJob' = None
  /\ UNCHANGED <<hwVars, pmVars, irqVars, thrVars, tdrVars, inFlight, nextTask,
                 doneFence, resetPending, lutVars, attached>>

(* pm_runtime_get_sync(): a resume forgets the lookup tables, and rk_iommu *)
(* programs the DTE of the attached domain again.  A failure returns with  *)
(* the reference still held.                                               *)
RunResume ==
  /\ runPc = "resume"
  /\ \/ /\ GetSync
        /\ lutValid' = IF powered THEN lutValid ELSE FALSE
        /\ mmu' = IF powered THEN mmu ELSE attached
        /\ runPc' = "attach"
     \/ /\ "resume" \in Faults /\ ~powered
        /\ GetSyncFailed
        /\ runPc' = "return"
        /\ UNCHANGED <<lutValid, mmu>>
  /\ UNCHANGED <<hw, hwTask, raw, mask, executer, hwLut, autoGating, ran, starts,
                 schedVars, runJob, irqVars, thrVars, tdrVars, inFlight, nextTask,
                 doneFence, resetPending, lutCache, attached>>

AttachOnlyFirst(j) == attached = None \* Mutant: whatever is attached stays
NeedsAttach(j) == attached # DomainOf[j]

(* The job's domain is attached, unless it already is, and AUTO_GATING set. *)
RunAttach ==
  /\ runPc = "attach"
  /\ \/ /\ attached' = IF NeedsAttach(runJob) THEN DomainOf[runJob] ELSE attached
        /\ mmu' = IF NeedsAttach(runJob) THEN DomainOf[runJob] ELSE mmu
        /\ autoGating' = TRUE
        /\ runPc' = "submit"
     \/ /\ "attach" \in Faults /\ NeedsAttach(runJob)
        /\ attached' = None
        /\ mmu' = None
        /\ runPc' = "return"
        /\ UNCHANGED autoGating
  /\ UNCHANGED <<hw, hwTask, raw, mask, executer, hwLut, ran, starts, schedVars,
                 pmVars, runJob, irqVars, thrVars, tdrVars, inFlight, nextTask,
                 doneFence, resetPending, lutVars>>

(* The critical section that makes the job current and starts it.          *)
RunSubmit ==
  /\ runPc = "submit"
  /\ JobLockFree
  /\ inFlight' = runJob
  /\ HwSubmit(runJob)
  /\ runPc' = "return"
  /\ UNCHANGED <<schedVars, pmVars, runJob, irqVars, thrVars, tdrVars, doneFence,
                 resetPending, attached>>

RunReturn ==
  /\ runPc = "return"
  /\ Hook(runJob, runJob \in doneFence)
  /\ runPc' = "idle" /\ runJob' = None
  /\ UNCHANGED <<hwVars, pmVars, irqVars, thrVars, tdrVars, inFlight, nextTask,
                 doneFence, resetPending, lutVars, attached>>

(* drm_sched's free worker calls rocket_job_free(), which drops the last   *)
(* reference of the job.                                                   *)
FreeJob(j) ==
  /\ FreeOldest(j)
  /\ UNCHANGED <<hwVars, pmVars, pcVars, inFlight, nextTask, doneFence,
                 resetPending, lutVars, attached>>

-----------------------------------------------------------------------------
(* Mutant: no reference is taken for the time of the handler.              *)
IrqEnterNoGet ==
  /\ irqPc = "idle"
  /\ Line \/ "iommu_irq" \in Faults
  /\ InUse
  /\ irqRaw' = raw
  /\ irqPc' = "act"
  /\ UNCHANGED <<hwVars, schedVars, pmVars, runVars, thrVars, tdrVars, inFlight,
                 nextTask, doneFence, resetPending, lutVars, attached>>

(***************************************************************************)
(* rocket_job_irq_handler().  The line is shared with the NPU MMU, so the  *)
(* handler may run when the NPU did not raise it.                          *)
(***************************************************************************)
IrqEnter ==
  /\ irqPc = "idle"
  /\ Line \/ "iommu_irq" \in Faults
  /\ GetIfInUse
  /\ irqRaw' = raw
  /\ irqPc' = "act"
  /\ UNCHANGED <<hwVars, schedVars, runVars, thrVars, tdrVars, inFlight, nextTask,
                 doneFence, resetPending, lutVars, attached>>

(* Nothing raised: not ours.  Nothing that may complete a job: clear what  *)
(* was seen and go on.  Otherwise mask everything and wake the thread.     *)
IrqAct ==
  /\ irqPc = "act"
  /\ \/ /\ irqRaw = {}
        /\ UNCHANGED <<raw, mask, thrWake>>
     \/ /\ irqRaw # {} /\ irqRaw \cap WakeBits = {}
        /\ raw' = raw \ irqRaw
        /\ UNCHANGED <<mask, thrWake>>
     \/ /\ irqRaw \cap WakeBits # {}
        /\ mask' = {}
        /\ thrWake' = TRUE
        /\ UNCHANGED raw
  /\ Put
  /\ irqPc' = "idle" /\ irqRaw' = {}
  /\ UNCHANGED <<hw, hwTask, executer, hwLut, mmu, autoGating, ran, starts,
                 schedVars, runVars, thrPc, thrSt, tdrVars, inFlight, nextTask,
                 doneFence, resetPending, lutVars, attached>>

-----------------------------------------------------------------------------
(* The irq thread runs rocket_job_handle_irq() once per wake-up.           *)
ThrStart ==
  /\ thrPc = "idle" /\ thrWake
  /\ thrPc' = "check"
  /\ thrWake' = FALSE
  /\ UNCHANGED <<hwVars, schedVars, pmVars, runVars, irqVars, thrSt, tdrVars,
                 inFlight, nextTask, doneFence, resetPending, lutVars, attached>>

NeverChain == FALSE \* Mutant: every job is stepped task by task
CurrentIsChain == inFlight # None /\ Chained(inFlight)

(* First critical section: a chained job keeps the lock and reads the raw  *)
(* status; otherwise the lock is dropped.                                  *)
ThrCheck ==
  /\ thrPc = "check"
  /\ IF CurrentIsChain
       THEN thrPc' = "ack" /\ thrSt' = raw
       ELSE thrPc' = "quiesce" /\ UNCHANGED thrSt
  /\ UNCHANGED <<hwVars, schedVars, pmVars, runVars, irqVars, thrWake, tdrVars,
                 inFlight, nextTask, doneFence, resetPending, lutVars, attached>>

AckEverything(st) == Bits \* Mutant: bits raised since the read are lost
AckedBits(st) == st

AnyBit(st) == st # {} \* Mutant: any interrupt ends the chain
LastTaskDone(st) == "done" \in st

(* The bits read are cleared, and only those.  Without the last task's bits *)
(* the mask is opened again and the chain goes on.                          *)
ThrAck ==
  /\ thrPc = "ack"
  /\ raw' = raw \ AckedBits(thrSt)
  /\ thrSt' = {}
  /\ IF LastTaskDone(thrSt)
       THEN thrPc' = "signal" /\ UNCHANGED mask
       ELSE thrPc' = "idle" /\ mask' = ChainMask
  /\ UNCHANGED <<hw, hwTask, executer, hwLut, mmu, autoGating, ran, starts,
                 schedVars, pmVars, runVars, irqVars, thrWake, tdrVars, inFlight,
                 nextTask, doneFence, resetPending, lutVars, attached>>

(* No lock is held here: every interrupt is cleared.  OPERATION_ENABLE 0   *)
(* does not stop a task that runs: a chain is started by a pulse of it.    *)
ThrQuiesce ==
  /\ thrPc = "quiesce"
  /\ raw' = {}
  /\ thrPc' = "step"
  /\ UNCHANGED <<hw, hwTask, mask, executer, hwLut, mmu, autoGating, ran, starts,
                 schedVars, pmVars, runVars, irqVars, thrWake, thrSt, tdrVars,
                 inFlight, nextTask, doneFence, resetPending, lutVars, attached>>

MoreTasksOffByOne(j) == nextTask[j] <= TaskCount[j] \* Mutant
MoreTasks(j) == nextTask[j] < TaskCount[j]

(* Second critical section: the next task of whatever job is current now,  *)
(* or its completion.                                                      *)
ThrStep ==
  /\ thrPc = "step"
  /\ \/ /\ inFlight = None
        /\ thrPc' = "idle"
        /\ UNCHANGED <<hwVars, nextTask, lutVars>>
     \/ /\ inFlight # None /\ MoreTasks(inFlight)
        /\ HwSubmit(inFlight)
        /\ thrPc' = "idle"
     \/ /\ inFlight # None /\ ~MoreTasks(inFlight)
        /\ thrPc' = "signal"
        /\ UNCHANGED <<hwVars, nextTask, lutVars>>
  /\ UNCHANGED <<schedVars, pmVars, runVars, irqVars, thrWake, thrSt, tdrVars,
                 inFlight, doneFence, resetPending, attached>>

(* dma_fence_signal(): the scheduler's callback runs at once, if hooked.   *)
ThrSignal ==
  /\ thrPc = "signal"
  /\ doneFence' = doneFence \cup {inFlight}
  /\ IF inFlight \in armed THEN JobDone(inFlight, "ok") ELSE UNCHANGED schedVars
  /\ thrPc' = "release"
  /\ UNCHANGED <<hwVars, pmVars, runVars, irqVars, thrWake, thrSt, tdrVars,
                 inFlight, nextTask, resetPending, lutVars, attached>>

(* Mutant: in_flight_job is left behind.                                   *)
ThrReleaseKeepsJob ==
  /\ thrPc = "release"
  /\ Put
  /\ thrPc' = "idle"
  /\ UNCHANGED <<hwVars, schedVars, runVars, irqVars, thrWake, thrSt, tdrVars,
                 inFlight, nextTask, doneFence, resetPending, lutVars, attached>>

ThrRelease ==
  /\ thrPc = "release"
  /\ Put
  /\ inFlight' = None
  /\ thrPc' = "idle"
  /\ UNCHANGED <<hwVars, schedVars, runVars, irqVars, thrWake, thrSt, tdrVars,
                 nextTask, doneFence, resetPending, lutVars, attached>>

-----------------------------------------------------------------------------
(***************************************************************************)
(* rocket_job_timedout(), on the ordered reset workqueue: whatever heads   *)
(* the pending list, finished or not.                                      *)
(***************************************************************************)
TdrPick(j) ==
  /\ "timeout" \in Faults
  /\ tdrPc = "idle"
  /\ TakeOldest(j)
  /\ bad' = j
  /\ resetPending' = TRUE
  /\ tdrPc' = "stop"
  /\ UNCHANGED <<hwVars, pmVars, runVars, irqVars, thrVars, inFlight, nextTask,
                 doneFence, lutVars, attached>>

(* Mutant: the run worker is not waited for.                               *)
TdrStopNoWait ==
  /\ tdrPc = "stop"
  /\ Stop(bad)
  /\ tdrPc' = "clear"
  /\ UNCHANGED <<hwVars, pmVars, runVars, irqVars, thrVars, bad, inFlight, nextTask,
                 doneFence, resetPending, lutVars, attached>>

(* drm_sched_stop() waits for the workers; the run worker may be half-way. *)
TdrStop ==
  /\ tdrPc = "stop"
  /\ runPc = "idle"
  /\ Stop(bad)
  /\ tdrPc' = "clear"
  /\ UNCHANGED <<hwVars, pmVars, runVars, irqVars, thrVars, bad, inFlight, nextTask,
                 doneFence, resetPending, lutVars, attached>>

(* Mutants: the reference is put though no job is in flight; it is kept    *)
(* though one is; the job stays current.                                   *)
TdrClearAlwaysPuts ==
  /\ tdrPc = "clear"
  /\ JobLockFree
  /\ PutNoidle
  /\ inFlight' = None
  /\ tdrPc' = "reset"
  /\ UNCHANGED <<hwVars, schedVars, runVars, irqVars, thrVars, bad, nextTask,
                 doneFence, resetPending, lutVars, attached>>

TdrClearNoPut ==
  /\ tdrPc = "clear"
  /\ JobLockFree
  /\ inFlight' = None
  /\ tdrPc' = "reset"
  /\ UNCHANGED <<hwVars, schedVars, pmVars, runVars, irqVars, thrVars, bad,
                 nextTask, doneFence, resetPending, lutVars, attached>>

TdrClearKeepsJob ==
  /\ tdrPc = "clear"
  /\ JobLockFree
  /\ IF inFlight # None THEN PutNoidle ELSE UNCHANGED pmVars
  /\ tdrPc' = "reset"
  /\ UNCHANGED <<hwVars, schedVars, runVars, irqVars, thrVars, bad, inFlight,
                 nextTask, doneFence, resetPending, lutVars, attached>>

TdrClear ==
  /\ tdrPc = "clear"
  /\ JobLockFree
  /\ IF inFlight # None THEN PutNoidle ELSE UNCHANGED pmVars
  /\ inFlight' = None
  /\ tdrPc' = "reset"
  /\ UNCHANGED <<hwVars, schedVars, runVars, irqVars, thrVars, bad, nextTask,
                 doneFence, resetPending, lutVars, attached>>

TdrReset ==
  /\ tdrPc = "reset"
  /\ ResetRearm
  /\ resetPending' = FALSE
  /\ tdrPc' = "start"
  /\ UNCHANGED <<schedVars, pmVars, runVars, irqVars, thrVars, bad, inFlight,
                 nextTask, doneFence, attached>>

(* Mutant: the scheduler is not restarted.                                 *)
TdrStartForgotten ==
  /\ tdrPc = "start"
  /\ tdrPc' = "idle" /\ bad' = None
  /\ UNCHANGED <<hwVars, schedVars, pmVars, runVars, irqVars, thrVars, inFlight,
                 nextTask, doneFence, resetPending, lutVars, attached>>

TdrStart ==
  /\ tdrPc = "start"
  /\ Restart(bad)
  /\ tdrPc' = "idle" /\ bad' = None
  /\ UNCHANGED <<hwVars, pmVars, runVars, irqVars, thrVars, inFlight, nextTask,
                 doneFence, resetPending, lutVars, attached>>

-----------------------------------------------------------------------------
(* rocket_job_is_idle(): no credit is out.                                 *)
JobIsIdle == creditCount = 0

(* rocket_device_runtime_suspend(), and rk_iommu's own suspend with it.    *)
Suspend ==
  /\ PowerOff(JobIsIdle)
  /\ Wipe
  /\ mmu' = None
  /\ UNCHANGED <<schedVars, pcVars, inFlight, nextTask, doneFence, resetPending,
                 lutVars, attached>>

HardwareStep ==
  /\ Hardware
  /\ UNCHANGED <<schedVars, pmVars, pcVars, inFlight, nextTask, doneFence,
                 resetPending, lutVars, attached>>

-----------------------------------------------------------------------------
RunWorker ==
  \/ \E j \in Jobs : RunJob(j)
  \/ RunNoFence \/ RunResume \/ RunAttach \/ RunSubmit \/ RunReturn

FreeWorker == \E j \in Jobs : FreeJob(j)

HardIrq == IrqEnter \/ IrqAct

IrqThread ==
  \/ ThrStart \/ ThrCheck \/ ThrAck \/ ThrQuiesce \/ ThrStep
  \/ ThrSignal \/ ThrRelease

TimeoutWork ==
  \/ \E j \in Jobs : TdrPick(j)
  \/ TdrStop \/ TdrClear \/ TdrReset \/ TdrStart

Next ==
  \/ \E j \in Jobs : Submit(j)
  \/ RunWorker \/ FreeWorker \/ HardIrq \/ IrqThread \/ TimeoutWork
  \/ Suspend \/ HardwareStep

Spec == Init /\ [][Next]_vars

(****************************************************************************)
(* The kernel runs its workers, delivers a raised interrupt and schedules a *)
(* woken irq thread; a waiter for the mutex gets it in the end (the kernel  *)
(* hands a contended mutex over); the scheduler's timer goes off again and  *)
(* again while a job is pending.  Nothing is assumed of the hardware, the   *)
(* PM core or userspace.                                                    *)
(****************************************************************************)
KernelFairness ==
  /\ WF_vars(RunWorker) /\ SF_vars(RunSubmit)
  /\ WF_vars(FreeWorker)
  /\ WF_vars(Line /\ IrqEnter) /\ WF_vars(IrqAct)
  /\ WF_vars(IrqThread)
  /\ WF_vars(TimeoutWork) /\ SF_vars(TdrClear)

FairSpec == Spec /\ KernelFairness

(* Hardware that does what it is told: a started task ends.                *)
WorkingSpec == FairSpec /\ WF_vars(TaskEnds /\ HardwareStep)
=============================================================================

--------------------------- MODULE RocketJobSteps ---------------------------
(***************************************************************************)
(* What holds of legacy jobs and of any mixture with chains.  First, under *)
(* every fault: no task waits on the wrong bank and no chain runs with     *)
(* another's tables.  Then, on a quiet core (RocketJobInv), StepInv and    *)
(* what follows from it: each task is started once, a fence means a        *)
(* complete job, DMA goes through the job's own domain, and the whole      *)
(* promise of NpuJobs is kept.                                             *)
(***************************************************************************)
EXTENDS RocketJobOrder

USE JobAssumption DEF hwVars, schedVars, pmVars, pcVars, runVars, irqVars,
  thrVars, tdrVars, lutVars, One, Complete

(* The driver starts something only while the NPU is powered.               *)
LEMMA PoweredAtStart ==
  ASSUME IInv, RunSubmit \/ (ThrStep /\ inFlight # None)
  PROVE  powered
<1>1. inFlight # None \/ runPc = "submit"
  BY DEF RunSubmit
<1> QED
  BY <1>1 DEF IInv, PmOK, PoweredInUse, PmHolders, RunnerHolds, TypeOK, FlowTypeOK

(* A start finds its tables: they are in the unit already, or it loads them; *)
(* and a single task finds the executer on bank 0, or resets the core.      *)
LEMMA LoadedSubmit ==
  ASSUME IInv, LoadedOK, powered, NEW j \in Jobs, HwSubmit(j)
  PROVE  LoadedOK'
<1>1. executer \in {0, 1}
  BY DEF IInv, TypeOK, HwTypeOK
<1>2. CASE resetPending
  <2>1. UNCHANGED <<hwVars, lutVars>> BY <1>2 DEF HwSubmit
  <2> QED BY <2>1 DEF LoadedOK, ChainHasItsLut, ExecuterFree
<1>3. CASE ~resetPending /\ Chained(j)
  <2>1. SubmitChain(j) BY <1>3 DEF HwSubmit
  <2>2. hw' = j BY <2>1 DEF SubmitChain, Start
  <2>3. lutValid' => hwLut' = lutCache'
    BY <2>1 DEF SubmitChain, LutLoad, LoadedOK
  <2>4. LutOf[j] # None => hwLut' = LutOf[j]
    BY <2>1 DEF SubmitChain, LutLoad, LoadedOK
  <2> QED BY <1>3, <2>2, <2>3, <2>4 DEF LoadedOK, ChainHasItsLut, ExecuterFree, Chained
<1>4. CASE ~resetPending /\ ~Chained(j)
  <2>1. SubmitTask(j) BY <1>4 DEF HwSubmit
  <2>2. hw' = j BY <2>1 DEF SubmitTask, Start
  <2>3. executer' = 0 BY <1>1, <2>1 DEF SubmitTask, Stalled
  <2>4. lutValid' => hwLut' = lutCache'
    BY <2>1 DEF SubmitTask, LoadedOK
  <2> QED BY <1>4, <2>2, <2>3, <2>4 DEF LoadedOK, ChainHasItsLut, ExecuterFree, Chained
<1> QED BY <1>2, <1>3, <1>4

LEMMA LoadedStep == ASSUME IInv, LoadedOK, [Next]_vars PROVE LoadedOK'
<1>1. ASSUME UNCHANGED <<powered, hw, hwLut, executer, lutVars>> PROVE LoadedOK'
  BY <1>1 DEF LoadedOK, ChainHasItsLut, ExecuterFree
<1>2. CASE RunSubmit
  <2>1. runJob \in Jobs /\ HwSubmit(runJob)
    BY <1>2 DEF RunSubmit, IInv, RunnerOK
  <2> QED BY <1>2, <2>1, LoadedSubmit, PoweredAtStart
<1>3. CASE ThrStep
  <2>1. CASE HwSubmit(inFlight) /\ inFlight # None
    <3>1. inFlight \in Jobs BY <2>1 DEF IInv, TypeOK, FlowTypeOK
    <3> QED BY <1>3, <2>1, <3>1, LoadedSubmit, PoweredAtStart
  <2>2. CASE UNCHANGED <<hwVars, lutVars>>
    BY <1>1, <1>3, <2>2 DEF ThrStep
  <2> QED BY <1>3, <2>1, <2>2 DEF ThrStep
<1>4. CASE RunResume
  <2>1. UNCHANGED <<hw, hwLut, executer, lutCache>>
    BY <1>4 DEF RunResume
  <2>2. UNCHANGED <<powered, lutValid>> \/ lutValid' = FALSE
    BY <1>4 DEF RunResume, GetSync, GetSyncFailed, IInv, TypeOK, PmTypeOK
  <2> QED BY <2>1, <2>2 DEF LoadedOK, ChainHasItsLut, ExecuterFree
<1>5. CASE TdrReset \/ Suspend
  <2>1. hw' = None /\ (~lutValid' \/ ~powered')
    BY <1>5 DEF TdrReset, ResetRearm, Suspend, PowerOff, Wipe
  <2> QED BY <2>1 DEF LoadedOK, ChainHasItsLut, ExecuterFree
<1>6. CASE HardwareStep
  <2>1. UNCHANGED <<powered, hwLut, lutVars>>
        /\ (hw' = None \/ UNCHANGED <<hw, executer>>)
    BY <1>6 DEF HardwareStep, Hardware, TaskEnds, UnitReports
  <2> QED BY <2>1 DEF LoadedOK, ChainHasItsLut, ExecuterFree
<1>7. CASE \E j \in Jobs : Submit(j) \/ RunJob(j) \/ FreeJob(j) \/ TdrPick(j)
  BY <1>1, <1>7 DEF Submit, RunJob, FreeJob, TdrPick
<1>8. CASE RunNoFence \/ RunAttach \/ RunReturn \/ UNCHANGED vars
  BY <1>1, <1>8 DEF RunNoFence, RunAttach, RunReturn, vars
<1>9. CASE HardIrq
  BY <1>1, <1>9 DEF HardIrq, IrqEnter, IrqAct, GetIfInUse, Put
<1>10. CASE ThrStart \/ ThrCheck \/ ThrAck \/ ThrQuiesce \/ ThrSignal \/ ThrRelease
  BY <1>1, <1>10 DEF ThrStart, ThrCheck, ThrAck, ThrQuiesce, ThrSignal, ThrRelease,
    Put
<1>11. CASE TdrStop \/ TdrClear \/ TdrStart
  BY <1>1, <1>11 DEF TdrStop, TdrClear, TdrStart, PutNoidle
<1> QED
  BY <1>2, <1>3, <1>4, <1>5, <1>6, <1>7, <1>8, <1>9, <1>10, <1>11
    DEF Next, RunWorker, FreeWorker, IrqThread, TimeoutWork

LEMMA LoadedAlways == Spec => []LoadedOK
<1>1. Init => LoadedOK
  BY DEF Init, HwInit, LoadedOK, ChainHasItsLut, ExecuterFree
<1>2. IInv /\ LoadedOK /\ [Next]_vars => LoadedOK'
  BY LoadedStep
<1> QED BY <1>1, <1>2, Invariant, PTL DEF Spec

(* Whatever jobs came before, legacy or chained, and whatever failed, a     *)
(* single task is never started on the bank where it would wait for ever.   *)
THEOREM NeverStuckOnBank == Spec => []ExecuterFree
<1>1. LoadedOK => ExecuterFree BY DEF LoadedOK
<1> QED BY <1>1, LoadedAlways, PTL

(* A chain runs with its own tables also among legacy jobs and the resets   *)
(* they bring.                                                              *)
THEOREM TablesAlways == Spec => []ChainHasItsLut
<1>1. LoadedOK => ChainHasItsLut BY DEF LoadedOK
<1> QED BY <1>1, LoadedAlways, PTL
-----------------------------------------------------------------------------
(* The hypotheses of every step on a quiet core.                            *)
Steps == Quiet /\ IInv /\ StepInv

(* Types and ranges the steps below work with.                              *)
LEMMA StepTypes ==
  ASSUME Steps
  PROVE  /\ inFlight \in Jobs \cup {None} /\ hw \in Jobs \cup {None}
         /\ nextTask \in [Jobs -> Nat] /\ starts \in [Jobs -> Nat]
         /\ ran \in [Jobs -> Nat] /\ hwTask \in Nat
         /\ \A j \in Jobs : TaskCount[j] \in Nat /\ TaskCount[j] >= 1
BY DEF Steps, IInv, TypeOK, HwTypeOK, FlowTypeOK

(* The timeout work never starts.                                           *)
LEMMA NoTimeoutWork == ASSUME Steps PROVE ~TimeoutWork
BY DEF Steps, Quiet, StepInv, CalmOK, TimeoutWork, TdrPick, TdrStop, TdrClear,
  TdrReset, TdrStart

(* The run worker's job becomes current: the one before is gone with its    *)
(* interrupt, and this one starts from its first task.                      *)
LEMMA RunSubmitTurn ==
  ASSUME Steps, RunSubmit
  PROVE  StepInv'
<1>1. /\ runJob \in Jobs /\ armed = {} /\ ~stopped
      /\ thrPc \notin {"ack", "signal", "release"} /\ runPc = "submit"
  BY DEF Steps, IInv, RunnerOK, RunSubmit, JobLockFree
<1>2. inFlight = None /\ tdrPc = "idle" /\ ~resetPending
  BY <1>1 DEF Steps, IInv, FlightOK, SchedOK, StepInv, CalmOK
<1>3. mask = {} /\ thrPc = "idle" /\ ~thrWake /\ irqPc # "act" /\ thrSt = {}
  BY <1>2 DEF Steps, StepInv, HandOverOK
<1>4. starts[runJob] = 0 /\ nextTask[runJob] = 0 /\ ran[runJob] = 0
  BY <1>1 DEF Steps, StepInv, TurnOK, Unbegun, Starting
<1>5. attached = DomainOf[runJob] /\ (powered => mmu = attached)
  BY <1>1 DEF Steps, StepInv, DomainOK
<1>6. /\ inFlight' = runJob /\ HwSubmit(runJob) /\ runPc' = "return"
      /\ UNCHANGED <<schedVars, pmVars, runJob, irqVars, thrVars, tdrVars, doneFence,
                     resetPending, attached>>
  BY DEF RunSubmit
<1>7. /\ hw' = runJob /\ hwTask' = 1 /\ raw' = {}
      /\ starts' = [starts EXCEPT ![runJob] = @ + 1]
      /\ UNCHANGED <<mmu, ran>>
      /\ IF Chained(runJob) THEN nextTask' = [nextTask EXCEPT ![runJob] = 0]
                            ELSE nextTask' = [nextTask EXCEPT ![runJob] = @ + 1]
  <2>1. IF Chained(runJob) THEN SubmitChain(runJob) ELSE SubmitTask(runJob)
    BY <1>2, <1>6 DEF HwSubmit
  <2>2. CASE Chained(runJob)
    BY <2>1, <2>2 DEF SubmitChain, Start
  <2>3. CASE ~Chained(runJob)
    BY <1>4, <2>1, <2>3 DEF SubmitTask, Start
  <2> QED BY <2>2, <2>3
<1>8. CalmOK' BY <1>2, <1>6 DEF CalmOK
<1>9. HandOverOK'
  BY <1>1, <1>3, <1>6 DEF HandOverOK
<1>10. TurnOK'
  <2>1. \A j \in Jobs : Unbegun(j)' => starts'[j] = 0 /\ nextTask'[j] = 0 /\ ran'[j] = 0
    <3> SUFFICES ASSUME NEW j \in Jobs, Unbegun(j)'
                 PROVE  starts'[j] = 0 /\ nextTask'[j] = 0 /\ ran'[j] = 0
      OBVIOUS
    <3>1. sched[j] \in {"new", "queued"}
      BY <1>6 DEF Unbegun, Starting
    <3>2. j # runJob
      BY <1>1, <3>1 DEF Steps, IInv, RunnerOK
    <3>3. starts[j] = 0 /\ nextTask[j] = 0 /\ ran[j] = 0
      BY <3>1 DEF Steps, StepInv, TurnOK, Unbegun
    <3> QED BY <1>7, <3>2, <3>3, StepTypes
  <2>2. StartedOnce'
    BY <1>1, <1>4, <1>7, StepTypes DEF StartedOnce, Steps, StepInv, TurnOK
  <2>3. Chained(runJob) => ChainTurn(runJob)'
    BY <1>1, <1>3, <1>4, <1>6, <1>7, StepTypes DEF ChainTurn
  <2>4. ~Chained(runJob) => TaskTurn(runJob)'
    BY <1>1, <1>3, <1>4, <1>6, <1>7, StepTypes DEF TaskTurn
  <2>5. hw' = inFlight' /\ thrPc' # "release"
    BY <1>3, <1>6, <1>7
  <2>6. /\ (ChainTurn(inFlight))' = ChainTurn(runJob)'
        /\ (TaskTurn(inFlight))' = TaskTurn(runJob)'
    BY <1>6 DEF ChainTurn, TaskTurn
  <2> QED BY <1>1, <1>6, <2>1, <2>2, <2>3, <2>4, <2>5, <2>6 DEF TurnOK, Chained
<1>11. OutcomeOK'
  BY <1>6, <1>7 DEF Steps, StepInv, OutcomeOK, DoneFenceMeansComplete
<1>12. DomainOK'
  BY <1>5, <1>6, <1>7 DEF DomainOK
<1> QED BY <1>8, <1>9, <1>10, <1>11, <1>12 DEF StepInv

(* The second critical section: nobody executes, the task started last has  *)
(* ended, and the next one is started or the job is complete.               *)
LEMMA ThrStepTurn ==
  ASSUME Steps, ThrStep
  PROVE  StepInv'
<1>1. /\ thrPc = "step" /\ thrPc' \in {"idle", "signal"}
      /\ UNCHANGED <<schedVars, pmVars, runVars, irqVars, thrWake, thrSt, tdrVars,
                     inFlight, doneFence, resetPending, attached>>
  BY DEF ThrStep
<1>2. /\ inFlight # None /\ ~Chained(inFlight) /\ mask = {} /\ irqPc # "act"
      /\ ~thrWake /\ thrSt = {} /\ ~resetPending /\ inFlight \in Jobs
  BY <1>1, StepTypes DEF Steps, StepInv, HandOverOK, CalmOK
<1>3. TaskTurn(inFlight)
  BY <1>1, <1>2 DEF Steps, StepInv, TurnOK
<1>4. hw = None /\ ran[inFlight] = nextTask[inFlight]
  BY <1>1, <1>3 DEF TaskTurn
<1>5. /\ nextTask[inFlight] = starts[inFlight] /\ nextTask[inFlight] >= 1
      /\ nextTask[inFlight] <= TaskCount[inFlight] /\ nextTask[inFlight] \in Nat
  BY <1>2, <1>3, StepTypes DEF TaskTurn
<1>6. ~Unbegun(inFlight)
  BY <1>2, <1>5 DEF Steps, StepInv, TurnOK
<1>7. \/ /\ nextTask[inFlight] < TaskCount[inFlight]
         /\ thrPc' = "idle"
         /\ hw' = inFlight /\ hwTask' = nextTask[inFlight] + 1 /\ raw' = {}
         /\ mask' = Bits
         /\ starts' = [starts EXCEPT ![inFlight] = @ + 1]
         /\ nextTask' = [nextTask EXCEPT ![inFlight] = @ + 1]
         /\ UNCHANGED <<mmu, ran>>
      \/ /\ nextTask[inFlight] = TaskCount[inFlight]
         /\ thrPc' = "signal"
         /\ UNCHANGED <<hwVars, nextTask>>
  <2>1. CASE MoreTasks(inFlight)
    <3>1. HwSubmit(inFlight) /\ thrPc' = "idle"
      BY <1>2, <2>1 DEF ThrStep
    <3>2. SubmitTask(inFlight)
      BY <1>2, <3>1 DEF HwSubmit
    <3> QED BY <2>1, <3>1, <3>2 DEF SubmitTask, Start, MoreTasks
  <2>2. CASE ~MoreTasks(inFlight)
    <3>1. thrPc' = "signal" /\ UNCHANGED <<hwVars, nextTask>>
      BY <1>2, <2>2 DEF ThrStep
    <3>2. nextTask[inFlight] = TaskCount[inFlight]
      BY <1>2, <1>5, <2>2, StepTypes DEF MoreTasks
    <3> QED BY <3>1, <3>2
  <2> QED BY <2>1, <2>2
<1>8. CalmOK' BY <1>1 DEF CalmOK, Steps, StepInv
<1>9. HandOverOK' BY <1>1, <1>2, <1>7 DEF HandOverOK
<1>10. TurnOK'
  <2>1. ASSUME NEW j \in Jobs, Unbegun(j)'
        PROVE  starts'[j] = 0 /\ nextTask'[j] = 0 /\ ran'[j] = 0
    <3>1. Unbegun(j) BY <1>1, <2>1 DEF Unbegun
    <3>2. j # inFlight BY <1>6, <3>1
    <3>3. starts[j] = 0 /\ nextTask[j] = 0 /\ ran[j] = 0
      BY <3>1 DEF Steps, StepInv, TurnOK
    <3> QED BY <1>7, <3>2, <3>3, StepTypes
  <2>2. StartedOnce'
    <3>1. StartedOnce BY DEF Steps, StepInv, TurnOK
    <3> QED BY <1>2, <1>5, <1>7, <3>1, StepTypes DEF StartedOnce
  <2>3. hw' # None => hw' = inFlight' /\ thrPc' # "release"
    BY <1>1, <1>4, <1>7
  <2>4. TaskTurn(inFlight)'
    BY <1>1, <1>2, <1>4, <1>5, <1>7, StepTypes DEF TaskTurn
  <2> QED BY <1>1, <1>2, <2>1, <2>2, <2>3, <2>4 DEF TurnOK, Chained
<1>11. OutcomeOK'
  BY <1>1, <1>7 DEF Steps, StepInv, OutcomeOK, DoneFenceMeansComplete
<1>12. DomainOK'
  BY <1>1, <1>7 DEF Steps, StepInv, DomainOK
<1> QED BY <1>8, <1>9, <1>10, <1>11, <1>12 DEF StepInv

(* A resume restores the MMU from what is attached; a failure powers        *)
(* nothing on.                                                              *)
LEMMA RunResumeTurn ==
  ASSUME Steps, RunResume
  PROVE  StepInv'
<1>1. /\ runPc = "resume" /\ runPc' \in {"attach", "return"} /\ runJob' = runJob
      /\ UNCHANGED <<hw, hwTask, raw, mask, ran, starts, schedVars, irqVars, thrVars,
                     tdrVars, inFlight, nextTask, doneFence, resetPending, attached>>
  BY DEF RunResume
<1>2. UNCHANGED <<powered, mmu>> \/ mmu' = attached
  BY DEF RunResume, GetSync, GetSyncFailed, Steps, IInv, TypeOK, PmTypeOK
<1>3. CalmOK' BY <1>1 DEF CalmOK, Steps, StepInv
<1>4. HandOverOK' BY <1>1 DEF HandOverOK, Steps, StepInv
<1>5. TurnOK'
  <2>1. \A j \in Jobs : Unbegun(j)' => Unbegun(j)
    BY <1>1 DEF Unbegun, Starting
  <2> QED
    BY <1>1, <2>1 DEF Steps, StepInv, TurnOK, StartedOnce, ChainTurn, TaskTurn
<1>6. OutcomeOK' BY <1>1 DEF Steps, StepInv, OutcomeOK, DoneFenceMeansComplete
<1>7. DomainOK'
  BY <1>1, <1>2 DEF Steps, StepInv, DomainOK
<1> QED BY <1>3, <1>4, <1>5, <1>6, <1>7 DEF StepInv

(* A domain is attached only when no job is current any more.               *)
LEMMA RunAttachTurn ==
  ASSUME Steps, RunAttach
  PROVE  StepInv'
<1>1. /\ runPc = "attach" /\ runJob' = runJob
      /\ UNCHANGED <<hw, hwTask, raw, mask, ran, starts, schedVars, pmVars, irqVars,
                     thrVars, tdrVars, inFlight, nextTask, doneFence, resetPending>>
  BY DEF RunAttach
<1>2. \/ /\ runPc' = "submit" /\ attached' = DomainOf[runJob]
         /\ (attached' = attached /\ mmu' = mmu) \/ mmu' = attached'
      \/ runPc' = "return" /\ mmu' = attached'
  BY DEF RunAttach, NeedsAttach
<1>3. inFlight = None \/ thrPc = "release"
  BY <1>1 DEF Steps, IInv, RunnerOK, FlightOK, SchedOK
<1>4. CalmOK' BY <1>1 DEF CalmOK, Steps, StepInv
<1>5. HandOverOK' BY <1>1 DEF HandOverOK, Steps, StepInv
<1>6. TurnOK'
  <2>1. \A j \in Jobs : Unbegun(j)' => Unbegun(j)
    BY <1>1 DEF Unbegun, Starting
  <2> QED
    BY <1>1, <2>1 DEF Steps, StepInv, TurnOK, StartedOnce, ChainTurn, TaskTurn
<1>7. OutcomeOK' BY <1>1 DEF Steps, StepInv, OutcomeOK, DoneFenceMeansComplete
<1>8. DomainOK'
  BY <1>1, <1>2, <1>3 DEF Steps, StepInv, DomainOK
<1> QED BY <1>4, <1>5, <1>6, <1>7, <1>8 DEF StepInv

(* The scheduler's own steps: nothing about the core changes, a job stays   *)
(* untouched until it is started, and success is told of a signalled fence. *)
LEMMA SchedulerTurn ==
  ASSUME Steps,
         \/ \E j \in Jobs : Submit(j) \/ RunJob(j) \/ FreeJob(j)
         \/ RunNoFence \/ RunReturn \/ UNCHANGED vars
  PROVE  StepInv'
<1>1. /\ UNCHANGED <<hwVars, powered, irqVars, thrVars, tdrVars, inFlight, nextTask,
                     doneFence, resetPending, attached>>
      /\ runPc' # "submit" \/ UNCHANGED <<runPc, runJob>>
  BY DEF Submit, RunJob, FreeJob, RunNoFence, RunReturn, vars
<1>2. \A j \in Jobs : Unbegun(j)' => Unbegun(j)
  <2>1. sched \in [Jobs -> Places] BY DEF Steps, IInv, TypeOK, SchedTypeOK
  <2>2. ASSUME NEW j \in Jobs, RunJob(j) PROVE \A k \in Jobs : Unbegun(k)' => Unbegun(k)
    BY <2>1, <2>2 DEF Unbegun, Starting, RunJob, Begin
  <2>3. ASSUME NEW j \in Jobs, Submit(j) \/ FreeJob(j)
        PROVE  \A k \in Jobs : Unbegun(k)' => Unbegun(k)
    BY <2>1, <2>3 DEF Unbegun, Submit, Push, FreeJob, FreeOldest
  <2>4. CASE RunNoFence \/ RunReturn \/ UNCHANGED vars
    BY <2>4 DEF Unbegun, Starting, RunNoFence, RunReturn, Hook, JobDone, vars
  <2> QED BY <2>2, <2>3, <2>4
<1>3. \A j \in Jobs : finished'[j] = "ok" => Complete(j)
  <2>1. CASE RunReturn
    BY <2>1 DEF RunReturn, Hook, JobDone, Steps, StepInv, OutcomeOK,
      DoneFenceMeansComplete, IInv, TypeOK, SchedTypeOK
  <2>2. CASE RunNoFence
    BY <2>2 DEF RunNoFence, JobDone, Steps, StepInv, OutcomeOK, IInv, TypeOK,
      SchedTypeOK
  <2>3. CASE finished' = finished
    BY <2>3 DEF Steps, StepInv, OutcomeOK
  <2> QED
    BY <2>1, <2>2, <2>3 DEF Submit, Push, RunJob, Begin, FreeJob, FreeOldest, vars
<1>4. CalmOK' BY <1>1 DEF CalmOK, Steps, StepInv
<1>5. HandOverOK' BY <1>1 DEF HandOverOK, Steps, StepInv
<1>6. TurnOK'
  BY <1>1, <1>2 DEF Steps, StepInv, TurnOK, StartedOnce, ChainTurn, TaskTurn
<1>7. OutcomeOK'
  BY <1>1, <1>3 DEF Steps, StepInv, OutcomeOK, DoneFenceMeansComplete
<1>8. DomainOK' BY <1>1 DEF Steps, StepInv, DomainOK
<1> QED BY <1>4, <1>5, <1>6, <1>7, <1>8 DEF StepInv
-----------------------------------------------------------------------------
(* The hard handler comes only to an open mask; if it wakes the thread it   *)
(* closes the mask, and then a legacy task has ended: its wake bit is "done". *)
LEMMA IrqTurn ==
  ASSUME Steps, IrqEnter \/ IrqAct
  PROVE  StepInv'
<1>1. UNCHANGED <<hw, hwTask, mmu, ran, starts, schedVars, powered, runVars, thrPc,
                  thrSt, tdrVars, inFlight, nextTask, doneFence, resetPending,
                  attached>>
  BY DEF IrqEnter, IrqAct, GetIfInUse, Put
<1>2. \/ /\ mask # {} /\ irqPc' = "act" /\ irqRaw' = raw
         /\ UNCHANGED <<raw, mask, thrWake>>
      \/ /\ irqPc = "act" /\ irqPc' = "idle" /\ raw' \subseteq raw
         /\ UNCHANGED <<mask, thrWake>>
      \/ /\ irqPc = "act" /\ irqPc' = "idle" /\ irqRaw \cap WakeBits # {}
         /\ mask' = {} /\ thrWake' = TRUE /\ UNCHANGED raw
  <2>1. CASE IrqEnter
    <3>1. Line BY <2>1 DEF IrqEnter, Steps, Quiet
    <3> QED BY <2>1, <3>1 DEF IrqEnter, Line
  <2>2. CASE IrqAct
    BY <2>2 DEF IrqAct
  <2> QED BY <2>1, <2>2
<1>3. /\ HandOverOK
      /\ TurnOK
  BY DEF Steps, StepInv
<1>4. CalmOK' BY <1>1 DEF CalmOK, Steps, StepInv
<1>5. HandOverOK' BY <1>1, <1>2, <1>3 DEF HandOverOK
<1>6. TurnOK'
  <2>1. \A j \in Jobs : Unbegun(j)' => Unbegun(j)
    BY <1>1 DEF Unbegun
  <2>2. ChainTurn(inFlight) => ChainTurn(inFlight)'
    <3>1. raw' \subseteq raw BY <1>2
    <3> QED BY <1>1, <3>1 DEF ChainTurn
  <2>3. TaskTurn(inFlight) => TaskTurn(inFlight)'
    <3>1. CASE UNCHANGED thrWake
      <4>1. raw' \subseteq raw BY <1>2
      <4> QED BY <1>1, <3>1, <4>1 DEF TaskTurn
    <3>2. CASE irqPc = "act" /\ irqRaw \cap WakeBits # {}
      <4>1. raw \cap WakeBits # {} BY <1>3, <3>2 DEF HandOverOK
      <4> QED BY <1>1, <4>1 DEF TaskTurn
    <3> QED BY <1>2, <3>1, <3>2
  <2> QED BY <1>1, <1>3, <2>1, <2>2, <2>3 DEF TurnOK, StartedOnce
<1>7. OutcomeOK' BY <1>1 DEF Steps, StepInv, OutcomeOK, DoneFenceMeansComplete
<1>8. DomainOK' BY <1>1 DEF Steps, StepInv, DomainOK
<1> QED BY <1>4, <1>5, <1>6, <1>7, <1>8 DEF StepInv

(* The irq thread up to its second critical section.  A thread that was     *)
(* woken finds the mask closed and, for a legacy job, nothing executing.    *)
LEMMA ThrBitsTurn ==
  ASSUME Steps, ThrStart \/ ThrCheck \/ ThrAck \/ ThrQuiesce
  PROVE  StepInv'
<1>1. UNCHANGED <<hw, hwTask, mmu, ran, starts, schedVars, powered, runVars, irqVars,
                  tdrVars, inFlight, nextTask, doneFence, resetPending, attached>>
  BY DEF ThrStart, ThrCheck, ThrAck, ThrQuiesce
<1>2. \/ /\ thrPc = "idle" /\ thrWake /\ thrPc' = "check" /\ thrWake' = FALSE
         /\ UNCHANGED <<raw, mask, thrSt>>
      \/ /\ thrPc = "check" /\ UNCHANGED <<raw, mask, thrWake>>
         /\ IF CurrentIsChain THEN thrPc' = "ack" /\ thrSt' = raw
                              ELSE thrPc' = "quiesce" /\ thrSt' = thrSt
      \/ /\ thrPc = "ack" /\ raw' \subseteq raw /\ thrSt' = {} /\ thrWake' = thrWake
         /\ IF "done" \in thrSt THEN thrPc' = "signal" /\ mask' = mask
                                ELSE thrPc' = "idle"
      \/ /\ thrPc = "quiesce" /\ raw' = {} /\ thrPc' = "step"
         /\ UNCHANGED <<mask, thrWake, thrSt>>
  BY DEF ThrStart, ThrCheck, ThrAck, ThrQuiesce, AckedBits, LastTaskDone
<1>3. /\ HandOverOK
      /\ TurnOK
      /\ inFlight # None /\ thrPc # "release" /\ thrPc' # "release"
  BY <1>2 DEF Steps, StepInv, HandOverOK
<1>4. mask = {} /\ irqPc # "act"
  BY <1>2, <1>3 DEF HandOverOK
<1>5. CalmOK' BY <1>1 DEF CalmOK, Steps, StepInv
<1>6. HandOverOK'
  BY <1>1, <1>2, <1>3, <1>4 DEF HandOverOK, CurrentIsChain, Chained
<1>7. TurnOK'
  <2>1. \A j \in Jobs : Unbegun(j)' => Unbegun(j)
    BY <1>1 DEF Unbegun
  <2>2. ChainTurn(inFlight) => ChainTurn(inFlight)'
    BY <1>1, <1>2 DEF ChainTurn
  <2>3. TaskTurn(inFlight) /\ ~Chained(inFlight) => TaskTurn(inFlight)'
    <3>1. TaskTurn(inFlight) => hw = None
      BY <1>2 DEF TaskTurn
    <3>2. ~Chained(inFlight) => thrPc' # "signal"
      BY <1>2, <1>3 DEF HandOverOK
    <3> QED BY <1>1, <3>1, <3>2 DEF TaskTurn
  <2> QED BY <1>1, <1>3, <2>1, <2>2, <2>3 DEF TurnOK, StartedOnce, Chained
<1>8. OutcomeOK' BY <1>1 DEF Steps, StepInv, OutcomeOK, DoneFenceMeansComplete
<1>9. DomainOK' BY <1>1, <1>3 DEF Steps, StepInv, DomainOK
<1> QED BY <1>5, <1>6, <1>7, <1>8, <1>9 DEF StepInv

(* The fence of a complete job is signalled ...                             *)
LEMMA ThrSignalTurn ==
  ASSUME Steps, ThrSignal
  PROVE  StepInv'
<1>1. /\ thrPc = "signal" /\ thrPc' = "release"
      /\ doneFence' = doneFence \cup {inFlight}
      /\ UNCHANGED <<hwVars, pmVars, runVars, irqVars, thrWake, thrSt, tdrVars,
                     inFlight, nextTask, resetPending, attached, sched>>
  BY DEF ThrSignal, JobDone
<1>2. finished' = finished \/ finished' = [finished EXCEPT ![inFlight] = "ok"]
  BY DEF ThrSignal, JobDone
<1>3. inFlight # None /\ mask = {} /\ ~thrWake /\ irqPc # "act" /\ thrSt = {}
  BY <1>1 DEF Steps, StepInv, HandOverOK
<1>4. hw = None /\ Complete(inFlight)
  <2>1. IF Chained(inFlight) THEN ChainTurn(inFlight) ELSE TaskTurn(inFlight)
    BY <1>1, <1>3 DEF Steps, StepInv, TurnOK
  <2>2. CASE Chained(inFlight)
    BY <1>1, <2>1, <2>2 DEF ChainTurn
  <2>3. CASE ~Chained(inFlight)
    BY <1>1, <2>1, <2>3 DEF TaskTurn
  <2> QED BY <2>2, <2>3
<1>5. CalmOK' BY <1>1 DEF CalmOK, Steps, StepInv
<1>6. HandOverOK' BY <1>1, <1>3 DEF HandOverOK
<1>7. TurnOK'
  <2>1. \A j \in Jobs : Unbegun(j)' => Unbegun(j)
    BY <1>1 DEF Unbegun
  <2> QED BY <1>1, <1>4, <2>1 DEF Steps, StepInv, TurnOK, StartedOnce
<1>8. OutcomeOK'
  BY <1>1, <1>2, <1>4 DEF Steps, StepInv, OutcomeOK, DoneFenceMeansComplete, IInv,
    TypeOK, SchedTypeOK
<1>9. DomainOK' BY <1>1 DEF Steps, StepInv, DomainOK
<1> QED BY <1>5, <1>6, <1>7, <1>8, <1>9 DEF StepInv

(* ... and the job let go.                                                  *)
LEMMA ThrReleaseTurn ==
  ASSUME Steps, ThrRelease
  PROVE  StepInv'
<1>1. /\ thrPc = "release" /\ thrPc' = "idle" /\ inFlight' = None
      /\ UNCHANGED <<hwVars, schedVars, powered, runVars, irqVars, thrWake, thrSt,
                     tdrVars, nextTask, doneFence, resetPending, attached>>
  BY DEF ThrRelease, Put
<1>2. mask = {} /\ ~thrWake /\ irqPc # "act" /\ thrSt = {} /\ hw = None
  BY <1>1 DEF Steps, StepInv, HandOverOK, TurnOK
<1>3. CalmOK' BY <1>1 DEF CalmOK, Steps, StepInv
<1>4. HandOverOK' BY <1>1, <1>2 DEF HandOverOK
<1>5. TurnOK'
  <2>1. \A j \in Jobs : Unbegun(j)' => Unbegun(j)
    BY <1>1 DEF Unbegun
  <2> QED BY <1>1, <1>2, <2>1 DEF Steps, StepInv, TurnOK, StartedOnce
<1>6. OutcomeOK' BY <1>1 DEF Steps, StepInv, OutcomeOK, DoneFenceMeansComplete
<1>7. DomainOK' BY <1>1 DEF Steps, StepInv, DomainOK
<1> QED BY <1>3, <1>4, <1>5, <1>6, <1>7 DEF StepInv

(* The power goes only when no job is current and no handler runs.          *)
LEMMA SuspendTurn ==
  ASSUME Steps, Suspend
  PROVE  StepInv'
<1>1. /\ hw' = None /\ raw' = {} /\ mask' = {} /\ ~powered'
      /\ UNCHANGED <<ran, starts, schedVars, runVars, irqVars, thrVars, tdrVars,
                     inFlight, nextTask, doneFence, resetPending, attached>>
  BY DEF Suspend, PowerOff, Wipe
<1>2. usage = 0 BY DEF Suspend, PowerOff
<1>3. inFlight = None /\ irqPc # "act"
  BY <1>2 DEF Steps, IInv, PmOK, PmNeverShort, PmHolders, RunnerHolds
<1>4. CalmOK' BY <1>1 DEF CalmOK, Steps, StepInv
<1>5. HandOverOK' BY <1>1, <1>3 DEF HandOverOK, Steps, StepInv
<1>6. TurnOK'
  <2>1. \A j \in Jobs : Unbegun(j)' => Unbegun(j)
    BY <1>1 DEF Unbegun
  <2> QED BY <1>1, <1>3, <2>1 DEF Steps, StepInv, TurnOK, StartedOnce
<1>7. OutcomeOK' BY <1>1 DEF Steps, StepInv, OutcomeOK, DoneFenceMeansComplete
<1>8. DomainOK' BY <1>1, <1>3 DEF Steps, StepInv, DomainOK
<1> QED BY <1>4, <1>5, <1>6, <1>7, <1>8 DEF StepInv

(* The hardware executes the current job only, and its next task.           *)
LEMMA HardwareTurn ==
  ASSUME Steps, HardwareStep
  PROVE  /\ StepInv'
         /\ ran' = ran \/ (/\ hw = inFlight /\ inFlight # None /\ thrPc # "release"
                           /\ ran[hw] < TaskCount[hw]
                           /\ ran' = [ran EXCEPT ![hw] = @ + 1])
<1>1. UNCHANGED <<mask, mmu, starts, schedVars, powered, runVars, irqVars, thrVars,
                  tdrVars, inFlight, nextTask, doneFence, resetPending, attached>>
  BY DEF HardwareStep, Hardware, TaskEnds, UnitReports
<1>2. /\ hw # None /\ hw = inFlight /\ thrPc # "release" /\ hw \in Jobs
      /\ IF Chained(hw) THEN ChainTurn(hw) ELSE TaskTurn(hw)
  BY StepTypes DEF HardwareStep, Hardware, TaskEnds, UnitReports, Steps, StepInv, TurnOK
<1>3. /\ HandOverOK /\ TurnOK /\ \A j \in Jobs : Unbegun(j)' => Unbegun(j)
  BY <1>1 DEF Steps, StepInv, Unbegun
<1>4. hwTask = ran[hw] + 1 /\ hwTask <= TaskCount[hw]
  BY <1>2, StepTypes DEF ChainTurn, TaskTurn
<1>5. ~Unbegun(hw)
  <2>1. Unbegun(hw) => \/ sched[hw] \in {"new", "queued"}
                       \/ runPc \in Starting /\ runJob = hw
    BY DEF Unbegun
  <2>2. sched[inFlight] \notin {"new", "queued"}
    BY <1>2 DEF Steps, IInv, FlightOK
  <2>3. runPc \in Starting => runJob # inFlight
    BY DEF Steps, IInv, RunnerOK
  <2> QED BY <1>2, <2>1, <2>2, <2>3
<1>6. CalmOK' BY <1>1 DEF CalmOK, Steps, StepInv
<1>7. DomainOK' BY <1>1 DEF Steps, StepInv, DomainOK
<1>8. CASE \E b \in Bits : UnitReports(b)
  <2>1. PICK b \in Bits : UnitReports(b) BY <1>8
  <2>2. /\ UNCHANGED <<hw, hwTask, ran>> /\ raw' = raw \cup {b}
        /\ b = "unit" \/ (b = "wake" /\ Chained(hw))
    BY <2>1 DEF UnitReports
  <2>3. HandOverOK' BY <1>1, <1>3, <2>2 DEF HandOverOK
  <2>4. Chained(hw) => ChainTurn(hw)'
    BY <1>1, <1>2, <2>2 DEF ChainTurn
  <2>5. ~Chained(hw) => TaskTurn(hw)'
    BY <1>1, <1>2, <2>2 DEF TaskTurn, WakeBits
  <2>6. TurnOK'
    BY <1>1, <1>2, <1>3, <2>2, <2>4, <2>5 DEF TurnOK, StartedOnce, Chained, ChainTurn,
      TaskTurn
  <2>7. OutcomeOK'
    BY <1>1, <2>2 DEF Steps, StepInv, OutcomeOK, DoneFenceMeansComplete
  <2> QED BY <1>6, <1>7, <2>2, <2>3, <2>6, <2>7 DEF StepInv
<1>9. CASE TaskEnds
  <2>1. /\ ran' = [ran EXCEPT ![hw] = IF hwTask = @ + 1 THEN hwTask ELSE @]
        /\ raw \subseteq raw'
        /\ \/ /\ Chained(hw) /\ hwTask < TaskCount[hw]
              /\ hw' = hw /\ hwTask' = hwTask + 1 /\ raw' = raw
           \/ /\ ~Chained(hw) \/ ~(hwTask < TaskCount[hw])
              /\ hw' = None
    BY <1>9 DEF TaskEnds
  <2>2. ran' = [ran EXCEPT ![hw] = @ + 1] /\ ran[hw] < TaskCount[hw]
    BY <1>2, <1>4, <2>1, StepTypes
  <2>3. HandOverOK' BY <1>1, <1>3, <2>1 DEF HandOverOK
  <2>4. Chained(hw) => ChainTurn(inFlight)'
    <3>1. CASE hw' = None
      <4>1. Chained(hw) => hwTask = TaskCount[hw] BY <1>2, <1>4, <2>1, <3>1, StepTypes
      <4> QED BY <1>1, <1>2, <1>4, <2>2, <3>1, <4>1, StepTypes DEF ChainTurn
    <3>2. CASE hw' # None
      BY <1>1, <1>2, <1>4, <2>1, <2>2, <3>2, StepTypes DEF ChainTurn
    <3> QED BY <3>1, <3>2
  <2>5. ~Chained(hw) => TaskTurn(inFlight)'
    BY <1>1, <1>2, <1>4, <2>1, <2>2, StepTypes DEF TaskTurn
  <2>6. \A j \in Jobs : Unbegun(j)' => starts'[j] = 0 /\ nextTask'[j] = 0 /\ ran'[j] = 0
    <3> TAKE j \in Jobs
    <3>1. Unbegun(j)' => j # hw /\ Unbegun(j) BY <1>3, <1>5
    <3>2. j # hw => ran'[j] = ran[j] BY <2>2, StepTypes
    <3> QED BY <1>1, <1>3, <3>1, <3>2 DEF TurnOK
  <2>7. TurnOK'
    BY <1>1, <1>2, <1>3, <2>1, <2>4, <2>5, <2>6 DEF TurnOK, StartedOnce, Chained
  <2>8. \A j \in Jobs : Complete(j) => Complete(j)'
    BY <1>2, <2>2, StepTypes
  <2>9. OutcomeOK'
    <3>1. doneFence \subseteq Jobs BY DEF Steps, IInv, TypeOK, FlowTypeOK
    <3> QED BY <1>1, <2>8, <3>1 DEF Steps, StepInv, OutcomeOK, DoneFenceMeansComplete
  <2> QED BY <1>2, <1>6, <1>7, <2>2, <2>3, <2>7, <2>9 DEF StepInv
<1> QED BY <1>8, <1>9 DEF HardwareStep, Hardware

-----------------------------------------------------------------------------
LEMMA InitTurn == ASSUME Init PROVE StepInv
<1>1. CalmOK BY DEF Init, CalmOK
<1>2. HandOverOK BY DEF Init, HwInit, HandOverOK
<1>3. StartedOnce
  <2> SUFFICES ASSUME NEW j \in Jobs
               PROVE  starts[j] <= IF Chained(j) THEN 1 ELSE TaskCount[j]
    BY DEF StartedOnce
  <2>1. TaskCount[j] \in Nat OBVIOUS
  <2>2. starts[j] = 0 BY DEF Init, HwInit
  <2> QED BY <2>1, <2>2
<1>4. TurnOK
  <2>1. \A j \in Jobs : starts[j] = 0 /\ nextTask[j] = 0 /\ ran[j] = 0
    BY DEF Init, HwInit
  <2> QED BY <1>3, <2>1 DEF Init, HwInit, TurnOK
<1>5. OutcomeOK BY DEF Init, SchedInit, OutcomeOK, DoneFenceMeansComplete
<1>6. DomainOK BY DEF Init, HwInit, DomainOK
<1> QED BY <1>1, <1>2, <1>4, <1>5, <1>6 DEF StepInv

(* The invariant is preserved, action by action.                            *)
LEMMA NextTurn == ASSUME Steps, [Next]_vars PROVE StepInv'
<1>1. CASE RunWorker
  BY <1>1, SchedulerTurn, RunResumeTurn, RunAttachTurn, RunSubmitTurn DEF RunWorker
<1>2. CASE (\E j \in Jobs : Submit(j)) \/ FreeWorker \/ UNCHANGED vars
  BY <1>2, SchedulerTurn DEF FreeWorker
<1>3. CASE HardIrq
  BY <1>3, IrqTurn DEF HardIrq
<1>4. CASE IrqThread
  BY <1>4, ThrBitsTurn, ThrStepTurn, ThrSignalTurn, ThrReleaseTurn DEF IrqThread
<1>5. CASE TimeoutWork
  BY <1>5, NoTimeoutWork
<1>6. CASE Suspend
  BY <1>6, SuspendTurn
<1>7. CASE HardwareStep
  BY <1>7, HardwareTurn
<1> QED BY <1>1, <1>2, <1>3, <1>4, <1>5, <1>6, <1>7 DEF Next

(* On a quiet core, whatever resumes, attaches and allocations fail, chains *)
(* and legacy jobs are stepped by one wake-up per task.                     *)
THEOREM StepInvariant == ASSUME Quiet PROVE Spec => []StepInv
<1>1. Init => StepInv BY InitTurn
<1>2. IInv /\ StepInv /\ [Next]_vars => StepInv'
  BY NextTurn DEF Steps
<1> QED BY <1>1, <1>2, Invariant, PTL DEF Spec

(* Each task is started once.                                               *)
THEOREM TasksStartedOnce == ASSUME Quiet PROVE Spec => []StartedOnce
<1>1. StepInv => StartedOnce BY DEF StepInv, TurnOK
<1> QED BY <1>1, StepInvariant, PTL

(* A done_fence signals only when the NPU has completed every task of the   *)
(* job, stepped or chained, in order.                                       *)
THEOREM FencesHonest == ASSUME Quiet PROVE Spec => []DoneFenceMeansComplete
<1>1. StepInv => DoneFenceMeansComplete BY DEF StepInv, OutcomeOK
<1> QED BY <1>1, StepInvariant, PTL

(* Every job's DMA goes through the page table of its own file.             *)
THEOREM OwnDomain == ASSUME Quiet PROVE Spec => []DmaThroughOwnDomain
<1>1. IInv /\ StepInv => DmaThroughOwnDomain
  <2> SUFFICES ASSUME IInv, StepInv, hw # None PROVE mmu = DomainOf[hw]
    BY DEF DmaThroughOwnDomain
  <2>1. hw = inFlight /\ thrPc # "release" BY DEF StepInv, TurnOK
  <2>2. powered
    BY <2>1 DEF IInv, PmOK, PoweredInUse, PmHolders, RunnerHolds, TypeOK, FlowTypeOK
  <2> QED BY <2>1, <2>2 DEF StepInv, DomainOK
<1> QED BY <1>1, Invariant, StepInvariant, PTL

(* The whole promise of NpuJobs is kept for any mixture of chains and       *)
(* legacy jobs: one at a time, tasks in order and none twice, success told  *)
(* of complete jobs only.                                                   *)
THEOREM QuietServed == ASSUME Quiet PROVE Spec => ServesJobs
<1>1. Init => Served!Init
  BY StatusIs DEF Init, HwInit, SchedInit, StatusAt, Served!Init
<1>2. IInv /\ StoppedOK /\ StepInv /\ [Next]_vars
        => [Served!Next]_(Served!jobVars)
  <2> SUFFICES ASSUME Steps, StoppedOK, [Next]_vars
               PROVE  Served!Next \/ UNCHANGED Served!jobVars
    BY DEF Steps
  <2>1. StepInv' BY NextTurn
  <2>2. Ordered!Next \/ UNCHANGED Ordered!jobVars BY OrderStep DEF Steps
  <2>3. CASE HardwareStep /\ ran' # ran
    <3>1. /\ hw = inFlight /\ inFlight # None /\ thrPc # "release"
          /\ ran[hw] < TaskCount[hw]
          /\ ran' = [ran EXCEPT ![hw] = @ + 1]
      BY <2>3, HardwareTurn
    <3>2. hw \in Jobs /\ Status[hw] = "served"
      BY <3>1, CurrentIsServed DEF Steps
    <3>3. UNCHANGED Status
      BY <2>3, StatusIs DEF HardwareStep
    <3> QED BY <3>1, <3>2, <3>3 DEF Served!Next, Served!Work
  <2>4. ran' = ran \/ HardwareStep BY OnlyHardwareWorks
  <2>5. \A j \in Jobs : finished'[j] = "ok" => ran'[j] = TaskCount[j]
    BY <2>1 DEF StepInv, OutcomeOK
  <2> QED BY <2>2, <2>3, <2>4, <2>5, ServedFromOrdered
<1> QED
  BY <1>1, <1>2, Invariant, StoppedAlways, StepInvariant, PTL
    DEF Spec, ServesJobs, Served!Spec
=============================================================================

--------------------------- MODULE RocketJobOrder ---------------------------
(***************************************************************************)
(* RocketJob keeps the part of the promise of NpuJobs that does not rest   *)
(* on honest completions, for every set of jobs and every fault: a job is  *)
(* served alone and has one outcome.  The refinement mapping is Status of  *)
(* RocketJobProps; each step of the driver maps to a step of NpuJobs or    *)
(* leaves the status of every job as it is.                                *)
(***************************************************************************)
EXTENDS RocketJobProofs

USE JobAssumption DEF hwVars, schedVars, pmVars, pcVars, runVars, irqVars,
  thrVars, tdrVars, lutVars, One, Nothing

(* The scheduler's restart has one job to cancel at most: drm_sched_stop()  *)
(* has unhooked the only one that was out, and dropped the others.          *)
LEMMA StoppedStep ==
  ASSUME IInv, StoppedOK, [Next]_vars
  PROVE  StoppedOK'
<1>1. ASSUME NEW j \in Jobs, Submit(j) \/ RunJob(j) \/ FreeJob(j) \/ TdrPick(j)
      PROVE  StoppedOK'
  <2>1. finished' = finished /\ (stopped' => stopped)
    BY <1>1 DEF Submit, Push, RunJob, Begin, FreeJob, FreeOldest, TdrPick,
      TakeOldest
  <2>2. stopped' => Pending' \subseteq Pending
    BY <1>1 DEF IInv, TypeOK, SchedTypeOK, Pending, Submit, Push, RunJob, Begin,
      FreeJob, FreeOldest, TdrPick, TakeOldest
  <2> QED BY <2>1, <2>2 DEF StoppedOK
<1>2. CASE RunNoFence \/ RunReturn
  BY <1>2 DEF IInv, RunnerOK, StoppedOK, Pending, RunNoFence, RunReturn, Hook,
    JobDone
<1>3. CASE ThrSignal
  <2>1. inFlight \in armed => ~stopped
    BY <1>3 DEF IInv, ArmedOK
  <2> QED BY <1>3, <2>1 DEF StoppedOK, Pending, ThrSignal, JobDone
<1>4. CASE TdrStop
  BY <1>4 DEF IInv, ArmedOK, StoppedOK, Pending, TdrStop, Stop
<1>5. CASE TdrStart
  BY <1>5 DEF StoppedOK, Pending, TdrStart, Restart
<1>6. ASSUME UNCHANGED schedVars PROVE StoppedOK'
  BY <1>6 DEF StoppedOK, Pending
<1>7. CASE RunResume \/ RunAttach \/ RunSubmit
  BY <1>7, <1>6 DEF RunResume, RunAttach, RunSubmit
<1>8. CASE HardIrq \/ Suspend \/ HardwareStep \/ UNCHANGED vars
  BY <1>8, <1>6 DEF HardIrq, IrqEnter, IrqAct, Suspend, HardwareStep, vars
<1>9. CASE ThrStart \/ ThrCheck \/ ThrAck \/ ThrQuiesce \/ ThrStep \/ ThrRelease
  BY <1>9, <1>6 DEF ThrStart, ThrCheck, ThrAck, ThrQuiesce, ThrStep, ThrRelease
<1>10. CASE TdrClear \/ TdrReset
  BY <1>10, <1>6 DEF TdrClear, TdrReset
<1> QED
  BY <1>1, <1>2, <1>3, <1>4, <1>5, <1>7, <1>8, <1>9, <1>10
    DEF Next, RunWorker, FreeWorker, IrqThread, TimeoutWork

LEMMA StoppedAlways == Spec => []StoppedOK
<1>1. Init => StoppedOK
  BY DEF Init, SchedInit, StoppedOK
<1>2. IInv /\ StoppedOK /\ [Next]_vars => StoppedOK'
  BY StoppedStep
<1> QED BY <1>1, <1>2, Invariant, PTL DEF Spec

-----------------------------------------------------------------------------
(* A job with the given place and outcome has this status.                  *)
StatusAt(place, outcome) ==
  CASE place = "new" -> "new"
    [] place = "queued" -> "waiting"
    [] outcome = "ok" -> "ok"
    [] outcome = "failed" -> "failed"
    [] OTHER -> "served"

LEMMA StatusIs ==
  /\ Status = [j \in Jobs |-> StatusAt(sched[j], finished[j])]
  /\ Status' = [j \in Jobs |-> StatusAt(sched[j], finished[j])']
BY DEF Status, StatusAt

(* One job changes its status and the others keep theirs.                   *)
LEMMA OneMoves ==
  ASSUME NEW j \in Jobs, NEW s,
         StatusAt(sched[j], finished[j])' = s,
         \A k \in Jobs \ {j} :
           StatusAt(sched[k], finished[k])' = StatusAt(sched[k], finished[k])
  PROVE  Ordered!To(j, s)
<1>1. Status' = [k \in Jobs |-> StatusAt(sched[k], finished[k])']
  BY StatusIs
<1>2. Status = [k \in Jobs |-> StatusAt(sched[k], finished[k])]
  BY StatusIs
<1> QED BY <1>1, <1>2 DEF Ordered!To

(* No job changes its status.                                               *)
LEMMA NoneMoves ==
  ASSUME \A k \in Jobs :
           StatusAt(sched[k], finished[k])' = StatusAt(sched[k], finished[k])
  PROVE  UNCHANGED Ordered!jobVars
<1>1. Status' = Status
  BY StatusIs
<1> QED BY <1>1 DEF Ordered!jobVars

(* Only an unfinished job can be signalled, and it becomes what it is told. *)
LEMMA OutcomeStep ==
  ASSUME IInv, NEW j \in Jobs, sched[j] \in {"pending", "timedout"},
         finished[j] = "no", JobDone(j, "ok") \/ JobDone(j, "failed")
  PROVE  Ordered!Next
<1>1. finished \in [Jobs -> {"no", "ok", "failed"}]
  BY DEF IInv, TypeOK, SchedTypeOK
<1>2. Status[j] = "served"
  BY StatusIs DEF StatusAt
<1>3. CASE JobDone(j, "ok")
  <2>1. Ordered!To(j, "ok")
    BY <1>1, <1>3, OneMoves DEF JobDone, StatusAt
  <2> QED BY <1>2, <2>1 DEF Ordered!Next, Ordered!Complete
<1>4. CASE JobDone(j, "failed")
  <2>1. Ordered!To(j, "failed")
    BY <1>1, <1>4, OneMoves DEF JobDone, StatusAt
  <2> QED BY <1>2, <2>1 DEF Ordered!Next, Ordered!Cancel
<1> QED BY <1>3, <1>4

-----------------------------------------------------------------------------
(* A worker begins a job only when the credit is back, that is when every   *)
(* job begun before has its outcome.                                        *)
LEMMA ServeStep ==
  ASSUME IInv, NEW j \in Jobs, RunJob(j)
  PROVE  Ordered!Next
<1>1. /\ finished' = finished /\ sched[j] = "queued"
      /\ sched' = [sched EXCEPT ![j] = "pending"]
  BY DEF RunJob, Begin
<1>2. runPc = "idle" /\ ~stopped /\ armed = {}
  BY DEF IInv, CreditOK, RunJob, Begin, CreditLimit
<1>3. \A k \in Jobs : Status[k] # "served"
  BY <1>2, StatusIs DEF IInv, SchedOK, UnfinishedOK, StatusAt, TypeOK, SchedTypeOK
<1>4. finished[j] = "no"
  BY <1>1 DEF IInv, SchedOK
<1>5. Ordered!To(j, "served")
  <2>1. sched \in [Jobs -> Places] BY DEF IInv, TypeOK, SchedTypeOK
  <2> QED BY <1>1, <1>4, <2>1, OneMoves DEF StatusAt
<1>6. Status[j] = "waiting"
  BY <1>1, <1>4, StatusIs DEF StatusAt
<1> QED BY <1>3, <1>5, <1>6 DEF Ordered!Next, Ordered!Serve

(* drm_sched_start() cancels what is still pending, which is one job or none. *)
LEMMA RestartStep ==
  ASSUME IInv, StoppedOK, TdrStart
  PROVE  Ordered!Next \/ UNCHANGED Ordered!jobVars
<1>1. /\ sched \in [Jobs -> Places] /\ bad \in Jobs /\ stopped
      /\ finished \in [Jobs -> {"no", "ok", "failed"}]
  BY DEF IInv, TypeOK, SchedTypeOK, SchedOK, TdrStart
<1>2. /\ finished' = [j \in Jobs |-> IF sched[j] = "pending" THEN "failed"
                                                            ELSE finished[j]]
      /\ sched' = [sched EXCEPT ![bad] = IF @ = "timedout" THEN "freed" ELSE @]
  BY DEF TdrStart, Restart
<1>3. CASE Pending = {}
  <2>1. finished' = finished BY <1>1, <1>2, <1>3 DEF Pending
  <2>2. UNCHANGED Ordered!jobVars
    BY <1>1, <1>2, <2>1, NoneMoves DEF StatusAt
  <2> QED BY <2>2
<1>4. CASE Pending # {}
  <2>1. PICK j \in Pending : TRUE BY <1>4
  <2>2. j \in Jobs /\ sched[j] = "pending" /\ finished[j] = "no"
    BY <1>1, <2>1 DEF Pending, StoppedOK
  <2>3. \A k \in Jobs \ {j} : sched[k] # "pending"
    BY <1>1, <2>1 DEF Pending, StoppedOK
  <2>4. \A k \in Jobs \ {j} :
          StatusAt(sched[k], finished[k])' = StatusAt(sched[k], finished[k])
    BY <1>1, <1>2, <2>3 DEF StatusAt
  <2>5. StatusAt(sched[j], finished[j])' = "failed"
    BY <1>1, <1>2, <2>2 DEF StatusAt
  <2>6. Ordered!To(j, "failed")
    BY <2>2, <2>4, <2>5, OneMoves
  <2>7. Status[j] = "served"
    BY <2>2, StatusIs DEF StatusAt
  <2> QED BY <2>2, <2>6, <2>7 DEF Ordered!Next, Ordered!Cancel
<1> QED BY <1>3, <1>4

(* Every other step of the scheduler leaves each job its status: a job is   *)
(* freed, taken off the list or put back, none of which a client sees.      *)
LEMMA KeepStep ==
  ASSUME IInv,
         \/ \E j \in Jobs : FreeJob(j) \/ TdrPick(j)
         \/ TdrStop \/ UNCHANGED schedVars
  PROVE  UNCHANGED Ordered!jobVars
<1>1. finished' = finished
  BY DEF FreeJob, FreeOldest, TdrPick, TakeOldest, TdrStop, Stop
<1>2. /\ sched \in [Jobs -> Places]
  BY DEF IInv, TypeOK, SchedTypeOK
<1>3. \A k \in Jobs : \/ sched'[k] = sched[k]
                      \/ /\ sched[k] \in {"pending", "timedout", "freed"}
                         /\ sched'[k] \in {"pending", "timedout", "freed"}
  BY <1>2 DEF FreeJob, FreeOldest, TdrPick, TakeOldest, Oldest, Pending, TdrStop,
    Stop, Places
<1> QED BY <1>1, <1>3, NoneMoves DEF StatusAt

(* What the refinement rests on, step by step.                              *)
LEMMA OrderStep ==
  ASSUME IInv, StoppedOK, [Next]_vars
  PROVE  Ordered!Next \/ UNCHANGED Ordered!jobVars
<1>1. CASE \E j \in Jobs : Submit(j)
  <2>1. PICK j \in Jobs : Submit(j) BY <1>1
  <2>2. /\ finished' = finished /\ sched[j] = "new"
        /\ sched' = [sched EXCEPT ![j] = "queued"]
    BY <2>1 DEF Submit, Push
  <2>3. sched \in [Jobs -> Places] /\ finished[j] = "no"
    BY <2>2 DEF IInv, TypeOK, SchedTypeOK, SchedOK
  <2>4. Ordered!To(j, "waiting") BY <2>2, <2>3, OneMoves DEF StatusAt
  <2>5. Status[j] = "new" BY <2>2, <2>3, StatusIs DEF StatusAt
  <2> QED BY <2>4, <2>5 DEF Ordered!Next, Ordered!Accept
<1>2. CASE \E j \in Jobs : RunJob(j)
  BY <1>2, ServeStep
<1>3. CASE RunNoFence
  BY <1>3, OutcomeStep DEF RunNoFence, IInv, RunnerOK
<1>4. CASE RunReturn
  <2>1. CASE runJob \in doneFence
    BY <1>4, <2>1, OutcomeStep DEF RunReturn, Hook, IInv, RunnerOK
  <2>2. CASE runJob \notin doneFence
    <3>1. sched' = sched /\ finished' = finished
      BY <1>4, <2>2 DEF RunReturn, Hook
    <3> QED BY <3>1, NoneMoves DEF StatusAt
  <2> QED BY <2>1, <2>2
<1>5. CASE ThrSignal
  <2>1. CASE inFlight \in armed
    BY <1>5, <2>1, OutcomeStep DEF ThrSignal, IInv, ArmedOK, TypeOK, SchedTypeOK
  <2>2. CASE inFlight \notin armed
    BY <1>5, <2>2, KeepStep DEF ThrSignal
  <2> QED BY <2>1, <2>2
<1>6. CASE TdrStart
  BY <1>6, RestartStep
<1>7. CASE FreeWorker \/ (\E j \in Jobs : TdrPick(j)) \/ TdrStop
  BY <1>7, KeepStep DEF FreeWorker
<1>8. CASE RunResume \/ RunAttach \/ RunSubmit
  BY <1>8, KeepStep DEF RunResume, RunAttach, RunSubmit
<1>9. CASE HardIrq \/ Suspend \/ HardwareStep \/ UNCHANGED vars
  BY <1>9, KeepStep DEF HardIrq, IrqEnter, IrqAct, Suspend, HardwareStep, vars
<1>10. CASE ThrStart \/ ThrCheck \/ ThrAck \/ ThrQuiesce \/ ThrStep \/ ThrRelease
  BY <1>10, KeepStep DEF ThrStart, ThrCheck, ThrAck, ThrQuiesce, ThrStep, ThrRelease
<1>11. CASE TdrClear \/ TdrReset
  BY <1>11, KeepStep DEF TdrClear, TdrReset
<1> QED
  BY <1>1, <1>2, <1>3, <1>4, <1>5, <1>6, <1>7, <1>8, <1>9, <1>10, <1>11
    DEF Next, RunWorker, IrqThread, TimeoutWork

(* For every set of jobs and under every fault, a job is served alone and   *)
(* has one outcome: neither a reset nor a late interrupt changes it.        *)
THEOREM OrdersJobsAlways == Spec => OrdersJobs
<1>1. Init => Ordered!Init
  BY StatusIs DEF Init, SchedInit, StatusAt, Ordered!Init
<1>2. IInv /\ StoppedOK /\ [Next]_vars => [Ordered!Next]_(Ordered!jobVars)
  BY OrderStep
<1> QED
  BY <1>1, <1>2, Invariant, StoppedAlways, PTL DEF Spec, OrdersJobs, Ordered!Spec
-----------------------------------------------------------------------------
(***************************************************************************)
(* From here to the whole promise of NpuJobs, for the modules that know    *)
(* when completions are honest.                                            *)
(***************************************************************************)

(* The current job has been begun and has no outcome yet.                   *)
LEMMA CurrentIsServed ==
  ASSUME IInv, StoppedOK, inFlight # None, thrPc # "release"
  PROVE  inFlight \in Jobs /\ Status[inFlight] = "served"
<1>1. inFlight \in Jobs
  BY DEF IInv, TypeOK, FlowTypeOK
<1>2. \/ inFlight \in armed
      \/ runPc = "return" /\ runJob = inFlight
      \/ tdrPc = "clear" /\ sched[inFlight] = "pending"
  BY DEF IInv, FlightOK
<1>3. finished[inFlight] = "no" /\ sched[inFlight] \in {"pending", "timedout"}
  BY <1>1, <1>2 DEF IInv, ArmedOK, RunnerOK, SchedOK, StoppedOK, Pending
<1> QED BY <1>1, <1>3, StatusIs DEF StatusAt

(* A step of the scheduler's clients' view is a step with the work counted  *)
(* in, when it tells success only of a job whose tasks have all run.        *)
LEMMA ServedFromOrdered ==
  ASSUME ran' = ran, Ordered!Next \/ UNCHANGED Ordered!jobVars,
         \A j \in Jobs : finished'[j] = "ok" => ran'[j] = TaskCount[j]
  PROVE  Served!Next \/ UNCHANGED Served!jobVars
<1>1. CASE UNCHANGED Ordered!jobVars
  BY <1>1 DEF Ordered!jobVars, Served!jobVars
<1>2. CASE Ordered!Next
  <2>1. PICK j \in Jobs :
          \/ Ordered!Accept(j) \/ Ordered!Serve(j) \/ Ordered!Work(j)
          \/ Ordered!Complete(j) \/ Ordered!Cancel(j)
    BY <1>2 DEF Ordered!Next
  <2>2. CASE Ordered!Accept(j)
    BY <2>2 DEF Ordered!Accept, Ordered!To, Served!Next, Served!Accept, Served!To
  <2>3. CASE Ordered!Serve(j)
    BY <2>3 DEF Ordered!Serve, Ordered!To, Served!Next, Served!Serve, Served!To
  <2>4. CASE Ordered!Work(j)
    BY <2>4 DEF Ordered!Work, Nothing
  <2>5. CASE Ordered!Complete(j)
    <3>1. Status'[j] = "ok"
      BY <2>5, StatusIs DEF Ordered!Complete, Ordered!To
    <3>2. finished'[j] = "ok"
      BY <3>1, StatusIs DEF StatusAt
    <3>3. ran[j] = TaskCount[j]
      BY <3>2
    <3> QED
      BY <2>5, <3>3 DEF Ordered!Complete, Ordered!To, Served!Next, Served!Complete,
        Served!To
  <2>6. CASE Ordered!Cancel(j)
    BY <2>6 DEF Ordered!Cancel, Ordered!To, Served!Next, Served!Cancel, Served!To
  <2> QED BY <2>1, <2>2, <2>3, <2>4, <2>5, <2>6
<1> QED BY <1>1, <1>2

(* The driver does no work itself: only the hardware's steps count tasks.   *)
LEMMA OnlyHardwareWorks ==
  ASSUME [Next]_vars PROVE ran' = ran \/ HardwareStep
<1>1. ASSUME HwSubmit(inFlight) \/ HwSubmit(runJob) PROVE ran' = ran
  BY <1>1 DEF HwSubmit, SubmitChain, SubmitTask
<1>2. CASE \E j \in Jobs : Submit(j) \/ RunJob(j) \/ FreeJob(j) \/ TdrPick(j)
  BY <1>2 DEF Submit, RunJob, FreeJob, TdrPick
<1>3. CASE RunNoFence \/ RunResume \/ RunAttach \/ RunSubmit \/ RunReturn
  BY <1>1, <1>3 DEF RunNoFence, RunResume, RunAttach, RunSubmit, RunReturn
<1>4. CASE HardIrq \/ UNCHANGED vars
  BY <1>4 DEF HardIrq, IrqEnter, IrqAct, vars
<1>5. CASE IrqThread
  BY <1>1, <1>5 DEF IrqThread, ThrStart, ThrCheck, ThrAck, ThrQuiesce, ThrStep,
    ThrSignal, ThrRelease
<1>6. CASE TdrStop \/ TdrClear \/ TdrReset \/ TdrStart \/ Suspend
  BY <1>6 DEF TdrStop, TdrClear, TdrReset, TdrStart, Suspend, ResetRearm, Wipe
<1> QED
  BY <1>2, <1>3, <1>4, <1>5, <1>6 DEF Next, RunWorker, FreeWorker, TimeoutWork
=============================================================================

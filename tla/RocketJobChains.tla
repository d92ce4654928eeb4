-------------------------- MODULE RocketJobChains --------------------------
(***************************************************************************)
(* What holds when every job is a chain, for every set of jobs and every   *)
(* fault: ChainInv of RocketJobInv, one lemma per action that disturbs it, *)
(* the invariants that follow, and that RocketJob then implements NpuJobs  *)
(* in full.                                                                *)
(***************************************************************************)
EXTENDS RocketJobOrder

USE JobAssumption DEF hwVars, schedVars, pmVars, pcVars, runVars, irqVars,
  thrVars, tdrVars, lutVars, One, Complete, Guarded

(* The hypotheses of every step: all jobs are chained, and the invariants.  *)
Chains == Jobs \subseteq ChainedJobs /\ IInv /\ StoppedOK /\ ChainInv

(* The driver starts the whole of chain j: the registers, the tables and    *)
(* the DMA are the chain's own afterwards.                                  *)
LEMMA StartOver ==
  ASSUME Chains, NEW j \in Jobs, HwSubmit(j), powered, Guarded(j),
         inFlight' = j, "done" \notin thrSt,
         thrPc \notin {"ack", "signal", "release"},
         thrPc' \notin {"ack", "signal", "release"},
         inFlight = j \/ (inFlight = None /\ tdrPc # "reset"),
         UNCHANGED <<schedVars, pmVars, thrSt, doneFence, attached, tdrPc>>,
         runPc' # "submit" \/ (UNCHANGED runPc /\ UNCHANGED runJob)
  PROVE  ChainInv'
<1>1. CASE resetPending
  <2>0. UNCHANGED <<hwVars, nextTask, lutVars>>
    BY <1>1 DEF HwSubmit
  <2>1. ChainRunOK'
    BY <2>0 DEF Chains, ChainInv, ChainRunOK
  <2>2. ChainDoneOK'
    BY <2>0 DEF Chains, ChainInv, ChainDoneOK
  <2>3. ChainDmaOK'
    BY <2>0 DEF Chains, ChainInv, ChainDmaOK
  <2> QED BY <2>1, <2>2, <2>3 DEF ChainInv
<1>2. CASE ~resetPending
  <2>0. SubmitChain(j)
    BY <1>2 DEF Chains, HwSubmit, Chained
  <2>1. /\ hw' = j /\ hwTask' = 1 /\ raw' = {} /\ nextTask' = nextTask
        /\ UNCHANGED <<mmu, autoGating, ran>>
    BY <2>0 DEF SubmitChain, Start, Chains, ChainInv, ChainRunOK, IInv, TypeOK,
      FlowTypeOK
  <2>2. ChainRunOK'
    BY <2>1 DEF Chains, ChainInv, ChainRunOK, IInv, TypeOK, HwTypeOK
  <2>3. ChainDoneOK'
    BY <2>1 DEF Chains, ChainInv, ChainDoneOK
  <2>4. LutOf[j] # None => hwLut' = LutOf[j]
    BY <2>0 DEF SubmitChain, LutLoad, Chains, ChainInv, ChainDmaOK
  <2>5. lutValid' => hwLut' = lutCache'
    BY <2>0 DEF SubmitChain, LutLoad, Chains, ChainInv, ChainDmaOK
  <2>6. ChainDmaOK'
    BY <2>1, <2>4, <2>5 DEF Chains, ChainInv, ChainDmaOK
  <2> QED BY <2>2, <2>3, <2>6 DEF ChainInv
<1> QED BY <1>1, <1>2

(* The run worker makes its job current: no other one is, and none runs.    *)
LEMMA RunSubmitChain ==
  ASSUME Chains, RunSubmit
  PROVE  ChainInv'
<1>1. /\ runJob \in Jobs /\ armed = {} /\ ~stopped
      /\ thrPc \notin {"ack", "signal", "release"} /\ runPc = "submit"
  BY DEF Chains, IInv, RunnerOK, RunSubmit, JobLockFree
<1>2. inFlight = None /\ tdrPc # "reset"
  BY <1>1 DEF Chains, IInv, FlightOK, SchedOK
<1>3. powered
  BY <1>1 DEF Chains, IInv, PmOK, PoweredInUse, PmHolders, RunnerHolds, TypeOK,
    FlowTypeOK
<1>4. Guarded(runJob)
  BY <1>1 DEF Chains, ChainInv, ChainDmaOK
<1>5. "done" \notin thrSt
  BY <1>1 DEF Chains, ChainInv, ChainDoneOK
<1>6. /\ HwSubmit(runJob) /\ inFlight' = runJob /\ runPc' # "submit"
      /\ UNCHANGED <<schedVars, pmVars, thrPc, thrSt, doneFence, attached, tdrPc>>
  BY DEF RunSubmit
<1> QED BY <1>1, <1>2, <1>3, <1>4, <1>5, <1>6, StartOver

(* A stray irq thread starts the current chain over, or finds none.  It     *)
(* never completes it: nextTask of a chain stays 0.                         *)
LEMMA ThrStepChain ==
  ASSUME Chains, ThrStep
  PROVE  ChainInv'
<1>1. /\ thrPc = "step" /\ thrPc' \in {"idle", "signal"}
      /\ UNCHANGED <<schedVars, pmVars, runPc, runJob, thrSt, doneFence, attached,
                     tdrPc, inFlight>>
  BY DEF ThrStep
<1>2. CASE inFlight = None
  <2>1. thrPc' = "idle" /\ UNCHANGED <<hwVars, nextTask, lutVars>>
    BY <1>2 DEF ThrStep
  <2>2. ChainRunOK' BY <1>1, <2>1 DEF Chains, ChainInv, ChainRunOK
  <2>3. ChainDoneOK' BY <1>1, <2>1 DEF Chains, ChainInv, ChainDoneOK
  <2>4. ChainDmaOK' BY <1>1, <2>1 DEF Chains, ChainInv, ChainDmaOK
  <2> QED BY <2>2, <2>3, <2>4 DEF ChainInv
<1>3. CASE inFlight # None
  <2>1. inFlight \in Jobs
    BY <1>3 DEF Chains, IInv, TypeOK, FlowTypeOK
  <2>2. MoreTasks(inFlight)
    BY <2>1 DEF MoreTasks, Chains, ChainInv, ChainRunOK
  <2>3. HwSubmit(inFlight) /\ thrPc' = "idle"
    BY <1>3, <2>2 DEF ThrStep
  <2>4. powered
    BY <1>3 DEF Chains, IInv, PmOK, PoweredInUse, PmHolders, RunnerHolds, TypeOK,
      FlowTypeOK
  <2>5. Guarded(inFlight) /\ "done" \notin thrSt
    BY <1>1, <1>3 DEF Chains, ChainInv, ChainDmaOK, ChainDoneOK
  <2> QED BY <1>1, <2>1, <2>3, <2>4, <2>5, StartOver
<1> QED BY <1>2, <1>3

(* A resume restores the MMU from what is attached and forgets the tables.  *)
LEMMA RunResumeChain ==
  ASSUME Chains, RunResume
  PROVE  ChainInv'
<1>1. /\ runPc' # "submit"
      /\ UNCHANGED <<hw, hwTask, raw, hwLut, autoGating, ran, schedVars, thrPc,
                     thrSt, tdrPc, inFlight, nextTask, doneFence, lutCache,
                     attached>>
  BY DEF RunResume
<1>2. \/ UNCHANGED <<powered, mmu, lutValid>>
      \/ powered' /\ ~powered /\ mmu' = attached /\ lutValid' = FALSE
  BY DEF RunResume, GetSync, GetSyncFailed, Chains, IInv, TypeOK, PmTypeOK
<1>3. ChainRunOK' BY <1>1 DEF Chains, ChainInv, ChainRunOK
<1>4. ChainDoneOK' BY <1>1 DEF Chains, ChainInv, ChainDoneOK
<1>5. ChainDmaOK' BY <1>1, <1>2 DEF Chains, ChainInv, ChainDmaOK
<1> QED BY <1>3, <1>4, <1>5 DEF ChainInv

(* A domain is attached only while no chain executes.                       *)
LEMMA RunAttachChain ==
  ASSUME Chains, RunAttach
  PROVE  ChainInv'
<1>1. /\ UNCHANGED <<hw, hwTask, raw, hwLut, ran, schedVars, pmVars, runJob, thrPc,
                     thrSt, tdrPc, inFlight, nextTask, doneFence, lutVars>>
      /\ runPc = "attach"
  BY DEF RunAttach
<1>2. \/ /\ runPc' = "submit" /\ autoGating' = TRUE
         /\ attached' = DomainOf[runJob]
         /\ (attached' = attached /\ mmu' = mmu) \/ mmu' = attached'
      \/ runPc' = "return" /\ attached' = None /\ mmu' = None
  BY DEF RunAttach, NeedsAttach
<1>3. armed = {} /\ ~stopped
  BY <1>1 DEF Chains, IInv, RunnerOK
<1>4. inFlight = None \/ thrPc = "release"
  BY <1>1, <1>3 DEF Chains, IInv, FlightOK, SchedOK
<1>5. hw = None
  BY <1>3, <1>4 DEF Chains, ChainInv, ChainRunOK, ChainDoneOK, IInv, SchedOK
<1>6. ChainRunOK' BY <1>1 DEF Chains, ChainInv, ChainRunOK
<1>7. ChainDoneOK' BY <1>1 DEF Chains, ChainInv, ChainDoneOK
<1>8. ChainDmaOK'
  <2>1. powered' => mmu' = attached' /\ (lutValid' => hwLut' = lutCache')
    BY <1>1, <1>2 DEF Chains, ChainInv, ChainDmaOK
  <2>2. runPc' = "submit" => Guarded(runJob)'
    BY <1>1, <1>2
  <2> QED BY <1>1, <1>4, <1>5, <2>1, <2>2 DEF ChainDmaOK
<1> QED BY <1>6, <1>7, <1>8 DEF ChainInv

-----------------------------------------------------------------------------
(* The hard handler clears bits and wakes the thread, no more.              *)
LEMMA IrqChain ==
  ASSUME Chains, IrqEnter \/ IrqAct
  PROVE  ChainInv'
<1>1. /\ raw' \subseteq raw
      /\ UNCHANGED <<hw, hwTask, hwLut, mmu, autoGating, ran, schedVars, powered,
                     runPc, runJob, thrPc, thrSt, tdrPc, inFlight, nextTask,
                     doneFence, lutVars, attached>>
  BY DEF IrqEnter, IrqAct, GetIfInUse, Put
<1>2. ChainRunOK' BY <1>1 DEF Chains, ChainInv, ChainRunOK
<1>3. ChainDoneOK' BY <1>1 DEF Chains, ChainInv, ChainDoneOK
<1>4. ChainDmaOK' BY <1>1 DEF Chains, ChainInv, ChainDmaOK
<1> QED BY <1>2, <1>3, <1>4 DEF ChainInv

(* The irq thread up to its second critical section: a completion bit it    *)
(* reads belongs to the current chain, and it clears what it has read.      *)
LEMMA ThrBitsChain ==
  ASSUME Chains, ThrStart \/ ThrCheck \/ ThrAck \/ ThrQuiesce
  PROVE  ChainInv'
<1>1. UNCHANGED <<hw, hwTask, hwLut, mmu, autoGating, ran, schedVars, powered, runPc,
                  runJob, tdrPc, inFlight, nextTask, doneFence, lutVars, attached>>
  BY DEF ThrStart, ThrCheck, ThrAck, ThrQuiesce
<1>2. ChainRunOK' BY <1>1 DEF Chains, ChainInv, ChainRunOK
<1>3. ChainDoneOK'
  <2>1. CASE ThrStart
    BY <1>1, <2>1 DEF ThrStart, Chains, ChainInv, ChainDoneOK
  <2>2. CASE ThrCheck
    <3>1. thrPc = "check" /\ raw' = raw BY <2>2 DEF ThrCheck
    <3>2. CASE CurrentIsChain
      <4>1. thrPc' = "ack" /\ thrSt' = raw BY <2>2, <3>2 DEF ThrCheck
      <4>2. inFlight # None BY <3>2 DEF CurrentIsChain
      <4> QED BY <1>1, <3>1, <4>1, <4>2 DEF Chains, ChainInv, ChainDoneOK
    <3>3. CASE ~CurrentIsChain
      <4>1. thrPc' = "quiesce" /\ thrSt' = thrSt BY <2>2, <3>3 DEF ThrCheck
      <4> QED BY <1>1, <3>1, <4>1 DEF Chains, ChainInv, ChainDoneOK
    <3> QED BY <3>2, <3>3
  <2>3. CASE ThrAck
    BY <1>1, <2>3 DEF ThrAck, AckedBits, LastTaskDone, Chains, ChainInv, ChainDoneOK
  <2>4. CASE ThrQuiesce
    BY <1>1, <2>4 DEF ThrQuiesce, Chains, ChainInv, ChainDoneOK
  <2> QED BY <2>1, <2>2, <2>3, <2>4
<1>4. ChainDmaOK'
  <2>1. thrPc # "release" /\ thrPc' # "release"
    BY DEF ThrStart, ThrCheck, ThrAck, ThrQuiesce
  <2> QED BY <1>1, <2>1 DEF Chains, ChainInv, ChainDmaOK
<1> QED BY <1>2, <1>3, <1>4 DEF ChainInv

(* The fence of a complete chain is signalled, and the chain let go.        *)
LEMMA ThrSignalChain ==
  ASSUME Chains, ThrSignal
  PROVE  ChainInv'
<1>1. /\ thrPc = "signal" /\ thrPc' = "release" /\ inFlight # None
      /\ Complete(inFlight) /\ hw = None /\ "done" \notin raw
      /\ tdrPc # "reset"
  BY DEF ThrSignal, Chains, ChainInv, ChainDoneOK, IInv, FlightOK
<1>2. /\ doneFence' = doneFence \cup {inFlight}
      /\ UNCHANGED <<hwVars, pmVars, runPc, runJob, thrSt, tdrPc, inFlight, nextTask,
                     lutVars, attached, sched>>
  BY DEF ThrSignal, JobDone
<1>3. finished' = finished \/ finished' = [finished EXCEPT ![inFlight] = "ok"]
  BY DEF ThrSignal, JobDone
<1>4. ChainRunOK' BY <1>1, <1>2 DEF Chains, ChainInv, ChainRunOK
<1>5. ChainDoneOK'
  BY <1>1, <1>2, <1>3 DEF Chains, ChainInv, ChainDoneOK, IInv, TypeOK, SchedTypeOK
<1>6. ChainDmaOK' BY <1>1, <1>2 DEF Chains, ChainInv, ChainDmaOK
<1> QED BY <1>4, <1>5, <1>6 DEF ChainInv

LEMMA ThrReleaseChain ==
  ASSUME Chains, ThrRelease
  PROVE  ChainInv'
<1>1. /\ thrPc = "release" /\ thrPc' = "idle" /\ inFlight' = None
      /\ UNCHANGED <<hwVars, schedVars, powered, runPc, runJob, thrSt, tdrPc,
                     nextTask, doneFence, lutVars, attached>>
  BY DEF ThrRelease, Put
<1>2. hw = None /\ "done" \notin raw /\ "done" \notin thrSt
  BY <1>1 DEF Chains, ChainInv, ChainDoneOK
<1>3. ChainRunOK' BY <1>1, <1>2 DEF Chains, ChainInv, ChainRunOK
<1>4. ChainDoneOK' BY <1>1, <1>2 DEF Chains, ChainInv, ChainDoneOK
<1>5. ChainDmaOK' BY <1>1, <1>2 DEF Chains, ChainInv, ChainDmaOK
<1> QED BY <1>3, <1>4, <1>5 DEF ChainInv

-----------------------------------------------------------------------------
(* The timeout work takes the chain away first and stops the NPU later.     *)
LEMMA TdrChain ==
  ASSUME Chains,
         (\E j \in Jobs : TdrPick(j)) \/ TdrStop \/ TdrStart
  PROVE  ChainInv'
<1>1. UNCHANGED <<hwVars, powered, runPc, runJob, thrPc, thrSt, inFlight, nextTask,
                  doneFence, lutVars, attached>>
  BY DEF TdrPick, TdrStop, TdrStart
<1>2. tdrPc # "reset"
  BY DEF TdrPick, TdrStop, TdrStart
<1>3. \A j \in Jobs : finished'[j] = "ok" => finished[j] = "ok"
  BY DEF TdrPick, TakeOldest, TdrStop, Stop, TdrStart, Restart
<1>4. ChainRunOK' BY <1>1, <1>2 DEF Chains, ChainInv, ChainRunOK
<1>5. ChainDoneOK' BY <1>1, <1>2, <1>3 DEF Chains, ChainInv, ChainDoneOK
<1>6. ChainDmaOK' BY <1>1 DEF Chains, ChainInv, ChainDmaOK
<1> QED BY <1>4, <1>5, <1>6 DEF ChainInv

LEMMA TdrClearChain ==
  ASSUME Chains, TdrClear
  PROVE  ChainInv'
<1>1. /\ tdrPc = "clear" /\ tdrPc' = "reset" /\ inFlight' = None
      /\ thrPc \notin {"ack", "signal", "release"}
      /\ UNCHANGED <<hwVars, schedVars, powered, runPc, runJob, thrPc, thrSt,
                     nextTask, doneFence, lutVars, attached>>
  BY DEF TdrClear, JobLockFree, PutNoidle
<1>2. stopped
  BY <1>1 DEF Chains, IInv, SchedOK
<1>3. armed = {} /\ runPc = "idle"
  BY <1>2 DEF Chains, IInv, ArmedOK, RunnerOK
<1>4. hw # None => inFlight = hw /\ sched[hw] = "pending"
  BY <1>1, <1>3 DEF Chains, ChainInv, ChainRunOK, IInv, FlightOK
<1>5. ChainRunOK' BY <1>1, <1>4 DEF Chains, ChainInv, ChainRunOK
<1>6. ChainDoneOK' BY <1>1 DEF Chains, ChainInv, ChainDoneOK
<1>7. ChainDmaOK' BY <1>1 DEF Chains, ChainInv, ChainDmaOK
<1> QED BY <1>5, <1>6, <1>7 DEF ChainInv

(* Nothing executes after a reset or a power gate, and no bit is left.      *)
LEMMA TdrResetChain ==
  ASSUME Chains, TdrReset
  PROVE  ChainInv'
<1>1. /\ Wipe /\ lutValid' = FALSE /\ tdrPc = "reset"
      /\ UNCHANGED <<mmu, schedVars, powered, runPc, runJob, thrPc, thrSt, inFlight,
                     nextTask, doneFence, lutCache, attached>>
  BY DEF TdrReset, ResetRearm
<1>2. hw' = None /\ raw' = {} /\ ran' = ran
  BY <1>1 DEF Wipe
<1>3. inFlight = None /\ runPc = "idle"
  BY <1>1 DEF Chains, IInv, FlightOK, SchedOK, RunnerOK
<1>4. ChainRunOK' BY <1>1, <1>2 DEF Chains, ChainInv, ChainRunOK
<1>5. ChainDoneOK' BY <1>1, <1>2 DEF Chains, ChainInv, ChainDoneOK
<1>6. ChainDmaOK' BY <1>1, <1>2, <1>3 DEF Chains, ChainInv, ChainDmaOK
<1> QED BY <1>4, <1>5, <1>6 DEF ChainInv

LEMMA SuspendChain ==
  ASSUME Chains, Suspend
  PROVE  ChainInv'
<1>1. /\ Wipe /\ ~powered'
      /\ UNCHANGED <<schedVars, runPc, runJob, thrPc, thrSt, tdrPc, inFlight,
                     nextTask, doneFence, lutVars, attached>>
  BY DEF Suspend, PowerOff
<1>2. hw' = None /\ raw' = {} /\ ran' = ran
  BY <1>1 DEF Wipe
<1>3. usage = 0
  BY DEF Suspend, PowerOff
<1>4. inFlight = None /\ runPc # "submit"
  BY <1>3 DEF Chains, IInv, PmOK, PmNeverShort, PmHolders, RunnerHolds
<1>5. ChainRunOK' BY <1>1, <1>2 DEF Chains, ChainInv, ChainRunOK
<1>6. ChainDoneOK' BY <1>1, <1>2 DEF Chains, ChainInv, ChainDoneOK
<1>7. ChainDmaOK' BY <1>1, <1>2, <1>4 DEF Chains, ChainInv, ChainDmaOK
<1> QED BY <1>5, <1>6, <1>7 DEF ChainInv

-----------------------------------------------------------------------------
(* The hardware: tasks end in order, and the last one alone raises "done".  *)
LEMMA HardwareChain ==
  ASSUME Chains, HardwareStep
  PROVE  /\ ChainInv'
         /\ ran' = ran \/ (/\ hw # None
                           /\ ran[hw] < TaskCount[hw]
                           /\ ran' = [ran EXCEPT ![hw] = @ + 1])
<1>1. UNCHANGED <<hwLut, mmu, autoGating, schedVars, powered, runPc, runJob, thrPc,
                  thrSt, tdrPc, inFlight, nextTask, doneFence, lutVars, attached>>
  BY DEF HardwareStep, Hardware, TaskEnds, UnitReports
<1>2. hw # None /\ hw \in Jobs /\ Chained(hw)
  BY DEF HardwareStep, Hardware, TaskEnds, UnitReports, Chains, Chained, IInv, TypeOK,
    HwTypeOK
<1>3. CASE \E b \in Bits : UnitReports(b)
  <2>1. /\ UNCHANGED <<hw, hwTask, ran>>
        /\ "done" \in raw' => "done" \in raw
    BY <1>3 DEF UnitReports
  <2>2. ChainRunOK' BY <1>1, <2>1 DEF Chains, ChainInv, ChainRunOK
  <2>3. ChainDoneOK' BY <1>1, <2>1 DEF Chains, ChainInv, ChainDoneOK
  <2>4. ChainDmaOK' BY <1>1, <2>1 DEF Chains, ChainInv, ChainDmaOK
  <2> QED BY <2>1, <2>2, <2>3, <2>4 DEF ChainInv
<1>4. CASE TaskEnds
  <2>1. /\ ran' = [ran EXCEPT ![hw] = IF hwTask = @ + 1 THEN hwTask ELSE @]
        /\ \/ /\ hwTask < TaskCount[hw]
              /\ hw' = hw /\ hwTask' = hwTask + 1 /\ raw' = raw
           \/ /\ ~(hwTask < TaskCount[hw])
              /\ hw' = None /\ raw' = raw \cup {"done"}
    BY <1>2, <1>4 DEF TaskEnds
  <2>2. /\ ran \in [Jobs -> Nat] /\ TaskCount[hw] \in Nat /\ hwTask \in Nat
        /\ hwTask \in 1 .. TaskCount[hw] /\ hwTask <= ran[hw] + 1
        /\ ran[hw] <= TaskCount[hw]
    BY <1>2 DEF Chains, ChainInv, ChainRunOK, IInv, TypeOK, HwTypeOK
  <2>3. /\ ran'[hw] \in Nat /\ hwTask <= ran'[hw] /\ ran'[hw] <= TaskCount[hw]
        /\ \A j \in Jobs \ {hw} : ran'[j] = ran[j]
        /\ ran[hw] = TaskCount[hw] => ran'[hw] = ran[hw]
    BY <1>2, <2>1, <2>2
  <2>4. ran' = ran \/ (/\ ran[hw] < TaskCount[hw]
                       /\ ran' = [ran EXCEPT ![hw] = @ + 1])
    <3>1. CASE hwTask = ran[hw] + 1 BY <1>2, <2>1, <2>2, <3>1
    <3>2. CASE hwTask # ran[hw] + 1 BY <1>2, <2>1, <2>2, <3>2
    <3> QED BY <3>1, <3>2
  <2>5. ChainRunOK'
    BY <1>1, <1>2, <2>1, <2>2, <2>3 DEF Chains, ChainInv, ChainRunOK
  <2>6. \A j \in Jobs : Complete(j) => Complete(j)'
    BY <1>2, <2>3
  <2>7. hw' = None => ran'[hw] = TaskCount[hw]
    <3>1. hw' = None => ~(hwTask < TaskCount[hw])
      BY <1>2, <2>1
    <3> QED BY <2>2, <2>3, <3>1
  <2>8. thrPc \notin {"signal", "release"} /\ "done" \notin thrSt /\ "done" \notin raw
    BY <1>2 DEF Chains, ChainInv, ChainDoneOK
  <2>9. inFlight = hw \/ (inFlight = None /\ tdrPc = "reset")
    BY <1>2 DEF Chains, ChainInv, ChainRunOK, IInv, FlightOK
  <2>10. doneFence \subseteq Jobs
    BY DEF Chains, IInv, TypeOK, FlowTypeOK
  <2>11. ChainDoneOK'
    <3>1. "done" \in raw' => hw' = None
      BY <2>1, <2>8
    <3>2. hw' = None => IF inFlight = None THEN tdrPc = "reset"
                                          ELSE ran'[inFlight] = TaskCount[inFlight]
      BY <1>2, <2>7, <2>9
    <3>3. \A j \in Jobs : finished[j] = "ok" => Complete(j)'
      BY <2>6 DEF Chains, ChainInv, ChainDoneOK
    <3>4. \A j \in doneFence : Complete(j)'
      BY <2>6, <2>10 DEF Chains, ChainInv, ChainDoneOK
    <3> QED BY <1>1, <2>8, <3>1, <3>2, <3>3, <3>4 DEF ChainDoneOK
  <2>12. ChainDmaOK'
    BY <1>1, <2>1 DEF Chains, ChainInv, ChainDmaOK
  <2> QED BY <1>2, <2>4, <2>5, <2>11, <2>12 DEF ChainInv
<1> QED BY <1>3, <1>4 DEF HardwareStep, Hardware

-----------------------------------------------------------------------------
(* The scheduler's own steps: nothing about the core changes, and only a    *)
(* job whose fence has signalled is called successful.                      *)
LEMMA SchedulerChain ==
  ASSUME Chains,
         \/ \E j \in Jobs : Submit(j) \/ RunJob(j) \/ FreeJob(j)
         \/ RunNoFence \/ RunReturn \/ UNCHANGED vars
  PROVE  ChainInv'
<1>1. /\ UNCHANGED <<hwVars, powered, thrPc, thrSt, tdrPc, inFlight, nextTask,
                     doneFence, lutVars, attached>>
      /\ runPc' # "submit" \/ UNCHANGED <<runPc, runJob>>
  BY DEF Submit, RunJob, FreeJob, RunNoFence, RunReturn, vars
<1>2. tdrPc = "reset" => \A j \in Jobs : sched[j] = "pending" => sched'[j] = "pending"
  BY DEF Submit, Push, RunJob, Begin, FreeJob, FreeOldest, RunNoFence, RunReturn, Hook,
    JobDone, vars, Chains, IInv, SchedOK, TypeOK, SchedTypeOK
<1>3. hw \in Jobs \cup {None}
  BY DEF Chains, IInv, TypeOK, HwTypeOK
<1>4. \A j \in Jobs : finished'[j] = "ok" => Complete(j)
  <2>1. CASE RunReturn
    BY <2>1 DEF RunReturn, Hook, JobDone, Chains, ChainInv, ChainDoneOK, IInv, TypeOK,
      SchedTypeOK
  <2>2. CASE RunNoFence
    BY <2>2 DEF RunNoFence, JobDone, Chains, ChainInv, ChainDoneOK, IInv, TypeOK,
      SchedTypeOK
  <2>3. CASE finished' = finished
    BY <2>3 DEF Chains, ChainInv, ChainDoneOK
  <2> QED
    BY <2>1, <2>2, <2>3 DEF Submit, Push, RunJob, Begin, FreeJob, FreeOldest, vars
<1>5. ChainRunOK' BY <1>1, <1>2, <1>3 DEF Chains, ChainInv, ChainRunOK
<1>6. ChainDoneOK' BY <1>1, <1>4 DEF Chains, ChainInv, ChainDoneOK
<1>7. ChainDmaOK' BY <1>1 DEF Chains, ChainInv, ChainDmaOK
<1> QED BY <1>5, <1>6, <1>7 DEF ChainInv

LEMMA InitChain == ASSUME Init PROVE ChainInv
<1>1. \A j \in Jobs : nextTask[j] = 0 /\ ran[j] <= TaskCount[j]
  <2>1. \A j \in Jobs : TaskCount[j] \in Nat
    OBVIOUS
  <2>2. \A j \in Jobs : nextTask[j] = 0 /\ ran[j] = 0
    BY DEF Init, HwInit
  <2> TAKE j \in Jobs
  <2>3. TaskCount[j] \in Nat /\ ran[j] = 0 /\ nextTask[j] = 0 BY <2>1, <2>2
  <2> QED BY <2>3
<1>2. ChainRunOK BY <1>1 DEF Init, HwInit, ChainRunOK
<1>3. ChainDoneOK BY DEF Init, HwInit, SchedInit, ChainDoneOK
<1>4. ChainDmaOK BY DEF Init, HwInit, PmInit, ChainDmaOK
<1> QED BY <1>2, <1>3, <1>4 DEF ChainInv

(* The invariant is preserved, action by action.                            *)
LEMMA NextChain == ASSUME Chains, [Next]_vars PROVE ChainInv'
<1>1. CASE RunWorker
  BY <1>1, SchedulerChain, RunResumeChain, RunAttachChain, RunSubmitChain
    DEF RunWorker
<1>2. CASE (\E j \in Jobs : Submit(j)) \/ FreeWorker \/ UNCHANGED vars
  BY <1>2, SchedulerChain DEF FreeWorker
<1>3. CASE HardIrq
  BY <1>3, IrqChain DEF HardIrq
<1>4. CASE IrqThread
  BY <1>4, ThrBitsChain, ThrStepChain, ThrSignalChain, ThrReleaseChain DEF IrqThread
<1>5. CASE TimeoutWork
  BY <1>5, TdrChain, TdrClearChain, TdrResetChain DEF TimeoutWork
<1>6. CASE Suspend
  BY <1>6, SuspendChain
<1>7. CASE HardwareStep
  BY <1>7, HardwareChain
<1> QED BY <1>1, <1>2, <1>3, <1>4, <1>5, <1>6, <1>7 DEF Next

(* With chained jobs only, the invariants of this module hold under every   *)
(* fault: stray wake-ups, open masks, failing resumes and resets.           *)
THEOREM ChainInvariant ==
  ASSUME Jobs \subseteq ChainedJobs PROVE Spec => []ChainInv
<1>1. Init => ChainInv BY InitChain
<1>2. IInv /\ StoppedOK /\ ChainInv /\ [Next]_vars => ChainInv'
  BY NextChain DEF Chains
<1> QED BY <1>1, <1>2, Invariant, StoppedAlways, PTL DEF Spec

(* A chain's done_fence signals only when the NPU has completed every task, *)
(* in order.                                                                *)
THEOREM ChainsComplete ==
  ASSUME Jobs \subseteq ChainedJobs PROVE Spec => []DoneFenceMeansComplete
<1>1. ChainInv => DoneFenceMeansComplete
  BY DEF ChainInv, ChainDoneOK, DoneFenceMeansComplete
<1> QED BY <1>1, ChainInvariant, PTL

(* A chain's DMA goes through the page table of its own file ...            *)
THEOREM ChainsOwnDomain ==
  ASSUME Jobs \subseteq ChainedJobs PROVE Spec => []DmaThroughOwnDomain
<1>1. ChainInv => DmaThroughOwnDomain
  BY DEF ChainInv, ChainDmaOK, DmaThroughOwnDomain
<1> QED BY <1>1, ChainInvariant, PTL

(* ... with the MMU's AUTO_GATING workaround in force.                      *)
THEOREM ChainsGated ==
  ASSUME Jobs \subseteq ChainedJobs PROVE Spec => []AutoGatingSet
<1>1. ChainInv => AutoGatingSet
  BY DEF ChainInv, ChainDmaOK, AutoGatingSet
<1> QED BY <1>1, ChainInvariant, PTL

-----------------------------------------------------------------------------
(* An executing chain has been begun and has no outcome yet.                *)
LEMMA RunningIsServed ==
  ASSUME Chains, hw # None
  PROVE  hw \in Jobs /\ Status[hw] = "served"
<1>1. hw \in Jobs
  BY DEF Chains, IInv, TypeOK, HwTypeOK
<1>2. thrPc # "release"
  BY DEF Chains, ChainInv, ChainDoneOK
<1>3. CASE tdrPc = "reset" /\ sched[hw] = "pending"
  <2>1. finished[hw] = "no"
    BY <1>1, <1>3 DEF Chains, IInv, SchedOK, StoppedOK, Pending
  <2> QED BY <1>1, <1>3, <2>1, StatusIs DEF StatusAt
<1>4. CASE inFlight = hw
  BY <1>2, <1>4, CurrentIsServed DEF Chains
<1> QED BY <1>3, <1>4 DEF Chains, ChainInv, ChainRunOK

(* With chained jobs only, the driver keeps the whole promise of NpuJobs,   *)
(* under every fault: one job at a time, its tasks in order and none twice  *)
(* counted, success told of complete jobs only, one outcome each.           *)
THEOREM ChainsServed ==
  ASSUME Jobs \subseteq ChainedJobs PROVE Spec => ServesJobs
<1>1. Init => Served!Init
  BY StatusIs DEF Init, HwInit, SchedInit, StatusAt, Served!Init
<1>2. IInv /\ StoppedOK /\ ChainInv /\ [Next]_vars
        => [Served!Next]_(Served!jobVars)
  <2> SUFFICES ASSUME Chains, [Next]_vars
               PROVE  Served!Next \/ UNCHANGED Served!jobVars
    BY DEF Chains
  <2>1. ChainInv' BY NextChain
  <2>2. Ordered!Next \/ UNCHANGED Ordered!jobVars BY OrderStep DEF Chains
  <2>3. CASE HardwareStep /\ ran' # ran
    <3>1. /\ hw # None /\ ran[hw] < TaskCount[hw]
          /\ ran' = [ran EXCEPT ![hw] = @ + 1]
      BY <2>3, HardwareChain
    <3>2. hw \in Jobs /\ Status[hw] = "served"
      BY <3>1, RunningIsServed
    <3>3. UNCHANGED Status
      BY <2>3, StatusIs DEF HardwareStep
    <3> QED BY <3>1, <3>2, <3>3 DEF Served!Next, Served!Work
  <2>4. ran' = ran \/ HardwareStep BY OnlyHardwareWorks
  <2>5. \A j \in Jobs : finished'[j] = "ok" => ran'[j] = TaskCount[j]
    BY <2>1 DEF ChainInv, ChainDoneOK
  <2> QED BY <2>2, <2>3, <2>4, <2>5, ServedFromOrdered
<1> QED
  BY <1>1, <1>2, Invariant, StoppedAlways, ChainInvariant, PTL
    DEF Spec, ServesJobs, Served!Spec
=============================================================================

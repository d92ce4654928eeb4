-------------------------- MODULE RocketCoresProofs --------------------------
(***************************************************************************)
(* Proofs about RocketCores, for any finite set of devices, any files and  *)
(* any number of tries: whatever stage of whatever probe fails, the list   *)
(* of cores, the DRM device and what each core holds stay together, while  *)
(* files open and close and jobs and interrupts run.                       *)
(***************************************************************************)
EXTENDS RocketCoresInv, FiniteSetTheorems, TLAPS

USE CoresAssumption DEF devVars, coreVars, powVars, flowVars, drvVars, CoresTypeOK

-----------------------------------------------------------------------------
(* There is an element of cores[] for each device bound and the one that   *)
(* is probed, as no device is bound twice.                                 *)
LEMMA EnoughSlots ==
  ASSUME CoresTypeOK, FlowOK
  PROVE  /\ Cardinality(Devs) \in Nat
         /\ Len(bound) \in Nat /\ Len(bound) <= Cardinality(Devs)
         /\ cur \in Devs \ Bound => Len(bound) + 1 <= Cardinality(Devs)
<1>1. Cardinality(Devs) \in Nat
  BY FS_CardinalityType
<1>2. bound \in Seq(Devs) /\ Len(bound) \in Nat
  BY DEF FlowTypes, DrvTypes
<1>3. ASSUME NEW s \in Seq(Devs), \A i, k \in DOMAIN s : s[i] = s[k] => i = k
      PROVE  Len(s) <= Cardinality(Devs)
  <2>1. Len(s) \in Nat /\ s \in Injection(1 .. Len(s), Devs)
    BY <1>3 DEF Injection, IsInjective
  <2>2. Cardinality(1 .. Len(s)) <= Cardinality(Devs)
    BY <2>1, FS_Injection
  <2>3. Cardinality(1 .. Len(s)) = Len(s)
    BY <2>1, FS_Interval
  <2> QED BY <2>2, <2>3
<1>4. Len(bound) <= Cardinality(Devs)
  BY <1>2, <1>3 DEF FlowOK
<1>5. ASSUME cur \in Devs \ Bound
      PROVE  Len(bound) + 1 <= Cardinality(Devs)
  <2> DEFINE s == Append(bound, cur)
  <2>1. s \in Seq(Devs) /\ Len(s) = Len(bound) + 1
    BY <1>2, <1>5
  <2>2. \A i, k \in DOMAIN s : s[i] = s[k] => i = k
    BY <1>2, <1>5 DEF FlowOK, Bound
  <2> QED BY <2>1, <2>2, <1>3
<1> QED BY <1>1, <1>2, <1>4, <1>5

LEMMA HereIsSlot ==
  ASSUME CoresTypeOK, FlowOK, pc \notin {"idle", "slot", "oops"}
  PROVE  Here \in Slots /\ core = Here /\ dev[Here] = cur /\ cur \in Devs
<1>1. CASE cur \in Bound
  <2>1. Len(bound) > 0
    BY <1>1 DEF Bound, DrvTypes
  <2> QED BY <1>1, <2>1, EnoughSlots DEF Slots, FlowOK, Here
<1>2. CASE cur \notin Bound
  BY <1>2, EnoughSlots DEF Slots, FlowOK, Here
<1> QED BY <1>1, <1>2

(* What does not change stays as it must be.                               *)
LEMMA TypesKept ==
  /\ DevTypes /\ UNCHANGED devVars => DevTypes'
  /\ CoreTypes /\ UNCHANGED coreVars => CoreTypes'
  /\ PowTypes /\ UNCHANGED powVars => PowTypes'
  /\ FlowTypes /\ UNCHANGED flowVars => FlowTypes'
  /\ DrvTypes /\ UNCHANGED drvVars => DrvTypes'
  /\ FileTypes /\ UNCHANGED <<entity, oops>> => FileTypes'
<1>1. UNCHANGED devVars => DevTypes' = DevTypes
  BY DEF DevTypes
<1>2. UNCHANGED coreVars => CoreTypes' = CoreTypes
  BY DEF CoreTypes
<1>3. UNCHANGED powVars => PowTypes' = PowTypes
  BY DEF PowTypes
<1>4. UNCHANGED flowVars => FlowTypes' = FlowTypes
  BY DEF FlowTypes
<1>5. UNCHANGED drvVars => DrvTypes' = DrvTypes
  BY DEF DrvTypes
<1>6. UNCHANGED <<entity, oops>> => FileTypes' = FileTypes
  BY DEF FileTypes
<1> QED BY <1>1, <1>2, <1>3, <1>4, <1>5, <1>6

LEMMA Kept ==
  /\ FlowOK /\ UNCHANGED <<numCores, dev, flowVars, bound, unloading>> => FlowOK'
  /\ DeviceOK /\ UNCHANGED <<rdev, registered, pc, bound>> => DeviceOK'
  /\ PowerOK /\ UNCHANGED <<supply, pm, failed, pc, cur, bound>> => PowerOK'
  /\ PartsOK /\ UNCHANGED <<sched, parts, pc, cur, bound>> => PartsOK'
  /\ UsersOK /\ UNCHANGED <<attached, running, entity, pm, dev, handling, pc, cur,
                            bound, unloading, hasty, oops>> => UsersOK'
<1>1. UNCHANGED <<numCores, dev, flowVars, bound, unloading>> => FlowOK' = FlowOK
  BY DEF FlowOK, Bound, Here, NextToUnbind
<1>2. UNCHANGED <<rdev, registered, pc, bound>> => DeviceOK' = DeviceOK
  BY DEF DeviceOK
<1>3. UNCHANGED <<supply, pm, failed, pc, cur, bound>> => PowerOK' = PowerOK
  BY DEF PowerOK, PmOf, Supplied, Bound
<1>4. UNCHANGED <<sched, parts, pc, cur, bound>> => PartsOK' = PartsOK
  BY DEF PartsOK, Ready, Whole, InProgress, Here, Bound
<1>5. UNCHANGED <<attached, running, entity, pm, dev, handling, pc, cur,
                  bound, unloading, hasty, oops>> => UsersOK' = UsersOK
  BY DEF UsersOK, RunningOK, HandlingOK, UnloadOK, Ready, InProgress, Here, Bound, TornDown,
         Caught
<1> QED BY <1>1, <1>2, <1>3, <1>4, <1>5

LEMMA InitInv == Init => CoresInv
<1> SUFFICES ASSUME Init PROVE CoresInv
  OBVIOUS
<1>1. Cardinality(Devs) \in Nat
  BY FS_CardinalityType
<1>2. CoresTypeOK
  <2>1. rdev \in {"null", "live", "error"} /\ registered \in BOOLEAN
    BY DEF Init
  <2>2. numCores \in 0 .. Cardinality(Devs) /\ dev \in [Slots -> Devs \cup {None}]
    BY <1>1 DEF Init
  <2>3. CoreTypes
    BY DEF Init, CoreTypes
  <2>4. PowTypes /\ FlowTypes /\ FileTypes
    BY DEF Init, PowTypes, FlowTypes, FileTypes
  <2>5. bound \in Seq(Devs) /\ tries \in [Devs -> 0 .. MaxTries]
    BY DEF Init
  <2>6. unloading \in BOOLEAN /\ hasty \in BOOLEAN /\ failed \subseteq Devs
    BY DEF Init
  <2> QED BY <2>1, <2>2, <2>3, <2>4, <2>5, <2>6 DEF DevTypes, DrvTypes
<1>3. FlowOK /\ DeviceOK
  BY DEF Init, FlowOK, DeviceOK, BeforeCount, Bound, Fini
<1>4. PowerOK /\ PartsOK
  BY DEF Init, PowerOK, PmOf, Supplied, PartsOK, Ready, Whole, InProgress, BeforeCount, Bound, Slots
<1>5. UsersOK
  BY DEF Init, UsersOK, RunningOK, HandlingOK, UnloadOK
<1> QED BY <1>2, <1>3, <1>4, <1>5 DEF CoresInv

-----------------------------------------------------------------------------
(* A core whose scheduler is ready is counted, and is that of a device.    *)
LEMMA ReadyCore ==
  ASSUME CoresTypeOK, FlowOK, NEW s \in Slots, Ready(s)
  PROVE  /\ s < numCores /\ dev[s] \in Devs
         /\ InProgress(s) => dev[s] = cur
         /\ ~InProgress(s) => dev[s] \in Bound /\ dev[s] # cur
<1>1. s \in Nat /\ Len(bound) \in Nat /\ bound \in Seq(Devs)
  BY EnoughSlots DEF Slots, DrvTypes
<1>2. CASE InProgress(s)
  <2>1. Here = IF cur \in Bound THEN Len(bound) - 1 ELSE Len(bound)
    BY DEF Here
  <2> QED BY <1>1, <1>2, <2>1, HereIsSlot DEF InProgress, FlowOK, BeforeCount
<1>3. CASE ~InProgress(s)
  <2>1. s < Len(bound)
    BY <1>3 DEF Ready
  <2>2. s + 1 \in DOMAIN bound /\ (s + 1) - 1 = s
    BY <1>1, <2>1
  <2>3. dev[s] = bound[s + 1]
    BY <2>2 DEF FlowOK
  <2>4. ASSUME dev[s] = cur PROVE FALSE
    <3>1. cur \in Bound
      BY <2>2, <2>3, <2>4 DEF Bound
    <3>2. s = Here
      BY <1>1, <2>2, <2>3, <2>4, <3>1 DEF Here, FlowOK, NextToUnbind
    <3> QED BY <1>3, <3>1, <3>2 DEF InProgress, FlowOK, BeforeCount, Fini
  <2>5. s < numCores
    BY <1>1, <2>1 DEF FlowOK
  <2> QED BY <1>1, <1>3, <2>2, <2>3, <2>4, <2>5 DEF Bound
<1> QED BY <1>2, <1>3

(* What a step must leave alone for the users of a core: those who are not *)
(* caught keep their core, and whoever is caught stays so.                 *)
LEMMA UsersKept ==
  ASSUME Orderly, CoresInv, UNCHANGED <<unloading, hasty>>,
         "run" \in oops' => "run" \in oops,
         \A f \in Files : unloading /\ entity[f] = None => entity'[f] = None,
         \A d \in Devs : unloading /\ pm'[d] = "active" => pm[d] = "active",
         \A d : Caught(d) => Caught(d)',
         \A d \in handling' :
           \/ Caught(d)'
           \/ d \in handling /\ (pm[d] = "active" => pm'[d] = "active"),
         \A s \in Slots : running'[s] # None /\ running'[s] = running[s] =>
           \/ Caught(dev[s])'
           \/ /\ dev'[s] = dev[s] /\ attached'[s] = attached[s] /\ (Ready(s) => Ready(s)')
              /\ pm[dev[s]] = "active" => pm'[dev[s]] = "active",
         \A s \in Slots : running'[s] \in {running[s], None}
  PROVE  UsersOK'
<1>1. RunningOK'
  <2> SUFFICES ASSUME NEW s \in Slots, running'[s] # None
               PROVE  \/ Caught(dev[s])'
                      \/ attached'[s] = running'[s] /\ Ready(s)' /\ pm'[dev'[s]] = "active"
    BY DEF RunningOK
  <2>1. running'[s] = running[s]
    OBVIOUS
  <2>2. Caught(dev[s]) \/ (attached[s] = running[s] /\ Ready(s) /\ pm[dev[s]] = "active")
    BY <2>1 DEF CoresInv, UsersOK, RunningOK
  <2>3. CASE Caught(dev[s])'
    BY <2>3
  <2>4. CASE /\ dev'[s] = dev[s] /\ attached'[s] = attached[s] /\ (Ready(s) => Ready(s)')
             /\ pm[dev[s]] = "active" => pm'[dev[s]] = "active"
    BY <2>1, <2>2, <2>4
  <2> QED BY <2>1, <2>3, <2>4
<1>2. HandlingOK'
  <2> SUFFICES ASSUME NEW d \in handling'
               PROVE  pm'[d] = "active" \/ Caught(d)'
    BY DEF HandlingOK
  <2>1. d \in handling => pm[d] = "active" \/ Caught(d)
    BY DEF CoresInv, UsersOK, HandlingOK
  <2> QED BY <2>1
<1>3. UnloadOK'
  <2>1. UnloadOK
    BY DEF CoresInv, UsersOK
  <2> QED BY <2>1 DEF UnloadOK
<1> QED BY <1>1, <1>2, <1>3 DEF CoresInv, UsersOK

-----------------------------------------------------------------------------
(* Files.                                                                  *)
LEMMA OpenStep ==
  ASSUME Orderly, CoresInv, NEW f \in Files, Open(f)
  PROVE  CoresInv'
<1>1. CoresTypeOK'
  <2>1. FileTypes'
    BY DEF CoresInv, FileTypes, Open
  <2> QED BY <2>1, TypesKept DEF CoresInv, Open
<1>2. FlowOK' /\ DeviceOK' /\ PowerOK' /\ PartsOK'
  BY Kept DEF CoresInv, Open
<1>3. UsersOK'
  <2>1. \A s \in Slots : Ready(s)' <=> Ready(s)
    BY DEF Ready, InProgress, Here, Bound, Open
  <2>2. \A d : Caught(d)' <=> Caught(d)
    BY DEF Caught, TornDown, Bound, Open
  <2>3. ~unloading /\ \A e \in {"run"} : e \in oops' => e \in oops
    BY DEF Open
  <2> QED BY <2>1, <2>2, <2>3, UsersKept DEF Open
<1> QED BY <1>1, <1>2, <1>3 DEF CoresInv

LEMMA CloseStep ==
  ASSUME Orderly, CoresInv, NEW f \in Files, Close(f)
  PROVE  CoresInv'
<1>1. CoresTypeOK'
  <2>1. FileTypes'
    BY DEF CoresInv, FileTypes, Close
  <2> QED BY <2>1, TypesKept DEF CoresInv, Close
<1>2. FlowOK' /\ DeviceOK' /\ PowerOK' /\ PartsOK'
  BY Kept DEF CoresInv, Close
<1>3. UsersOK'
  <2>1. \A s \in Slots : Ready(s)' <=> Ready(s)
    BY DEF Ready, InProgress, Here, Bound, Close
  <2>2. \A d : Caught(d)' <=> Caught(d)
    BY DEF Caught, TornDown, Bound, Close
  <2>3. \A g \in Files : entity[g] = None => entity'[g] = None
    BY DEF CoresInv, FileTypes, Close
  <2> QED BY <2>1, <2>2, <2>3, UsersKept DEF Close
<1> QED BY <1>1, <1>2, <1>3 DEF CoresInv

-----------------------------------------------------------------------------
(* Jobs, interrupts and runtime PM.                                        *)
LEMMA RunJobStep ==
  ASSUME Orderly, CoresInv, NEW f \in Files, NEW s \in Slots, RunJob(f, s)
  PROVE  CoresInv'
<1>1. Ready(s) /\ running[s] = None /\ entity[f] # None
  BY DEF CoresInv, PartsOK, RunJob
<1>2. s < numCores /\ dev[s] \in Devs
  BY <1>1, ReadyCore DEF CoresInv
<1>3. /\ pm[dev[s]] \in {"active", "suspended"}
      /\ pm' = [pm EXCEPT ![dev[s]] = "active"]
      /\ attached' = [attached EXCEPT ![s] = f]
      /\ running' = [running EXCEPT ![s] = f]
      /\ UNCHANGED <<devVars, sched, parts, supply, irq, handling, flowVars, drvVars, entity, oops>>
  BY <1>2 DEF RunJob, SchedFound
<1>4. CoresTypeOK'
  <2>1. PowTypes' /\ CoreTypes'
    BY <1>2, <1>3 DEF CoresInv, PowTypes, CoreTypes
  <2> QED BY <1>3, <2>1, TypesKept DEF CoresInv
<1>5. FlowOK' /\ DeviceOK' /\ PartsOK'
  BY <1>3, Kept DEF CoresInv
<1>6. PowerOK'
  BY <1>2, <1>3 DEF CoresInv, PowTypes, PowerOK, PmOf, Supplied, Bound
<1>7. UsersOK'
  <2>1. ~unloading /\ ~hasty
    BY <1>1 DEF CoresInv, UsersOK, UnloadOK
  <2>2. \A t \in Slots : Ready(t)' <=> Ready(t)
    BY <1>3 DEF Ready, InProgress, Here, Bound
  <2>3. \A e \in Devs : pm[e] = "active" => pm'[e] = "active"
    BY <1>2, <1>3 DEF CoresInv, PowTypes
  <2>4. \A t \in Slots : Ready(t) => dev[t] \in Devs
    BY ReadyCore DEF CoresInv
  <2>5. attached'[s] = f /\ running'[s] = f /\ pm'[dev[s]] = "active"
        /\ \A t \in Slots : t # s => attached'[t] = attached[t] /\ running'[t] = running[t]
    BY <1>2, <1>3 DEF CoresInv, PowTypes, CoreTypes
  <2>6. RunningOK'
    BY <1>1, <1>3, <2>1, <2>2, <2>3, <2>4, <2>5 DEF CoresInv, UsersOK, RunningOK, Caught
  <2>7. HandlingOK'
    BY <1>3, <2>1, <2>3 DEF CoresInv, PowTypes, UsersOK, HandlingOK, Caught
  <2> QED BY <1>3, <2>1, <2>6, <2>7 DEF CoresInv, UsersOK, UnloadOK
<1> QED BY <1>4, <1>5, <1>6, <1>7 DEF CoresInv

LEMMA JobEndsStep ==
  ASSUME Orderly, CoresInv, NEW s \in Slots, JobEnds(s)
  PROVE  CoresInv'
<1>1. CoresTypeOK'
  <2>1. CoreTypes'
    BY DEF CoresInv, CoreTypes, JobEnds
  <2> QED BY <2>1, TypesKept DEF CoresInv, JobEnds
<1>2. FlowOK' /\ DeviceOK' /\ PowerOK' /\ PartsOK'
  BY Kept DEF CoresInv, JobEnds
<1>3. UsersOK'
  <2>1. \A t \in Slots : Ready(t)' <=> Ready(t)
    BY DEF Ready, InProgress, Here, Bound, JobEnds
  <2>2. \A d : Caught(d)' <=> Caught(d)
    BY DEF Caught, TornDown, Bound, JobEnds
  <2>3. \A t \in Slots : running'[t] \in {running[t], None}
    BY DEF CoresInv, CoreTypes, JobEnds
  <2> QED BY <2>1, <2>2, <2>3, UsersKept DEF JobEnds
<1> QED BY <1>1, <1>2, <1>3 DEF CoresInv

LEMMA IrqStep ==
  ASSUME Orderly, CoresInv, NEW d \in Devs, IrqEnter(d) \/ IrqExit(d)
  PROVE  CoresInv'
<1>1. CoresTypeOK'
  <2>1. PowTypes'
    BY DEF CoresInv, PowTypes, IrqEnter, IrqExit
  <2> QED BY <2>1, TypesKept DEF CoresInv, IrqEnter, IrqExit
<1>2. FlowOK' /\ DeviceOK' /\ PowerOK' /\ PartsOK'
  BY Kept DEF CoresInv, IrqEnter, IrqExit
<1>3. UsersOK'
  <2>1. RunningOK' /\ UnloadOK'
    BY DEF CoresInv, UsersOK, RunningOK, UnloadOK, Ready, InProgress, Here, Bound,
       TornDown, Caught, IrqEnter, IrqExit
  <2>2. \A e : Caught(e)' <=> Caught(e)
    BY DEF Caught, TornDown, Bound, IrqEnter, IrqExit
  <2>3. HandlingOK'
    BY <2>2 DEF CoresInv, UsersOK, HandlingOK, IrqEnter, IrqExit, GetIfInUse
  <2> QED BY <2>1, <2>3 DEF CoresInv, UsersOK, IrqEnter, IrqExit
<1> QED BY <1>1, <1>2, <1>3 DEF CoresInv

LEMMA SuspendStep ==
  ASSUME Orderly, CoresInv, NEW d \in Devs, Suspend(d)
  PROVE  CoresInv'
<1>1. CoresTypeOK'
  <2>1. PowTypes'
    BY DEF CoresInv, PowTypes, Suspend
  <2> QED BY <2>1, TypesKept DEF CoresInv, Suspend
<1>2. FlowOK' /\ DeviceOK' /\ PartsOK'
  BY Kept DEF CoresInv, Suspend
<1>3. PowerOK'
  BY DEF CoresInv, PowTypes, PowerOK, PmOf, Supplied, Bound, Suspend, InUse
<1>4. UsersOK'
  <2>1. \A e \in Devs : e # d => pm'[e] = pm[e]
    BY DEF CoresInv, PowTypes, Suspend
  <2>2. pm'[d] = "suspended" /\ d \notin handling
        /\ \A s \in Slots : running[s] # None => dev[s] # d
    BY DEF CoresInv, PowTypes, Suspend, InUse
  <2>3. \A s \in Slots : Ready(s) => dev[s] \in Devs
    BY ReadyCore DEF CoresInv
  <2>4. \A s \in Slots : Ready(s)' <=> Ready(s)
    BY DEF Ready, InProgress, Here, Bound, Suspend
  <2>5. \A e : Caught(e)' <=> Caught(e)
    BY DEF Caught, TornDown, Bound, Suspend
  <2>6. RunningOK'
    BY <2>1, <2>2, <2>3, <2>4, <2>5 DEF CoresInv, UsersOK, RunningOK, Suspend
  <2>7. HandlingOK'
    BY <2>1, <2>2, <2>5 DEF CoresInv, PowTypes, UsersOK, HandlingOK, Suspend
  <2>8. UnloadOK'
    BY <2>1, <2>2 DEF CoresInv, UsersOK, UnloadOK, Suspend
  <2> QED BY <2>6, <2>7, <2>8 DEF CoresInv, UsersOK, Suspend
<1> QED BY <1>1, <1>2, <1>3, <1>4 DEF CoresInv

-----------------------------------------------------------------------------
(* From the counting of a core to the end of its probe, and from the start *)
(* of a removal to its end, only the core itself changes.                  *)
LEMMA Onward ==
  ASSUME Orderly, CoresInv,
         UNCHANGED <<devVars, cur, core, bound, unloading>>,
         pc \notin BeforeCount, pc' \notin BeforeCount,
         cur \in Bound => pc' \in Fini \cup {"removed"},
         pc' = "removed" => cur \in Bound
  PROVE  FlowOK' /\ DeviceOK'
<1>1. Bound' = Bound /\ Here' = Here /\ NextToUnbind' = NextToUnbind
  BY DEF Bound, Here, NextToUnbind
<1>2. FlowOK'
  BY <1>1 DEF CoresInv, FlowOK, BeforeCount
<1>3. DeviceOK'
  BY DEF CoresInv, DeviceOK, BeforeCount
<1> QED BY <1>2, <1>3

(* A core that is being initialised is so before the module is removed.     *)
LEMMA NotUnloading ==
  ASSUME Orderly, CoresInv, pc # "idle", cur \notin Bound
  PROVE  ~unloading /\ ~hasty /\ \A d : ~Caught(d)
BY DEF CoresInv, FlowOK, UsersOK, UnloadOK, Caught

(* A core that is torn down executes nothing, unless it was active when the *)
(* removal of the module began: after a failed resume it was never up, and  *)
(* once no file is open nothing resumes a core that is suspended.           *)
LEMMA NothingRuns ==
  ASSUME Orderly, CoresInv, pc \in Fini \cup {"failed", "removed"}
  PROVE  /\ hasty \/ pm[cur] # "active"
         /\ \A s \in Slots : running[s] # None =>
              Caught(dev[s]) \/ (s # Here /\ dev[s] # cur)
<1>1. dev[Here] = cur /\ cur \in Devs
  BY HereIsSlot DEF CoresInv, Fini
<1>2. hasty \/ pm[cur] # "active"
  <2>1. CASE cur \in Bound
    BY <1>1, <2>1 DEF CoresInv, UsersOK, UnloadOK, FlowOK
  <2>2. CASE cur \notin Bound
    BY <1>1, <2>2 DEF CoresInv, PowerOK, PmOf, Fini
  <2> QED BY <2>1, <2>2
<1>3. ASSUME NEW s \in Slots, running[s] # None, ~Caught(dev[s])
      PROVE  s # Here /\ dev[s] # cur
  <2>1. pm[dev[s]] = "active"
    BY <1>3 DEF CoresInv, UsersOK, RunningOK
  <2>2. ASSUME dev[s] = cur PROVE FALSE
    <3>1. hasty
      BY <1>2, <2>1, <2>2
    <3>2. TornDown(cur)
      BY DEF TornDown, Fini
    <3> QED BY <1>3, <2>2, <3>1, <3>2 DEF Caught
  <2> QED BY <1>1, <2>2
<1> QED BY <1>2, <1>3

LEMMA InitResourcesStep ==
  ASSUME Orderly, CoresInv, InitResources
  PROVE  CoresInv'
<1>1. FlowOK' /\ DeviceOK'
  BY Onward DEF CoresInv, InitResources, Step, BeforeCount, Fini, FlowOK
<1>2. Here \in Slots /\ core = Here /\ dev[Here] = cur /\ cur \in Devs
  BY HereIsSlot DEF CoresInv, InitResources, Step
<1>3. Here' = Here /\ Bound' = Bound
  BY DEF Here, Bound, InitResources
<1>4. CoresTypeOK'
  <2>1. PowTypes'
    BY <1>2 DEF CoresInv, PowTypes, InitResources, Step
  <2>2. CoreTypes'
    BY <1>2 DEF CoresInv, CoreTypes, InitResources, Step
  <2>3. FlowTypes'
    BY <1>2 DEF CoresInv, FlowTypes, InitResources, Step
  <2> QED BY <2>1, <2>2, <2>3, TypesKept DEF CoresInv, InitResources
<1>5. PowerOK'
  BY <1>2, <1>3 DEF CoresInv, PowTypes, PowerOK, PmOf, Supplied, InitResources, Step
<1>6. PartsOK'
  BY <1>2, <1>3 DEF CoresInv, CoreTypes, PartsOK, Ready, Whole, InProgress, BeforeCount, Fini,
     InitResources, Step
<1>7. UsersOK'
  <2>1. ~unloading /\ ~hasty /\ \A d : ~Caught(d)
    BY NotUnloading DEF CoresInv, FlowOK, Fini, InitResources, Step
  <2>2. \A s \in Slots : Ready(s) => Ready(s)' /\ dev[s] \in Devs
    BY <1>3, ReadyCore DEF CoresInv, Ready, InProgress, BeforeCount, Fini, InitResources, Step
  <2>3. \A d \in Devs : pm[d] = "active" => pm'[d] = "active"
    BY DEF InitResources
  <2>4. handling \subseteq Devs /\ \A s \in Slots : running[s] # None => Ready(s)
    BY <2>1 DEF CoresInv, PowTypes, UsersOK, RunningOK
  <2> QED BY <2>1, <2>2, <2>3, <2>4, UsersKept DEF InitResources
<1> QED BY <1>1, <1>4, <1>5, <1>6, <1>7 DEF CoresInv

LEMMA InitJobStep ==
  ASSUME Orderly, CoresInv, InitJob
  PROVE  CoresInv'
<1>1. FlowOK' /\ DeviceOK'
  BY Onward DEF CoresInv, InitJob, Step, BeforeCount, Fini, FlowOK
<1>2. Here \in Slots /\ core = Here /\ dev[Here] = cur /\ cur \in Devs
  BY HereIsSlot DEF CoresInv, InitJob, Step
<1>3. Here' = Here /\ Bound' = Bound
  BY DEF Here, Bound, InitJob
<1>4. CoresTypeOK'
  <2>1. PowTypes'
    BY <1>2 DEF CoresInv, PowTypes, InitJob, Step
  <2>2. CoreTypes'
    BY <1>2 DEF CoresInv, CoreTypes, InitJob, Step
  <2>3. FlowTypes'
    BY <1>2 DEF CoresInv, FlowTypes, InitJob, Step
  <2>4. DrvTypes'
    BY <1>2 DEF CoresInv, DrvTypes, InitJob, Step
  <2> QED BY <2>1, <2>2, <2>3, <2>4, TypesKept DEF CoresInv, InitJob
<1>5. PowerOK'
  BY <1>2, <1>3 DEF CoresInv, PowTypes, PowerOK, PmOf, Supplied, InitJob, Step
<1>6. PartsOK'
  BY <1>2, <1>3 DEF CoresInv, CoreTypes, PartsOK, Ready, Whole, InProgress, BeforeCount, Fini,
     InitJob, Step
<1>7. UsersOK'
  <2>1. ~unloading /\ ~hasty /\ \A d : ~Caught(d)
    BY NotUnloading DEF CoresInv, FlowOK, Fini, InitJob, Step
  <2>2. \A s \in Slots : Ready(s) => Ready(s)' /\ dev[s] \in Devs
    BY <1>3, ReadyCore DEF CoresInv, Ready, InProgress, BeforeCount, Fini, InitJob, Step
  <2>3. \A d \in Devs : pm[d] = "active" => pm'[d] = "active"
    BY DEF InitJob
  <2>4. handling \subseteq Devs /\ \A s \in Slots : running[s] # None => Ready(s)
    BY <2>1 DEF CoresInv, PowTypes, UsersOK, RunningOK
  <2> QED BY <2>1, <2>2, <2>3, <2>4, UsersKept DEF InitJob
<1> QED BY <1>1, <1>4, <1>5, <1>6, <1>7 DEF CoresInv

LEMMA InitPmStep ==
  ASSUME Orderly, CoresInv, InitPm
  PROVE  CoresInv'
<1>1. FlowOK' /\ DeviceOK'
  BY Onward DEF CoresInv, InitPm, Step, BeforeCount, Fini, FlowOK
<1>2. Here \in Slots /\ core = Here /\ dev[Here] = cur /\ cur \in Devs
  BY HereIsSlot DEF CoresInv, InitPm, Step
<1>3. Here' = Here /\ Bound' = Bound
  BY DEF Here, Bound, InitPm
<1>4. CoresTypeOK'
  <2>1. PowTypes'
    BY <1>2 DEF CoresInv, PowTypes, InitPm, Step
  <2>2. FlowTypes'
    BY <1>2 DEF CoresInv, FlowTypes, InitPm, Step
  <2> QED BY <2>1, <2>2, TypesKept DEF CoresInv, InitPm
<1>5. PowerOK'
  BY <1>2, <1>3 DEF CoresInv, PowTypes, PowerOK, PmOf, Supplied, InitPm, Step
<1>6. PartsOK'
  BY <1>2, <1>3 DEF CoresInv, CoreTypes, PartsOK, Ready, Whole, InProgress, BeforeCount, Fini,
     InitPm, Step
<1>7. UsersOK'
  <2>1. ~unloading /\ ~hasty /\ \A d : ~Caught(d)
    BY NotUnloading DEF CoresInv, FlowOK, Fini, InitPm, Step
  <2>2. \A s \in Slots : Ready(s) => Ready(s)' /\ dev[s] \in Devs
    BY <1>3, ReadyCore DEF CoresInv, Ready, InProgress, BeforeCount, Fini, InitPm, Step
  <2>3. \A d \in Devs : pm[d] = "active" => pm'[d] = "active"
    BY <1>2 DEF CoresInv, PowTypes, PowerOK, PmOf, InitPm, Step
  <2>4. handling \subseteq Devs /\ \A s \in Slots : running[s] # None => Ready(s)
    BY <2>1 DEF CoresInv, PowTypes, UsersOK, RunningOK
  <2> QED BY <2>1, <2>2, <2>3, <2>4, UsersKept DEF InitPm
<1> QED BY <1>1, <1>4, <1>5, <1>6, <1>7 DEF CoresInv

LEMMA InitResumeStep ==
  ASSUME Orderly, CoresInv, InitResume
  PROVE  CoresInv'
<1>1. FlowOK' /\ DeviceOK'
  BY Onward DEF CoresInv, InitResume, Step, BeforeCount, Fini, FlowOK
<1>2. Here \in Slots /\ core = Here /\ dev[Here] = cur /\ cur \in Devs
  BY HereIsSlot DEF CoresInv, InitResume, Step
<1>3. Here' = Here /\ Bound' = Bound
  BY DEF Here, Bound, InitResume
<1>4. CoresTypeOK'
  <2>1. PowTypes'
    BY <1>2 DEF CoresInv, PowTypes, InitResume, Step
  <2>2. FlowTypes'
    BY <1>2 DEF CoresInv, FlowTypes, InitResume, Step
  <2> QED BY <2>1, <2>2, TypesKept DEF CoresInv, InitResume
<1>5. PowerOK'
  BY <1>2, <1>3 DEF CoresInv, PowTypes, PowerOK, PmOf, Supplied, InitResume, Step, FlowOK, Fini
<1>6. PartsOK'
  BY <1>2, <1>3 DEF CoresInv, CoreTypes, PartsOK, Ready, Whole, InProgress, BeforeCount, Fini,
     InitResume, Step
<1>7. UsersOK'
  <2>1. ~unloading /\ ~hasty /\ \A d : ~Caught(d)
    BY NotUnloading DEF CoresInv, FlowOK, Fini, InitResume, Step
  <2>2. \A s \in Slots : Ready(s) => Ready(s)' /\ dev[s] \in Devs
    BY <1>3, ReadyCore DEF CoresInv, Ready, InProgress, BeforeCount, Fini, InitResume, Step
  <2>3. \A d \in Devs : pm[d] = "active" => pm'[d] = "active"
    BY <1>2 DEF CoresInv, PowTypes, InitResume, Step
  <2>4. handling \subseteq Devs /\ \A s \in Slots : running[s] # None => Ready(s)
    BY <2>1 DEF CoresInv, PowTypes, UsersOK, RunningOK
  <2> QED BY <2>1, <2>2, <2>3, <2>4, UsersKept DEF InitResume
<1> QED BY <1>1, <1>4, <1>5, <1>6, <1>7 DEF CoresInv

LEMMA FiniDetachStep ==
  ASSUME Orderly, CoresInv, FiniDetach
  PROVE  CoresInv'
<1>1. FlowOK' /\ DeviceOK'
  BY Onward DEF CoresInv, FiniDetach, Step, BeforeCount, Fini, FlowOK
<1>2. Here \in Slots /\ core = Here /\ dev[Here] = cur /\ cur \in Devs
  BY HereIsSlot DEF CoresInv, FiniDetach, Step
<1>3. Here' = Here /\ Bound' = Bound
  BY DEF Here, Bound, FiniDetach
<1>4. CoresTypeOK'
  <2>1. CoreTypes'
    BY <1>2 DEF CoresInv, CoreTypes, FiniDetach, Step
  <2>2. FlowTypes'
    BY <1>2 DEF CoresInv, FlowTypes, FiniDetach, Step
  <2> QED BY <2>1, <2>2, TypesKept DEF CoresInv, FiniDetach
<1>5. PowerOK'
  BY <1>2, <1>3 DEF CoresInv, PowTypes, PowerOK, PmOf, Supplied, FiniDetach, Step
<1>6. PartsOK'
  BY <1>2, <1>3 DEF CoresInv, CoreTypes, PartsOK, Ready, Whole, InProgress, BeforeCount, Fini,
     FiniDetach, Step
<1>7. UsersOK'
  <2>1. /\ hasty \/ pm[cur] # "active"
        /\ \A s \in Slots : running[s] # None => Caught(dev[s]) \/ (s # Here /\ dev[s] # cur)
    BY NothingRuns DEF CoresInv, FiniDetach, Step, Fini
  <2>2. /\ \A d : Caught(d)' <=> Caught(d)
        /\ \A s \in Slots : Caught(dev[s])' <=> Caught(dev[s])
    BY <1>3 DEF Caught, TornDown, FiniDetach, Step
  <2>3. \A s \in Slots : Ready(s) /\ s # Here => Ready(s)' /\ dev[s] \in Devs
    BY <1>3, ReadyCore DEF CoresInv, Ready, InProgress, FiniDetach, Step, BeforeCount
  <2>4. \A d \in Devs : /\ d # cur => pm'[d] = pm[d]
                        /\ pm'[d] = "active" => pm[d] = "active"
    BY <1>2 DEF CoresInv, PowTypes, FiniDetach
  <2>5. handling \subseteq Devs /\ (hasty => Caught(cur)) /\ Caught(cur)' = Caught(cur)
    BY <2>2 DEF CoresInv, PowTypes, Caught, TornDown, FiniDetach, Step
  <2>6. \A s \in Slots : s # Here => attached'[s] = attached[s]
    BY <1>2 DEF CoresInv, CoreTypes, FiniDetach
  <2>7. \A d \in handling : Caught(d)' \/ (pm[d] = "active" => pm'[d] = "active")
    BY <2>1, <2>2, <2>4, <2>5
  <2>8. \A s \in Slots : running[s] # None =>
          \/ Caught(dev[s])'
          \/ /\ attached'[s] = attached[s] /\ (Ready(s) => Ready(s)')
             /\ pm[dev[s]] = "active" => pm'[dev[s]] = "active"
    <3> TAKE s \in Slots
    <3> HAVE running[s] # None
    <3>1. CASE Caught(dev[s])
      BY <2>2, <2>5, <3>1
    <3>2. CASE ~Caught(dev[s])
      <4>1. s # Here /\ dev[s] # cur /\ Ready(s)
        BY <2>1, <3>2 DEF CoresInv, UsersOK, RunningOK
      <4> QED BY <2>3, <2>4, <2>6, <4>1
    <3> QED BY <3>1, <3>2
  <2> QED BY <2>2, <2>4, <2>5, <2>7, <2>8, UsersKept DEF FiniDetach
<1> QED BY <1>1, <1>4, <1>5, <1>6, <1>7 DEF CoresInv

LEMMA FiniSupplyStep ==
  ASSUME Orderly, CoresInv, FiniSupply
  PROVE  CoresInv'
<1>1. FlowOK' /\ DeviceOK'
  BY Onward DEF CoresInv, FiniSupply, Step, BeforeCount, Fini, FlowOK
<1>2. Here \in Slots /\ core = Here /\ dev[Here] = cur /\ cur \in Devs
  BY HereIsSlot DEF CoresInv, FiniSupply, Step
<1>3. Here' = Here /\ Bound' = Bound
  BY DEF Here, Bound, FiniSupply
<1>4. CoresTypeOK'
  <2>1. PowTypes'
    BY <1>2 DEF CoresInv, PowTypes, PowerOK, Supplied, FiniSupply, Step, DropSupply
  <2>2. FlowTypes'
    BY <1>2 DEF CoresInv, FlowTypes, FiniSupply, Step, DropSupply
  <2> QED BY <2>1, <2>2, TypesKept DEF CoresInv, FiniSupply
<1>5. PowerOK'
  BY <1>2, <1>3 DEF CoresInv, PowTypes, PowerOK, PmOf, Supplied, FiniSupply, Step, DropSupply
<1>6. PartsOK'
  BY <1>2, <1>3 DEF CoresInv, CoreTypes, PartsOK, Ready, Whole, InProgress, BeforeCount, Fini,
     FiniSupply, Step
<1>7. UsersOK'
  <2>1. /\ hasty \/ pm[cur] # "active"
        /\ \A s \in Slots : running[s] # None => Caught(dev[s]) \/ (s # Here /\ dev[s] # cur)
    BY NothingRuns DEF CoresInv, FiniSupply, Step, Fini
  <2>2. /\ \A d : Caught(d)' <=> Caught(d)
        /\ \A s \in Slots : Caught(dev[s])' <=> Caught(dev[s])
    BY <1>3 DEF Caught, TornDown, FiniSupply, Step
  <2>3. \A s \in Slots : Ready(s) /\ s # Here => Ready(s)' /\ dev[s] \in Devs
    BY <1>3, ReadyCore DEF CoresInv, Ready, InProgress, FiniSupply, Step, BeforeCount
  <2>4. \A d \in Devs : /\ d # cur => pm'[d] = pm[d]
                        /\ pm'[d] = "active" => pm[d] = "active"
    BY <1>2 DEF CoresInv, PowTypes, FiniSupply
  <2>5. handling \subseteq Devs /\ (hasty => Caught(cur)) /\ Caught(cur)' = Caught(cur)
    BY <2>2 DEF CoresInv, PowTypes, Caught, TornDown, FiniSupply, Step
  <2>6. \A s \in Slots : s # Here => attached'[s] = attached[s]
    BY <1>2 DEF CoresInv, CoreTypes, FiniSupply
  <2>7. \A d \in handling : Caught(d)' \/ (pm[d] = "active" => pm'[d] = "active")
    BY <2>1, <2>2, <2>4, <2>5
  <2>8. \A s \in Slots : running[s] # None =>
          \/ Caught(dev[s])'
          \/ /\ attached'[s] = attached[s] /\ (Ready(s) => Ready(s)')
             /\ pm[dev[s]] = "active" => pm'[dev[s]] = "active"
    <3> TAKE s \in Slots
    <3> HAVE running[s] # None
    <3>1. CASE Caught(dev[s])
      BY <2>2, <2>5, <3>1
    <3>2. CASE ~Caught(dev[s])
      <4>1. s # Here /\ dev[s] # cur /\ Ready(s)
        BY <2>1, <3>2 DEF CoresInv, UsersOK, RunningOK
      <4> QED BY <2>3, <2>4, <2>6, <4>1
    <3> QED BY <3>1, <3>2
  <2> QED BY <2>2, <2>4, <2>5, <2>7, <2>8, UsersKept DEF FiniSupply
<1> QED BY <1>1, <1>4, <1>5, <1>6, <1>7 DEF CoresInv

LEMMA FiniDisableStep ==
  ASSUME Orderly, CoresInv, FiniDisable
  PROVE  CoresInv'
<1>1. FlowOK' /\ DeviceOK'
  BY Onward DEF CoresInv, FiniDisable, Step, BeforeCount, Fini, FlowOK
<1>2. Here \in Slots /\ core = Here /\ dev[Here] = cur /\ cur \in Devs
  BY HereIsSlot DEF CoresInv, FiniDisable, Step
<1>3. Here' = Here /\ Bound' = Bound
  BY DEF Here, Bound, FiniDisable
<1>4. CoresTypeOK'
  <2>1. PowTypes'
    BY <1>2 DEF CoresInv, PowTypes, FiniDisable, Step
  <2>2. CoreTypes'
    BY <1>2 DEF CoresInv, CoreTypes, FiniDisable, Step
  <2>3. FlowTypes'
    BY <1>2 DEF CoresInv, FlowTypes, FiniDisable, Step
  <2> QED BY <2>1, <2>2, <2>3, TypesKept DEF CoresInv, FiniDisable
<1>5. PowerOK'
  BY <1>2, <1>3 DEF CoresInv, PowTypes, PowerOK, PmOf, Supplied, FiniDisable, Step
<1>6. PartsOK'
  BY <1>2, <1>3 DEF CoresInv, CoreTypes, PartsOK, Ready, Whole, InProgress, BeforeCount, Fini,
     FiniDisable, Step
<1>7. UsersOK'
  <2>1. /\ hasty \/ pm[cur] # "active"
        /\ \A s \in Slots : running[s] # None => Caught(dev[s]) \/ (s # Here /\ dev[s] # cur)
    BY NothingRuns DEF CoresInv, FiniDisable, Step, Fini
  <2>2. /\ \A d : Caught(d)' <=> Caught(d)
        /\ \A s \in Slots : Caught(dev[s])' <=> Caught(dev[s])
    BY <1>3 DEF Caught, TornDown, FiniDisable, Step
  <2>3. \A s \in Slots : Ready(s) /\ s # Here => Ready(s)' /\ dev[s] \in Devs
    BY <1>3, ReadyCore DEF CoresInv, Ready, InProgress, FiniDisable, Step, BeforeCount
  <2>4. \A d \in Devs : /\ d # cur => pm'[d] = pm[d]
                        /\ pm'[d] = "active" => pm[d] = "active"
    BY <1>2 DEF CoresInv, PowTypes, FiniDisable
  <2>5. handling \subseteq Devs /\ (hasty => Caught(cur)) /\ Caught(cur)' = Caught(cur)
    BY <2>2 DEF CoresInv, PowTypes, Caught, TornDown, FiniDisable, Step
  <2>6. \A s \in Slots : s # Here => attached'[s] = attached[s]
    BY <1>2 DEF CoresInv, CoreTypes, FiniDisable
  <2>7. \A d \in handling : Caught(d)' \/ (pm[d] = "active" => pm'[d] = "active")
    BY <2>1, <2>2, <2>4, <2>5
  <2>8. \A s \in Slots : running[s] # None =>
          \/ Caught(dev[s])'
          \/ /\ attached'[s] = attached[s] /\ (Ready(s) => Ready(s)')
             /\ pm[dev[s]] = "active" => pm'[dev[s]] = "active"
    <3> TAKE s \in Slots
    <3> HAVE running[s] # None
    <3>1. CASE Caught(dev[s])
      BY <2>2, <2>5, <3>1
    <3>2. CASE ~Caught(dev[s])
      <4>1. s # Here /\ dev[s] # cur /\ Ready(s)
        BY <2>1, <3>2 DEF CoresInv, UsersOK, RunningOK
      <4> QED BY <2>3, <2>4, <2>6, <4>1
    <3> QED BY <3>1, <3>2
  <2> QED BY <2>2, <2>4, <2>5, <2>7, <2>8, UsersKept DEF FiniDisable
<1> QED BY <1>1, <1>4, <1>5, <1>6, <1>7 DEF CoresInv

LEMMA FiniSchedStep ==
  ASSUME Orderly, CoresInv, FiniSched
  PROVE  CoresInv'
<1>1. FlowOK' /\ DeviceOK'
  BY Onward DEF CoresInv, FiniSched, Step, BeforeCount, Fini, FlowOK
<1>2. Here \in Slots /\ core = Here /\ dev[Here] = cur /\ cur \in Devs
  BY HereIsSlot DEF CoresInv, FiniSched, Step
<1>3. Here' = Here /\ Bound' = Bound
  BY DEF Here, Bound, FiniSched
<1>4. CoresTypeOK'
  <2>1. CoreTypes'
    BY <1>2 DEF CoresInv, CoreTypes, FiniSched, Step
  <2>2. FlowTypes'
    BY <1>2 DEF CoresInv, FlowTypes, FiniSched, Step
  <2> QED BY <2>1, <2>2, TypesKept DEF CoresInv, FiniSched
<1>5. PowerOK'
  BY <1>2, <1>3 DEF CoresInv, PowTypes, PowerOK, PmOf, Supplied, FiniSched, Step
<1>6. PartsOK'
  BY <1>2, <1>3 DEF CoresInv, CoreTypes, PartsOK, Ready, Whole, InProgress, BeforeCount, Fini,
     FiniSched, Step
<1>7. UsersOK'
  <2>1. /\ hasty \/ pm[cur] # "active"
        /\ \A s \in Slots : running[s] # None => Caught(dev[s]) \/ (s # Here /\ dev[s] # cur)
    BY NothingRuns DEF CoresInv, FiniSched, Step, Fini
  <2>2. /\ \A d : Caught(d)' <=> Caught(d)
        /\ \A s \in Slots : Caught(dev[s])' <=> Caught(dev[s])
    BY <1>3 DEF Caught, TornDown, FiniSched, Step
  <2>3. \A s \in Slots : Ready(s) /\ s # Here => Ready(s)' /\ dev[s] \in Devs
    BY <1>3, ReadyCore DEF CoresInv, Ready, InProgress, FiniSched, Step, BeforeCount
  <2>4. \A d \in Devs : /\ d # cur => pm'[d] = pm[d]
                        /\ pm'[d] = "active" => pm[d] = "active"
    BY <1>2 DEF CoresInv, PowTypes, FiniSched
  <2>5. handling \subseteq Devs /\ (hasty => Caught(cur)) /\ Caught(cur)' = Caught(cur)
    BY <2>2 DEF CoresInv, PowTypes, Caught, TornDown, FiniSched, Step
  <2>6. \A s \in Slots : s # Here => attached'[s] = attached[s]
    BY <1>2 DEF CoresInv, CoreTypes, FiniSched
  <2>7. \A d \in handling : Caught(d)' \/ (pm[d] = "active" => pm'[d] = "active")
    BY <2>1, <2>2, <2>4, <2>5
  <2>8. \A s \in Slots : running[s] # None =>
          \/ Caught(dev[s])'
          \/ /\ attached'[s] = attached[s] /\ (Ready(s) => Ready(s)')
             /\ pm[dev[s]] = "active" => pm'[dev[s]] = "active"
    <3> TAKE s \in Slots
    <3> HAVE running[s] # None
    <3>1. CASE Caught(dev[s])
      BY <2>2, <2>5, <3>1
    <3>2. CASE ~Caught(dev[s])
      <4>1. s # Here /\ dev[s] # cur /\ Ready(s)
        BY <2>1, <3>2 DEF CoresInv, UsersOK, RunningOK
      <4> QED BY <2>3, <2>4, <2>6, <4>1
    <3> QED BY <3>1, <3>2
  <2> QED BY <2>2, <2>4, <2>5, <2>7, <2>8, UsersKept DEF FiniSched
<1> QED BY <1>1, <1>4, <1>5, <1>6, <1>7 DEF CoresInv

-----------------------------------------------------------------------------
(* Where bind and unbind begin and end.                                    *)
LEMMA OneEach ==
  ASSUME CoresTypeOK, FlowOK, NEW s \in Slots, NEW t \in Slots,
         s < numCores, t < numCores, dev[s] = dev[t]
  PROVE  s = t
<1>1. /\ bound \in Seq(Devs) /\ Len(bound) \in Nat /\ s \in Nat /\ t \in Nat
      /\ \A u \in Nat : u < Len(bound) =>
           u + 1 \in DOMAIN bound /\ bound[u + 1] \in Bound /\ dev[u] = bound[u + 1]
  <2>1. bound \in Seq(Devs) /\ Len(bound) \in Nat /\ s \in Nat /\ t \in Nat
    BY EnoughSlots DEF Slots, DrvTypes
  <2>2. \A u \in Nat : u < Len(bound) => u + 1 \in DOMAIN bound /\ (u + 1) - 1 = u
    BY <2>1
  <2> QED BY <2>1, <2>2 DEF FlowOK, Bound
<1>2. CASE s < Len(bound) /\ t < Len(bound)
  <2>1. s + 1 = t + 1
    BY <1>1, <1>2 DEF FlowOK
  <2> QED BY <1>1, <2>1
<1>3. CASE ~(s < Len(bound) /\ t < Len(bound))
  <2>1. pc \notin BeforeCount /\ cur \notin Bound /\ numCores = Len(bound) + 1
    BY <1>1, <1>3 DEF FlowOK
  <2>2. dev[Len(bound)] = cur
    BY <2>1, HereIsSlot DEF Here, BeforeCount
  <2> QED BY <1>1, <1>3, <2>1, <2>2
<1> QED BY <1>2, <1>3

LEMMA ProbeStep ==
  ASSUME Orderly, CoresInv, NEW d \in Devs, Probe(d)
  PROVE  CoresInv'
<1>1. /\ pc = "idle" /\ cur = None /\ d \notin Bound /\ ~unloading
      /\ UNCHANGED <<powVars, core, bound, unloading, hasty, failed>> /\ Bound' = Bound
  BY DEF CoresInv, FlowOK, Probe, Bound
<1>2. tries' \in [Devs -> 0 .. MaxTries]
  <2>1. tries[d] \in 0 .. MaxTries /\ tries[d] < MaxTries
    BY DEF CoresInv, DrvTypes, Probe
  <2>2. tries[d] + 1 \in 0 .. MaxTries
    BY <2>1
  <2> QED BY <2>2 DEF CoresInv, DrvTypes, Probe
<1>3. DrvTypes' /\ PowTypes'
  <2>1. PowTypes'
    BY <1>1, TypesKept DEF CoresInv
  <2> QED BY <1>1, <1>2, <2>1 DEF CoresInv, DrvTypes
<1>4. ~hasty /\ \A e : ~Caught(e)
  BY <1>1 DEF CoresInv, UsersOK, UnloadOK, Caught
<1>5. CASE rdev = "null" /\ DeviceInit /\ pc' = "slot" /\ cur' = d /\ UNCHANGED oops
  <2>1. bound = <<>> /\ Bound = {} /\ Len(bound) = 0
    BY <1>1, <1>5 DEF CoresInv, DeviceOK, Bound
  <2>2. CoresTypeOK'
    <3>1. rdev' \in {"null", "live", "error"} /\ registered' \in BOOLEAN
      BY <1>5 DEF DeviceInit
    <3>2. numCores' \in 0 .. Cardinality(Devs) /\ dev' \in [Slots -> Devs \cup {None}]
      BY <1>5, EnoughSlots DEF CoresInv, DeviceInit
    <3>3. CoreTypes' /\ FileTypes' /\ FlowTypes'
      BY <1>1, <1>5 DEF CoresInv, CoreTypes, FileTypes, FlowTypes, DeviceInit
    <3> QED BY <1>3, <3>1, <3>2, <3>3 DEF DevTypes
  <2>3. FlowOK' /\ DeviceOK'
    BY <1>1, <1>5, <2>1 DEF FlowOK, DeviceOK, BeforeCount, DeviceInit, Fini
  <2>4. PowerOK'
    BY <1>1, <1>5 DEF CoresInv, PowerOK, PmOf, Supplied
  <2>5. PartsOK'
    BY <1>1, <1>5, <2>1 DEF PartsOK, Ready, Whole, InProgress, BeforeCount, DeviceInit, Slots
  <2>6. UsersOK'
    <3>1. RunningOK'
      BY <1>5 DEF RunningOK, DeviceInit
    <3>2. HandlingOK' /\ UnloadOK'
      BY <1>1, <1>4 DEF CoresInv, UsersOK, HandlingOK, UnloadOK
    <3> QED BY <1>5, <3>1, <3>2 DEF CoresInv, UsersOK
  <2> QED BY <2>2, <2>3, <2>4, <2>5, <2>6 DEF CoresInv
<1>6. CASE /\ rdev = "null" /\ rdev' = "error"
           /\ UNCHANGED <<registered, numCores, dev, coreVars, entity, pc, cur, oops>>
  <2>1. CoresTypeOK'
    <3>1. CoreTypes' /\ FileTypes' /\ FlowTypes'
      BY <1>1, <1>6, TypesKept DEF CoresInv
    <3>2. DevTypes'
      BY <1>6 DEF CoresInv, DevTypes
    <3> QED BY <1>3, <3>1, <3>2
  <2>2. DeviceOK'
    BY <1>1, <1>6 DEF CoresInv, DeviceOK
  <2> QED BY <1>1, <1>6, <2>1, <2>2, Kept DEF CoresInv
<1>7. ASSUME UNCHANGED <<registered, rdev, numCores, dev, coreVars, entity>>,
             pc' \in {"slot", "oops"}, cur' = d, oops' \in {oops, oops \cup {"probe"}},
             IF pc' = "oops" THEN rdev = "error" ELSE rdev = "live"
      PROVE  CoresInv'
  <2>1. CoresTypeOK'
    <3>1. CoreTypes' /\ DevTypes'
      BY <1>7, TypesKept DEF CoresInv
    <3>2. FileTypes' /\ FlowTypes'
      BY <1>1, <1>7 DEF CoresInv, FileTypes, FlowTypes
    <3> QED BY <1>3, <3>1, <3>2
  <2>2. FlowOK' /\ DeviceOK'
    <3>1. FlowOK'
      BY <1>1, <1>7 DEF CoresInv, FlowOK, BeforeCount
    <3>2. DeviceOK'
      BY <1>1, <1>7 DEF CoresInv, DeviceOK
    <3> QED BY <3>1, <3>2
  <2>4. PowerOK'
    BY <1>1, <1>7 DEF CoresInv, PowerOK, PmOf, Supplied
  <2>5. PartsOK'
    BY <1>1, <1>7 DEF CoresInv, PartsOK, Ready, Whole, InProgress, BeforeCount
  <2>6. UsersOK'
    <3>1. \A s \in Slots : Ready(s) => Ready(s)'
      BY <1>1, <1>7 DEF Ready, InProgress, BeforeCount
    <3>2. UNCHANGED <<pm, running, attached, dev, handling, entity, unloading, hasty>>
      BY <1>1, <1>7
    <3>3. "run" \in oops' => "run" \in oops
      BY <1>7
    <3> QED BY <1>1, <1>4, <3>1, <3>2, <3>3, UsersKept
  <2> QED BY <2>1, <2>2, <2>4, <2>5, <2>6 DEF CoresInv
<1> QED BY <1>5, <1>6, <1>7 DEF Probe

LEMMA ProbeSlotStep ==
  ASSUME Orderly, CoresInv, ProbeSlot
  PROVE  CoresInv'
<1>1. /\ pc = "slot" /\ pc' = "count" /\ cur \in Devs /\ cur \notin Bound
      /\ numCores = Len(bound) /\ core' = numCores /\ dev' = [dev EXCEPT ![numCores] = cur]
      /\ UNCHANGED <<rdev, registered, numCores, coreVars, powVars, cur, drvVars, entity, oops>>
      /\ Bound' = Bound
  BY DEF CoresInv, FlowOK, BeforeCount, Fini, ProbeSlot, Step, Bound
<1>2. numCores \in Slots /\ Len(bound) \in Nat /\ bound \in Seq(Devs)
  BY <1>1, EnoughSlots DEF CoresInv, Slots, DrvTypes
<1>3. CoresTypeOK'
  <2>1. FlowTypes' /\ DevTypes'
    BY <1>1, <1>2 DEF CoresInv, FlowTypes, DevTypes
  <2> QED BY <1>1, <2>1, TypesKept DEF CoresInv
<1>4. \A s \in Slots : s < Len(bound) => dev'[s] = dev[s]
  BY <1>1, <1>2 DEF CoresInv, DevTypes
<1>5. FlowOK'
  <2>1. dev'[Here'] = cur' /\ core' = Here'
    BY <1>1, <1>2 DEF CoresInv, DevTypes, Here
  <2>2. \A i \in DOMAIN bound : i - 1 \in Slots /\ i - 1 < Len(bound)
    BY <1>2, EnoughSlots DEF CoresInv, Slots
  <2>3. \A i \in DOMAIN bound' : dev'[i - 1] = bound'[i]
    BY <1>1, <1>4, <2>2 DEF CoresInv, FlowOK
  <2> QED BY <1>1, <2>1, <2>3 DEF CoresInv, FlowOK, BeforeCount
<1>6. DeviceOK' /\ PowerOK'
  <2>1. DeviceOK'
    BY <1>1 DEF CoresInv, DeviceOK
  <2>2. PowerOK'
    BY <1>1 DEF CoresInv, PowerOK, PmOf, Supplied
  <2> QED BY <2>1, <2>2
<1>7. PartsOK'
  BY <1>1 DEF CoresInv, PartsOK, Ready, Whole, InProgress, BeforeCount
<1>8. UsersOK'
  <2>1. ~unloading /\ \A d : ~Caught(d)
    BY <1>1, NotUnloading
  <2>2. \A s \in Slots : running[s] # None => Ready(s) /\ Ready(s)' /\ dev'[s] = dev[s]
    BY <1>1, <1>4, <2>1
      DEF CoresInv, UsersOK, RunningOK, Ready, InProgress, BeforeCount
  <2> QED BY <1>1, <2>1, <2>2, UsersKept
<1> QED BY <1>3, <1>5, <1>6, <1>7, <1>8 DEF CoresInv

LEMMA ProbeCountStep ==
  ASSUME Orderly, CoresInv, ProbeCount
  PROVE  CoresInv'
<1>1. /\ pc = "count" /\ pc' = "init" /\ cur \in Devs /\ cur \notin Bound
      /\ numCores = Len(bound) /\ numCores' = numCores + 1
      /\ UNCHANGED <<rdev, registered, dev, coreVars, powVars, cur, core, drvVars, entity, oops>>
      /\ Bound' = Bound /\ Here = Len(bound) /\ Here' = Here
  BY DEF CoresInv, FlowOK, BeforeCount, Fini, ProbeCount, CountCore, Step, Bound, Here
<1>2. Len(bound) \in Nat /\ Len(bound) + 1 <= Cardinality(Devs) /\ Cardinality(Devs) \in Nat
  BY <1>1, EnoughSlots DEF CoresInv
<1>3. CoresTypeOK'
  <2>1. FlowTypes'
    BY <1>1 DEF CoresInv, FlowTypes
  <2>2. numCores' \in 0 .. Cardinality(Devs)
    BY <1>1, <1>2
  <2> QED BY <1>1, <2>1, <2>2, TypesKept DEF CoresInv, DevTypes
<1>4. FlowOK'
  BY <1>1 DEF CoresInv, FlowOK, BeforeCount
<1>5. DeviceOK'
  BY <1>1 DEF CoresInv, DeviceOK
<1>6. PowerOK'
  BY <1>1 DEF CoresInv, PowerOK, PmOf, Supplied
<1>7. PartsOK'
  BY <1>1, <1>2 DEF CoresInv, PartsOK, Ready, Whole, InProgress, BeforeCount, Fini, Slots
<1>8. UsersOK'
  <2>1. ~unloading /\ \A d : ~Caught(d)
    BY <1>1, NotUnloading
  <2>2. \A s \in Slots : Ready(s) => Ready(s)'
    BY <1>1, <1>2 DEF Ready, InProgress, BeforeCount, Fini, Slots
  <2> QED BY <1>1, <2>1, <2>2, UsersKept
<1> QED BY <1>3, <1>4, <1>5, <1>6, <1>7, <1>8 DEF CoresInv

LEMMA InitResetStep ==
  ASSUME Orderly, CoresInv, InitReset
  PROVE  CoresInv'
<1>1. /\ pc = "reset" /\ pc' = "idle" /\ cur \in Devs /\ cur \notin Bound
      /\ cur' = None /\ core' = None /\ numCores = Len(bound) + 1
      /\ bound' = Append(bound, cur)
      /\ UNCHANGED <<devVars, coreVars, powVars, tries, unloading, hasty, failed, entity, oops>>
      /\ Here = Len(bound) /\ dev[Len(bound)] = cur
  BY HereIsSlot DEF CoresInv, FlowOK, BeforeCount, Fini, InitReset, Step, Here
<1>2. /\ bound \in Seq(Devs) /\ Len(bound) \in Nat
      /\ bound' \in Seq(Devs) /\ Len(bound') = Len(bound) + 1
      /\ DOMAIN bound' = 1 .. Len(bound) + 1 /\ DOMAIN bound = 1 .. Len(bound)
      /\ bound'[Len(bound) + 1] = cur /\ \A i \in DOMAIN bound : bound'[i] = bound[i]
  BY <1>1 DEF CoresInv, DrvTypes
<1>3. Bound' = Bound \cup {cur} /\ None \notin Bound'
  BY <1>1, <1>2 DEF Bound
<1>4. CoresTypeOK'
  <2>1. FlowTypes' /\ bound' \in Seq(Devs)
    BY <1>1, <1>2 DEF FlowTypes
  <2> QED BY <1>1, <2>1, TypesKept DEF CoresInv, DrvTypes
<1>5. FlowOK'
  <2>1. \A i \in DOMAIN bound' : dev'[i - 1] = bound'[i]
    <3>1. \A i \in DOMAIN bound : dev[i - 1] = bound[i]
      BY DEF CoresInv, FlowOK
    <3>2. (Len(bound) + 1) - 1 = Len(bound)
      BY <1>2
    <3>3. \A i \in DOMAIN bound' : i \in DOMAIN bound \/ i = Len(bound) + 1
      BY <1>2
    <3> QED BY <1>1, <1>2, <3>1, <3>2, <3>3
  <2>2. \A i, k \in DOMAIN bound' : bound'[i] = bound'[k] => i = k
    BY <1>1, <1>2 DEF CoresInv, FlowOK, Bound
  <2> QED BY <1>1, <1>2, <1>3, <2>1, <2>2 DEF FlowOK, BeforeCount
<1>6. DeviceOK'
  BY <1>1, <1>2 DEF CoresInv, DeviceOK
<1>7. PowerOK'
  BY <1>1, <1>3 DEF CoresInv, PowerOK, PmOf, Supplied
<1>8. \A s \in Slots : (Ready(s)' <=> Ready(s)) /\ (Whole(s)' <=> Whole(s))
  BY <1>1, <1>2 DEF Ready, Whole, InProgress, BeforeCount, Slots
<1>9. PartsOK'
  BY <1>1, <1>8 DEF CoresInv, PartsOK
<1>10. UsersOK'
  <2>1. ~unloading /\ \A d : ~Caught(d)
    BY <1>1, NotUnloading
  <2> QED BY <1>1, <1>8, <2>1, UsersKept
<1> QED BY <1>4, <1>5, <1>6, <1>7, <1>9, <1>10 DEF CoresInv

LEMMA ProbeFailedStep ==
  ASSUME Orderly, CoresInv, ProbeFailed
  PROVE  CoresInv'
<1>1. /\ pc = "failed" /\ pc' = "idle" /\ cur \in Devs /\ cur \notin Bound
      /\ cur \notin handling /\ irq' = irq \ {cur}
      /\ cur' = None /\ core' = None /\ numCores = Len(bound) + 1 /\ DropCore
      /\ UNCHANGED <<dev, coreVars, supply, pm, handling, drvVars, entity, oops>>
      /\ Bound' = Bound /\ Here = Len(bound)
  BY DEF CoresInv, FlowOK, BeforeCount, Fini, ProbeFailed, Release, Step, Bound, Here
<1>2. /\ bound \in Seq(Devs) /\ Len(bound) \in Nat /\ Len(bound) <= Cardinality(Devs)
      /\ Cardinality(Devs) \in Nat
  BY EnoughSlots DEF CoresInv, DrvTypes
<1>3. numCores' = Len(bound) /\ (numCores' = 0 <=> bound = <<>>) /\ None \notin Bound
  BY <1>1, <1>2 DEF DropCore, Bound
<1>4. CoresTypeOK'
  <2>1. FlowTypes' /\ PowTypes'
    BY <1>1 DEF CoresInv, FlowTypes, PowTypes
  <2>2. numCores' \in 0 .. Cardinality(Devs)
    BY <1>2, <1>3
  <2>3. rdev' \in {"null", "live", "error"} /\ registered' \in BOOLEAN
    BY <1>1 DEF CoresInv, DevTypes, DropCore
  <2> QED BY <1>1, <2>1, <2>2, <2>3, TypesKept DEF CoresInv, DevTypes
<1>5. FlowOK'
  BY <1>1, <1>3 DEF CoresInv, FlowOK, BeforeCount
<1>6. DeviceOK'
  BY <1>1, <1>3 DEF CoresInv, DeviceOK, DropCore
<1>7. PowerOK'
  BY <1>1 DEF CoresInv, PowerOK, PmOf, Supplied
<1>8. PartsOK'
  BY <1>1, <1>2 DEF CoresInv, PartsOK, Ready, Whole, InProgress, BeforeCount, Fini, Slots
<1>9. UsersOK'
  <2>1. ~unloading /\ \A d : ~Caught(d)
    BY <1>1, NotUnloading
  <2>2. \A s \in Slots : running[s] # None => s # Here
    BY <1>1, <2>1, NothingRuns
  <2>3. \A s \in Slots : Ready(s) /\ s # Here => Ready(s)'
    BY <1>1 DEF Ready, InProgress, BeforeCount
  <2> QED BY <1>1, <2>1, <2>2, <2>3, UsersKept
<1> QED BY <1>4, <1>5, <1>6, <1>7, <1>8, <1>9 DEF CoresInv

LEMMA UnloadStep ==
  ASSUME Orderly, CoresInv, Unload
  PROVE  CoresInv'
<1>1. CoresTypeOK'
  <2>1. unloading' \in BOOLEAN /\ hasty' \in BOOLEAN
    BY DEF Unload
  <2> QED BY <2>1, TypesKept DEF CoresInv, DrvTypes, Unload
<1>2. FlowOK'
  BY DEF CoresInv, FlowOK, Unload, Bound, Here, NextToUnbind
<1>3. DeviceOK' /\ PowerOK' /\ PartsOK'
  BY Kept DEF CoresInv, Unload
<1>4. UsersOK'
  <2>1. /\ ~unloading /\ pc = "idle" /\ unloading' = TRUE
        /\ \A f \in Files : entity[f] = None
        /\ hasty' = (\E d \in Devs : pm[d] = "active")
        /\ UNCHANGED <<devVars, coreVars, powVars, flowVars, bound, entity, oops>>
    BY DEF Unload, ModuleUnused
  <2>2. \A d : ~Caught(d)
    BY <2>1 DEF CoresInv, UsersOK, UnloadOK, Caught
  <2>3. \A s \in Slots : Ready(s)' <=> Ready(s)
    BY <2>1 DEF Ready, InProgress, Here, Bound
  <2>4. RunningOK'
    BY <2>1, <2>2, <2>3 DEF CoresInv, UsersOK, RunningOK
  <2>5. HandlingOK'
    BY <2>1, <2>2 DEF CoresInv, UsersOK, HandlingOK
  <2>6. UnloadOK'
    BY <2>1 DEF UnloadOK
  <2> QED BY <2>1, <2>4, <2>5, <2>6 DEF CoresInv, UsersOK
<1> QED BY <1>1, <1>2, <1>3, <1>4 DEF CoresInv

(* Removal is in the reverse order of binding: the core is the last one.   *)
LEMMA RemoveStep ==
  ASSUME Orderly, CoresInv, NEW d \in Devs, Remove(d)
  PROVE  CoresInv'
<1>1. /\ pc = "idle" /\ cur = None /\ unloading /\ d \in Bound /\ d = bound[Len(bound)]
      /\ UNCHANGED <<devVars, coreVars, supply, pm, handling, tries, unloading, hasty, failed,
                     entity, oops>>
  BY DEF CoresInv, FlowOK, Remove, Orderly, NextToUnbind
<1>2. /\ bound \in Seq(Devs) /\ Len(bound) \in Nat /\ Len(bound) > 0
      /\ Len(bound) <= Cardinality(Devs) /\ Cardinality(Devs) \in Nat
      /\ numCores = Len(bound)
  BY <1>1, EnoughSlots DEF CoresInv, FlowOK, BeforeCount, DrvTypes, Bound
<1> DEFINE s == Len(bound) - 1
<1>3. s \in Slots /\ s < numCores /\ dev[s] = d
  BY <1>1, <1>2 DEF CoresInv, FlowOK, Slots
<1>4. Found(d) /\ FindCore(d) = s
  <2>1. \A t \in Slots : t < numCores /\ dev[t] = d => t = s
    BY <1>3, OneEach DEF CoresInv
  <2> QED BY <1>3, <2>1 DEF Found, FindCore
<1>5. /\ pc' = "detach" /\ cur' = d /\ core' = s /\ UNCHANGED <<bound, irq>> /\ Bound' = Bound
      /\ Here' = s
  <2>1. pc' = "detach" /\ cur' = d /\ core' = s /\ UNCHANGED <<bound, irq>>
    BY <1>4 DEF Remove
  <2> QED BY <1>1, <2>1 DEF Bound, Here
<1>6. CoresTypeOK'
  <2>1. FlowTypes'
    BY <1>3, <1>5 DEF FlowTypes
  <2> QED BY <1>1, <1>5, <2>1, TypesKept DEF CoresInv
<1>7. FlowOK'
  BY <1>1, <1>2, <1>3, <1>5 DEF CoresInv, FlowOK, BeforeCount, Fini, NextToUnbind
<1>8. DeviceOK'
  BY <1>1, <1>5 DEF CoresInv, DeviceOK, Bound
<1>9. PowerOK'
  BY <1>1, <1>5 DEF CoresInv, PowerOK, PmOf, Supplied
<1>10. \A t \in Slots : (Ready(t)' <=> Ready(t)) /\ (Whole(t)' <=> Whole(t))
  BY <1>1, <1>2, <1>5 DEF Ready, Whole, InProgress, BeforeCount, Fini, Slots
<1>11. PartsOK'
  BY <1>1, <1>10 DEF CoresInv, PartsOK
<1>12. UsersOK'
  <2>1. \A e : Caught(e) => Caught(e)'
    BY <1>1, <1>5 DEF Caught, TornDown
  <2> QED BY <1>1, <1>5, <1>10, <2>1, UsersKept
<1> QED BY <1>6, <1>7, <1>8, <1>9, <1>11, <1>12 DEF CoresInv

LEMMA RemovedStep ==
  ASSUME Orderly, CoresInv, Removed
  PROVE  CoresInv'
<1>1. /\ pc = "removed" /\ pc' = "idle" /\ cur \in Bound /\ cur = bound[Len(bound)] /\ unloading
      /\ cur \notin handling /\ irq' = irq \ {cur}
      /\ cur' = None /\ core' = None /\ numCores = Len(bound) /\ DropCore
      /\ bound' = Without(cur)
      /\ UNCHANGED <<dev, coreVars, supply, pm, handling, tries, unloading, hasty, failed,
                     entity, oops>>
      /\ Here = Len(bound) - 1
  BY DEF CoresInv, FlowOK, Removed, Release, Step, Here, NextToUnbind
<1>2. /\ bound \in Seq(Devs) /\ Len(bound) \in Nat /\ Len(bound) > 0
      /\ Len(bound) <= Cardinality(Devs) /\ Cardinality(Devs) \in Nat
      /\ DOMAIN bound = 1 .. Len(bound)
  BY <1>1, EnoughSlots DEF CoresInv, DrvTypes, Bound
<1>3. bound' = [k \in 1 .. Len(bound) - 1 |-> bound[k]]
  <2> DEFINE i == CHOOSE i \in DOMAIN bound : bound[i] = cur
  <2>1. i = Len(bound)
    BY <1>1, <1>2 DEF CoresInv, FlowOK
  <2>2. bound' = [k \in 1 .. Len(bound) - 1 |-> bound[IF k < i THEN k ELSE k + 1]]
    BY <1>1 DEF Without
  <2> HIDE DEF i
  <2>3. \A k \in 1 .. Len(bound) - 1 : k < i
    BY <1>2, <2>1
  <2> QED BY <2>2, <2>3
<1>4. /\ bound' \in Seq(Devs) /\ Len(bound') = Len(bound) - 1
      /\ DOMAIN bound' = 1 .. Len(bound) - 1
      /\ \A k \in DOMAIN bound' : k \in DOMAIN bound /\ bound'[k] = bound[k]
  <2>1. \A k \in 1 .. Len(bound) - 1 : k \in DOMAIN bound /\ bound[k] \in Devs
    BY <1>2
  <2> QED BY <1>2, <1>3, <2>1
<1>5. Bound' = Bound \ {cur} /\ None \notin Bound'
  <2>1. \A k \in DOMAIN bound' : bound[k] # cur
    <3>1. Len(bound) \in DOMAIN bound /\ \A k \in DOMAIN bound' : k # Len(bound)
      BY <1>2, <1>4
    <3> QED BY <1>1, <1>4, <3>1 DEF CoresInv, FlowOK
  <2>2. \A k \in DOMAIN bound : bound[k] # cur => k \in DOMAIN bound'
    BY <1>1, <1>2, <1>4
  <2>3. Bound' = Bound \ {cur}
    BY <1>4, <2>1, <2>2 DEF Bound
  <2>4. None \notin Bound
    BY <1>2 DEF Bound
  <2> QED BY <2>3, <2>4
<1>6. numCores' = Len(bound') /\ (numCores' = 0 <=> bound' = <<>>)
  BY <1>1, <1>2, <1>4 DEF DropCore
<1>7. CoresTypeOK'
  <2>1. FlowTypes' /\ PowTypes'
    BY <1>1 DEF CoresInv, FlowTypes, PowTypes
  <2>2. numCores' \in 0 .. Cardinality(Devs)
    BY <1>2, <1>4, <1>6
  <2>3. rdev' \in {"null", "live", "error"} /\ registered' \in BOOLEAN
    BY <1>1 DEF CoresInv, DevTypes, DropCore
  <2>4. DevTypes' /\ DrvTypes'
    BY <1>1, <1>4, <2>2, <2>3 DEF CoresInv, DevTypes, DrvTypes
  <2> QED BY <1>1, <2>1, <2>4, TypesKept DEF CoresInv
<1>8. FlowOK'
  <2>1. \A k \in DOMAIN bound' : dev'[k - 1] = bound'[k]
    BY <1>1, <1>4 DEF CoresInv, FlowOK
  <2>2. \A k, m \in DOMAIN bound' : bound'[k] = bound'[m] => k = m
    BY <1>4 DEF CoresInv, FlowOK
  <2> QED BY <1>1, <1>5, <1>6, <2>1, <2>2 DEF FlowOK, BeforeCount
<1>9. DeviceOK'
  BY <1>1, <1>6 DEF CoresInv, DeviceOK, DropCore
<1>10. PowerOK'
  BY <1>1, <1>5 DEF CoresInv, PowerOK, PmOf, Supplied
<1>11. \A s \in Slots : s # Here => (Ready(s)' <=> Ready(s)) /\ (Whole(s)' <=> Whole(s))
  BY <1>1, <1>2, <1>4 DEF Ready, Whole, InProgress, BeforeCount, Fini, Slots
<1>12. PartsOK'
  BY <1>1, <1>2, <1>4, <1>11 DEF CoresInv, PartsOK, Ready, Whole, InProgress, BeforeCount, Fini,
     Slots
<1>13. UsersOK'
  <2>1. \A e : Caught(e) => Caught(e)'
    BY <1>1, <1>5 DEF Caught, TornDown
  <2>2. \A s \in Slots : running[s] # None => Caught(dev[s]) \/ s # Here
    BY <1>1, NothingRuns
  <2>3. dev' = dev
    BY <1>1
  <2> QED BY <1>1, <1>11, <2>1, <2>2, <2>3, UsersKept
<1> QED BY <1>7, <1>8, <1>9, <1>10, <1>12, <1>13 DEF CoresInv

-----------------------------------------------------------------------------
LEMMA NextInv ==
  ASSUME Orderly, CoresInv, [Next]_vars
  PROVE  CoresInv'
<1>1. ASSUME UNCHANGED vars
      PROVE  CoresInv'
  BY <1>1, Kept, TypesKept DEF CoresInv, vars
<1>2. ASSUME NEW d \in Devs,
             Probe(d) \/ Remove(d) \/ IrqEnter(d) \/ IrqExit(d) \/ Suspend(d)
      PROVE  CoresInv'
  BY <1>2, ProbeStep, RemoveStep, IrqStep, SuspendStep
<1>3. ASSUME ProbeSlot \/ ProbeCount \/ ProbeFailed \/ Removed \/ Unload
      PROVE  CoresInv'
  BY <1>3, ProbeSlotStep, ProbeCountStep, ProbeFailedStep, RemovedStep, UnloadStep
<1>4. ASSUME CoreInit
      PROVE  CoresInv'
  BY <1>4, InitResourcesStep, InitJobStep, InitPmStep, InitResumeStep, InitResetStep DEF CoreInit
<1>5. ASSUME CoreFini
      PROVE  CoresInv'
  BY <1>5, FiniDetachStep, FiniSupplyStep, FiniDisableStep, FiniSchedStep DEF CoreFini
<1>6. ASSUME NEW f \in Files, Open(f) \/ Close(f) \/ \E s \in Slots : RunJob(f, s)
      PROVE  CoresInv'
  BY <1>6, OpenStep, CloseStep, RunJobStep
<1>7. ASSUME NEW s \in Slots, JobEnds(s)
      PROVE  CoresInv'
  BY <1>7, JobEndsStep
<1> QED BY <1>1, <1>2, <1>3, <1>4, <1>5, <1>6, <1>7 DEF Next

(* As long as cores are removed with the module, everything CoresInv says   *)
(* holds, whatever stages of whatever probes fail, with jobs that outlive   *)
(* their file and whenever the module is removed (drv.c:161-249,            *)
(* core.c:30-214, job.c:826-832).                                           *)
THEOREM CoresInvariant == ASSUME Orderly PROVE Spec => []CoresInv
<1>1. Init => CoresInv
  BY InitInv
<1>2. CoresInv /\ [Next]_vars => CoresInv'
  BY NextInv
<1> QED BY <1>1, <1>2, PTL DEF Spec

(* There is an element of cores[] for whoever is counted, no handler runs  *)
(* without an interrupt, and no supply is disabled more often than enabled. *)
THEOREM CoresTypeCorrect == ASSUME Orderly PROVE Spec => []CoresTypeOK
<1>1. CoresInv => CoresTypeOK
  BY DEF CoresInv
<1> QED BY <1>1, CoresInvariant, PTL

(* The element that a counted core is found in.                            *)
LEMMA FoundHere ==
  ASSUME CoresTypeOK, FlowOK, NEW d \in Devs,
         d \in Bound \/ (d = cur /\ pc \notin BeforeCount)
  PROVE  /\ Found(d) /\ FindCore(d) \in Slots
         /\ IF d = cur THEN FindCore(d) = Here /\ pc \notin BeforeCount
                       ELSE FindCore(d) < Len(bound) /\ FindCore(d) # Here
<1>1. bound \in Seq(Devs) /\ Len(bound) \in Nat /\ Len(bound) <= Cardinality(Devs)
      /\ Cardinality(Devs) \in Nat /\ None \notin Devs
  BY EnoughSlots DEF DrvTypes
<1>2. CASE d = cur
  <2>1. pc \notin BeforeCount
    BY <1>2 DEF FlowOK, BeforeCount, Fini
  <2>2. Here \in Slots /\ dev[Here] = d
    BY <1>2, <2>1, HereIsSlot DEF BeforeCount
  <2>3. Here < numCores
    BY <1>1, <2>1 DEF Here, FlowOK
  <2>4. \A t \in Slots : t < numCores /\ dev[t] = d => t = Here
    BY <2>2, <2>3, OneEach
  <2> QED BY <1>2, <2>1, <2>2, <2>3, <2>4 DEF Found, FindCore
<1>3. CASE d # cur
  <2>1. PICK i \in DOMAIN bound : bound[i] = d
    BY <1>3 DEF Bound
  <2> DEFINE t == i - 1
  <2>2. t \in Slots /\ t < Len(bound) /\ t + 1 = i
    BY <1>1, <2>1 DEF Slots
  <2>3. dev[t] = d /\ t < numCores
    BY <1>1, <2>1, <2>2 DEF FlowOK
  <2>4. \A u \in Slots : u < numCores /\ dev[u] = d => u = t
    BY <2>2, <2>3, OneEach
  <2>5. Found(d) /\ FindCore(d) = t
    BY <2>2, <2>3, <2>4 DEF Found, FindCore
  <2>6. t # Here
    BY <1>1, <1>3, <2>1, <2>2 DEF Here, FlowOK, NextToUnbind
  <2> QED BY <1>3, <2>2, <2>5, <2>6
<1> QED BY <1>2, <1>3

(* A core whose runtime PM may call back is among those searched, and a    *)
(* job that runs finds its core.                                           *)
THEOREM CallbacksFind == ASSUME Orderly PROVE Spec => []CallbacksFindCore
<1>1. ASSUME CoresInv PROVE CallbacksFindCore
  <2>1. ASSUME NEW d \in Devs, pm[d] # "off"
        PROVE  d \in Bound \/ (d = cur /\ pc \notin BeforeCount)
    BY <1>1, <2>1 DEF CoresInv, PowerOK, PmOf, BeforeCount
  <2>2. \A d \in Devs : pm[d] # "off" => Found(d)
    BY <1>1, <2>1, FoundHere DEF CoresInv
  <2> QED BY <1>1, <2>2 DEF CoresInv, UsersOK, CallbacksFindCore
<1> QED BY <1>1, CoresInvariant, PTL

(* Between binds and unbinds the DRM device and the list of cores are      *)
(* those of the bound devices.                                             *)
THEOREM DeviceMatches == ASSUME Orderly PROVE Spec => []DeviceMatchesCores
<1>1. CoresInv => DeviceMatchesCores
  BY DEF CoresInv, FlowOK, DeviceOK, BeforeCount, DeviceMatchesCores
<1> QED BY <1>1, CoresInvariant, PTL

(* The enable counts of the supply are exact, but for the leak of a failed *)
(* rocket_job_init().                                                      *)
THEOREM SupplyExact == ASSUME Orderly PROVE Spec => []SupplyMatches
<1>1. ASSUME CoresInv PROVE SupplyMatches
  BY <1>1 DEF CoresInv, FlowOK, PowerOK, Supplied, SupplyMatches
<1> QED BY <1>1, CoresInvariant, PTL

(* Jobs and interrupt handlers meet whole cores only, those of closed files *)
(* too, except on a core that the removal of a module that was not          *)
(* suspended has reached (core.c:191-213, README.md:167).                   *)
THEOREM WholeCores == ASSUME Orderly PROVE Spec => []WholeWhileUsed
<1>1. ASSUME CoresInv PROVE WholeWhileUsed
  <2>1. ASSUME NEW s \in Slots, running[s] # None, ~Caught(dev[s])
        PROVE  /\ attached[s] = running[s] /\ parts[s] = {"regs", "group"}
               /\ sched[s] = "ready" /\ supply[dev[s]] > 0 /\ pm[dev[s]] = "active"
    <3>1. Ready(s) /\ pm[dev[s]] = "active" /\ attached[s] = running[s]
      BY <1>1, <2>1 DEF CoresInv, UsersOK, RunningOK
    <3>2. InProgress(s) => pc \in {"pm", "resume", "reset"}
      BY <1>1, <2>1, <3>1, NothingRuns DEF CoresInv, Ready, InProgress
    <3>3. /\ dev[s] \in Devs
          /\ InProgress(s) => dev[s] = cur
          /\ ~InProgress(s) => dev[s] \in Bound /\ dev[s] # cur
      BY <1>1, <3>1, ReadyCore DEF CoresInv
    <3>4. supply[dev[s]] > 0
      BY <1>1, <3>2, <3>3 DEF CoresInv, PowerOK, Supplied
    <3>5. Whole(s)
      BY <3>1, <3>2 DEF Ready, Whole
    <3> QED BY <1>1, <3>1, <3>4, <3>5 DEF CoresInv, PartsOK
  <2>2. ASSUME NEW d \in handling, ~Caught(d)
        PROVE  /\ supply[d] > 0 /\ pm[d] = "active" /\ Found(d)
               /\ "regs" \in parts[FindCore(d)]
    <3>1. d \in Devs /\ pm[d] = "active"
      BY <1>1, <2>2 DEF CoresInv, PowTypes, UsersOK, HandlingOK
    <3>2. ~TornDown(d)
      <4>1. TornDown(d) => d = cur /\ pc \in Fini \cup {"failed", "removed"}
        BY DEF TornDown, Fini
      <4> QED BY <1>1, <2>2, <3>1, <4>1, NothingRuns DEF Caught
    <3>3. IF d = cur THEN pc \in {"resume", "reset"} ELSE d \in Bound
      BY <1>1, <3>1, <3>2 DEF CoresInv, PowerOK, PmOf, TornDown
    <3>4. /\ Found(d) /\ FindCore(d) \in Slots
          /\ IF d = cur THEN FindCore(d) = Here /\ pc \notin BeforeCount
                        ELSE FindCore(d) < Len(bound) /\ FindCore(d) # Here
      BY <1>1, <3>1, <3>3, FoundHere DEF CoresInv, BeforeCount
    <3>5. Whole(FindCore(d))
      BY <3>3, <3>4 DEF Whole, InProgress
    <3>6. supply[d] > 0
      BY <1>1, <3>1, <3>3 DEF CoresInv, PowerOK, Supplied
    <3> QED BY <1>1, <3>1, <3>4, <3>5, <3>6 DEF CoresInv, PartsOK
  <2> QED BY <2>1, <2>2 DEF WholeWhileUsed
<1> QED BY <1>1, CoresInvariant, PTL
=============================================================================

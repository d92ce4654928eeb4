----------------------------- MODULE RocketCores -----------------------------
(***************************************************************************)
(* The cores of the NPU coming and going under one DRM device:             *)
(* rocket_probe() and rocket_remove() with rocket_device_init(),           *)
(* rocket_core_init() and rocket_core_fini(), against files that are       *)
(* opened, jobs that run, interrupts and runtime PM in between.  The       *)
(* driver core binds and unbinds one device at a time; nothing keeps the   *)
(* others out while it does.  How a job executes is RocketJob.             *)
(***************************************************************************)
EXTENDS Integers, FiniteSets, Sequences

CONSTANTS
  Devs,       \* the platform devices of the cores
  Files,
  None,
  MaxTries,   \* bound: how often a device is probed
  Faults      \* part of the set of FaultAssumption

ASSUME CoresAssumption ==
  /\ IsFiniteSet(Devs)
  /\ None \notin Devs \cup Files \cup Int
  /\ MaxTries \in Nat

(***************************************************************************)
(* device   rocket_device_init() may fail                                  *)
(* early    rocket_core_init() may fail before it holds anything           *)
(* irq, wq, sched   the stages of rocket_job_init() may fail               *)
(* resume   the first runtime resume may fail                              *)
(* unbind   a core may be unbound by itself, while files are open          *)
(***************************************************************************)
ASSUME FaultAssumption ==
  Faults \subseteq {"device", "early", "irq", "wq", "sched", "resume", "unbind"}

VARIABLES
  rdev,        \* the static pointer: "null", "live" or "error" (an ERR_PTR)
  registered,  \* userspace can open the DRM device
  numCores,    \* rdev->num_cores
  dev,         \* [Slots -> rdev->cores[].dev]
  sched,       \* [Slots -> "none", "ready", "broken" or "gone"]
  parts,       \* [Slots -> what the core holds of "regs" and "group"]
  attached,    \* [Slots -> file whose domain is attached, or None]
  running,     \* [Slots -> file whose job is on the hardware, or None]
  supply,      \* [Devs -> enable count the driver holds of npu-supply]
  pm,          \* [Devs -> "off" (PM disabled), "suspended", "active", "error"]
  irq,         \* devices whose interrupt is requested
  handling,    \* devices whose hard handler has passed its PM check
  pc, cur, core,  \* the bind or unbind that is under way
  bound,       \* devices bound to the driver, in the order they were bound
  tries,       \* [Devs -> probes so far]
  unloading,   \* the module is being removed
  hasty,       \* history: its removal began with a core that was not suspended
  entity,      \* [Files -> slots in the file's sched_list, or None]
  failed,      \* history: devices whose rocket_job_init() has failed once
  oops         \* where a NULL or error pointer was dereferenced

devVars  == <<rdev, registered, numCores, dev>>
coreVars == <<sched, parts, attached, running>>
powVars  == <<supply, pm, irq, handling>>
flowVars == <<pc, cur, core>>
drvVars  == <<bound, tries, unloading, hasty, failed>>
vars == <<devVars, coreVars, powVars, flowVars, drvVars, entity, oops>>

(* rdev->cores has an element for each device of the device tree.          *)
Slots == 0 .. Cardinality(Devs) - 1

Bound == {bound[i] : i \in DOMAIN bound}

DevTypes ==
  /\ rdev \in {"null", "live", "error"}
  /\ registered \in BOOLEAN
  /\ numCores \in 0 .. Cardinality(Devs)
  /\ dev \in [Slots -> Devs \cup {None}]

CoreTypes ==
  /\ sched \in [Slots -> {"none", "ready", "broken", "gone"}]
  /\ parts \in [Slots -> SUBSET {"regs", "group"}]
  /\ attached \in [Slots -> Files \cup {None}]
  /\ running \in [Slots -> Files \cup {None}]

PowTypes ==
  /\ supply \in [Devs -> Nat]
  /\ pm \in [Devs -> {"off", "suspended", "active", "error"}]
  /\ irq \subseteq Devs /\ handling \subseteq irq

FlowTypes ==
  /\ pc \in {"idle", "slot", "count", "init", "job", "pm", "resume", "reset",
             "failed", "detach", "supply", "disable", "fini", "removed", "oops"}
  /\ cur \in Devs \cup {None}
  /\ core \in Slots \cup {None}

DrvTypes ==
  /\ bound \in Seq(Devs)
  /\ tries \in [Devs -> 0 .. MaxTries]
  /\ unloading \in BOOLEAN /\ hasty \in BOOLEAN
  /\ failed \subseteq Devs

FileTypes ==
  /\ entity \in [Files -> (SUBSET Slots) \cup {None}]
  /\ oops \subseteq {"open", "probe", "run"}

CoresTypeOK ==
  DevTypes /\ CoreTypes /\ PowTypes /\ FlowTypes /\ DrvTypes /\ FileTypes

(* rocket_register(): the facade device is there, no core is bound.        *)
Init ==
  /\ rdev = "null" /\ registered = FALSE /\ numCores = 0
  /\ dev = [s \in Slots |-> None]
  /\ sched = [s \in Slots |-> "none"]
  /\ parts = [s \in Slots |-> {}]
  /\ attached = [s \in Slots |-> None]
  /\ running = [s \in Slots |-> None]
  /\ supply = [d \in Devs |-> 0]
  /\ pm = [d \in Devs |-> "off"]
  /\ irq = {} /\ handling = {}
  /\ pc = "idle" /\ cur = None /\ core = None
  /\ bound = <<>>
  /\ tries = [d \in Devs |-> 0]
  /\ unloading = FALSE /\ hasty = FALSE /\ failed = {}
  /\ entity = [f \in Files |-> None]
  /\ oops = {}

Step(from, to) == pc = from /\ pc' = to

-----------------------------------------------------------------------------
(* find_core_for_dev(): only the first num_cores elements are searched.    *)
Found(d) == \E s \in Slots : s < numCores /\ dev[s] = d
FindCore(d) == CHOOSE s \in Slots : s < numCores /\ dev[s] = d

(* sched_to_core() searches the same elements.                             *)
SchedFound(s) == s < numCores

(* Who holds a PM reference of the device.                                 *)
InUse(d) ==
  \/ d \in handling
  \/ pc = "reset" /\ cur = d
  \/ \E s \in Slots : dev[s] = d /\ running[s] # None

-----------------------------------------------------------------------------
(* rocket_device_init(): new cores, all zero; the DRM device is visible    *)
(* before the first of them is filled in.  Files of an earlier device keep *)
(* schedulers that are gone.                                               *)
DeviceInit ==
  /\ rdev' = "live" /\ registered' = TRUE /\ numCores' = 0
  /\ dev' = [s \in Slots |-> None]
  /\ sched' = [s \in Slots |-> "none"]
  /\ parts' = [s \in Slots |-> {}]
  /\ attached' = [s \in Slots |-> None]
  /\ running' = [s \in Slots |-> None]
  /\ entity' = [f \in Files |-> IF entity[f] = None THEN None ELSE {}]

(* rocket_probe() is called.  What rocket_device_init() returns stays in   *)
(* rdev, an error too, and the next probe takes it for a device.           *)
Probe(d) ==
  /\ pc = "idle" /\ ~unloading /\ d \notin Bound
  /\ tries[d] < MaxTries
  /\ tries' = [tries EXCEPT ![d] = @ + 1]
  /\ \/ /\ rdev = "null"
        /\ DeviceInit
        /\ pc' = "slot" /\ cur' = d
        /\ UNCHANGED oops
     \/ /\ rdev = "null" /\ "device" \in Faults
        /\ rdev' = "error"
        /\ UNCHANGED <<registered, numCores, dev, coreVars, entity, pc, cur, oops>>
     \/ /\ rdev = "live"
        /\ pc' = "slot" /\ cur' = d
        /\ UNCHANGED <<devVars, coreVars, entity, oops>>
     \/ /\ rdev = "error"
        /\ pc' = "oops" /\ cur' = d
        /\ oops' = oops \cup {"probe"}
        /\ UNCHANGED <<devVars, coreVars, entity>>
  /\ UNCHANGED <<powVars, core, bound, unloading, hasty, failed>>

(* The next free element of cores[] is the device's; then it is counted,   *)
(* before it is initialised, so that the PM callbacks find it.             *)
ProbeSlot ==
  /\ Step("slot", "count")
  /\ core' = numCores
  /\ dev' = [dev EXCEPT ![numCores] = cur]
  /\ UNCHANGED <<rdev, registered, numCores, coreVars, powVars, cur, drvVars, entity, oops>>

CountLate == numCores \* Mutant: the core is not counted yet
CountCore == numCores + 1

ProbeCount ==
  /\ Step("count", "init")
  /\ numCores' = CountCore
  /\ UNCHANGED <<rdev, registered, dev, coreVars, powVars, cur, core, drvVars, entity, oops>>

(* rocket_core_init(): resets, clocks, registers, DMA mask and regulator   *)
(* are managed by the device; whatever fails there leaves nothing.  Then   *)
(* the supply is on, the blocks that are in no resource are mapped, and    *)
(* the IOMMU group is taken.                                               *)
InitResources ==
  /\ \/ /\ Step("init", "job")
        /\ supply' = [supply EXCEPT ![cur] = @ + 1]
        /\ parts' = [parts EXCEPT ![core] = {"regs", "group"}]
     \/ /\ "early" \in Faults /\ Step("init", "failed")
        /\ UNCHANGED <<supply, parts>>
  /\ UNCHANGED <<devVars, sched, attached, running, pm, irq, handling, cur, core,
                 drvVars, entity, oops>>

(* rocket_job_init().  The caller gives the IOMMU group back when it fails *)
(* and nothing else; a scheduler that could not be set up is torn down.    *)
InitJob ==
  /\ \/ /\ Step("job", "pm")
        /\ irq' = irq \cup {cur}
        /\ sched' = [sched EXCEPT ![core] = "ready"]
        /\ UNCHANGED <<parts, failed>>
     \/ /\ Step("job", "failed")
        /\ parts' = [parts EXCEPT ![core] = @ \ {"group"}]
        /\ failed' = failed \cup {cur}
        /\ \/ "irq" \in Faults /\ UNCHANGED <<irq, sched>>
           \/ "wq" \in Faults /\ irq' = irq \cup {cur} /\ UNCHANGED sched
           \/ /\ "sched" \in Faults /\ irq' = irq \cup {cur}
              /\ sched' = [sched EXCEPT ![core] = "broken"]
  /\ UNCHANGED <<devVars, attached, running, supply, pm, handling, cur, core,
                 bound, tries, unloading, hasty, entity, oops>>

InitPm ==
  /\ Step("pm", "resume")
  /\ pm' = [pm EXCEPT ![cur] = "suspended"]
  /\ UNCHANGED <<devVars, coreVars, supply, irq, handling, cur, core, drvVars, entity, oops>>

(* rocket_device_runtime_resume(): -ENODEV if the core is not found.  The  *)
(* PM core remembers an error and lets nobody in any more.                 *)
InitResume ==
  /\ \/ /\ Step("resume", "reset")
        /\ pm[cur] = "active" \/ Found(cur)
        /\ pm' = [pm EXCEPT ![cur] = "active"]
     \/ /\ Step("resume", "detach")
        /\ pm[cur] = "suspended"
        /\ ~Found(cur) \/ "resume" \in Faults
        /\ pm' = [pm EXCEPT ![cur] = "error"]
  /\ UNCHANGED <<devVars, coreVars, supply, irq, handling, cur, core, drvVars, entity, oops>>

(* The core is reset, its version read, and its PM reference put.          *)
InitReset ==
  /\ Step("reset", "idle")
  /\ bound' = Append(bound, cur)
  /\ cur' = None /\ core' = None
  /\ UNCHANGED <<devVars, coreVars, powVars, tries, unloading, hasty, failed, entity, oops>>

-----------------------------------------------------------------------------
(* rocket_core_fini(), after a failed resume or on removal: the attached   *)
(* domain and the mappings first ...                                       *)
FiniDetach ==
  /\ Step("detach", "supply")
  /\ attached' = [attached EXCEPT ![core] = None]
  /\ parts' = [parts EXCEPT ![core] = @ \ {"regs"}]
  /\ UNCHANGED <<devVars, sched, running, powVars, cur, core, drvVars, entity, oops>>

KeepSupply == UNCHANGED supply \* Mutant: nobody disables the regulator
DropSupply == supply' = [supply EXCEPT ![cur] = @ - 1]

(* ... then the supply ...                                                 *)
FiniSupply ==
  /\ Step("supply", "disable")
  /\ DropSupply
  /\ UNCHANGED <<devVars, coreVars, pm, irq, handling, cur, core, drvVars, entity, oops>>

(* ... runtime PM and the IOMMU group ...                                  *)
FiniDisable ==
  /\ Step("disable", "fini")
  /\ pm' = [pm EXCEPT ![cur] = "off"]
  /\ parts' = [parts EXCEPT ![core] = @ \ {"group"}]
  /\ UNCHANGED <<devVars, sched, attached, running, supply, irq, handling, cur, core,
                 drvVars, entity, oops>>

(* ... and the scheduler last: rocket_job_fini().                          *)
FiniSched ==
  /\ Step("fini", IF cur \in Bound THEN "removed" ELSE "failed")
  /\ sched' = [sched EXCEPT ![core] = "gone"]
  /\ UNCHANGED <<devVars, parts, attached, running, powVars, cur, core, drvVars, entity, oops>>

DropNothing == \* Mutant: the core is still counted
  UNCHANGED <<rdev, registered, numCores>>
DropCoreOnly == \* Mutant: rocket_device_fini() forgotten
  numCores' = numCores - 1 /\ UNCHANGED <<rdev, registered>>

(* One core less; with the last one rocket_device_fini().                  *)
DropCore ==
  /\ numCores' = numCores - 1
  /\ IF numCores' = 0
       THEN rdev' = "null" /\ registered' = FALSE
       ELSE UNCHANGED <<rdev, registered>>

(* The device's managed resources go, the interrupt with them, once its    *)
(* handler has returned.                                                   *)
Release(d) ==
  /\ d \notin handling
  /\ irq' = irq \ {d}
  /\ cur' = None /\ core' = None

ProbeFailed ==
  /\ Step("failed", "idle")
  /\ DropCore
  /\ Release(cur)
  /\ UNCHANGED <<dev, coreVars, supply, pm, handling, drvVars, entity, oops>>

(* rocket_open() takes a reference on the module, rocket_postclose() gives *)
(* it back.                                                                *)
NoModuleRef == TRUE \* Mutant: try_module_get() forgotten
ModuleUnused == \A f \in Files : entity[f] = None

(* rocket_unregister(), once no file holds the module: a job of one that   *)
(* was closed may still run.  "rmmod only while the NPU is                 *)
(* runtime-suspended" (README.md:167) is for whoever removes it.           *)
Unload ==
  /\ pc = "idle" /\ ~unloading /\ ModuleUnused
  /\ unloading' = TRUE
  /\ hasty' = (\E d \in Devs : pm[d] = "active")
  /\ UNCHANGED <<devVars, coreVars, powVars, flowVars, bound, tries, failed, entity, oops>>

NextToUnbind == bound[Len(bound)]

Without(d) ==
  LET i == CHOOSE i \in DOMAIN bound : bound[i] = d
  IN [k \in 1 .. Len(bound) - 1 |-> bound[IF k < i THEN k ELSE k + 1]]

(* rocket_remove().  The driver core unbinds the last device bound first;  *)
(* by itself a device is unbound from sysfs.                               *)
Remove(d) ==
  /\ pc = "idle" /\ d \in Bound
  /\ (unloading /\ d = NextToUnbind) \/ "unbind" \in Faults
  /\ IF Found(d)
       THEN /\ pc' = "detach" /\ cur' = d /\ core' = FindCore(d)
            /\ UNCHANGED <<bound, irq>>
       ELSE /\ bound' = Without(d)
            /\ Release(d)
            /\ UNCHANGED pc
  /\ UNCHANGED <<devVars, coreVars, supply, pm, handling, tries, unloading, hasty, failed,
                 entity, oops>>

Removed ==
  /\ Step("removed", "idle")
  /\ DropCore
  /\ bound' = Without(cur)
  /\ Release(cur)
  /\ UNCHANGED <<dev, coreVars, supply, pm, handling, tries, unloading, hasty, failed,
                 entity, oops>>

-----------------------------------------------------------------------------
(* rocket_open() makes a domain for the device of core 0 and an entity     *)
(* over the cores counted so far.                                          *)
Open(f) ==
  /\ registered /\ ~unloading /\ entity[f] = None
  /\ IF dev[0] = None
       THEN entity' = [entity EXCEPT ![f] = {}] /\ oops' = oops \cup {"open"}
       ELSE entity' = [entity EXCEPT ![f] = {s \in Slots : s < numCores}] /\ UNCHANGED oops
  /\ UNCHANGED <<devVars, coreVars, powVars, flowVars, drvVars>>

(* rocket_job_close() waits for what the entity queues, not for the job on *)
(* the hardware; then the module is given back.                            *)
Close(f) ==
  /\ entity[f] # None
  /\ entity' = [entity EXCEPT ![f] = None]
  /\ UNCHANGED <<devVars, coreVars, powVars, flowVars, drvVars, oops>>

(* rocket_job_run(), if the core can be resumed: the job's domain is       *)
(* attached and the job started.                                           *)
RunJob(f, s) ==
  /\ entity[f] # None /\ s \in entity[f]
  /\ sched[s] = "ready" /\ running[s] = None
  /\ IF SchedFound(s)
       THEN /\ pm[dev[s]] = "active" \/ (pm[dev[s]] = "suspended" /\ Found(dev[s]))
            /\ pm' = [pm EXCEPT ![dev[s]] = "active"]
            /\ attached' = [attached EXCEPT ![s] = f]
            /\ running' = [running EXCEPT ![s] = f]
            /\ UNCHANGED oops
       ELSE /\ oops' = oops \cup {"run"}
            /\ UNCHANGED <<pm, attached, running>>
  /\ UNCHANGED <<devVars, sched, parts, supply, irq, handling, flowVars, drvVars, entity>>

JobEnds(s) ==
  /\ running[s] # None
  /\ running' = [running EXCEPT ![s] = None]
  /\ UNCHANGED <<devVars, sched, parts, attached, powVars, flowVars, drvVars, entity, oops>>

(* rocket_job_irq_handler() on a line shared with the MMU: at any time,    *)
(* but past its first check only if somebody keeps the core active.        *)
AlwaysInUse(d) == TRUE \* Mutant: the check is gone
GetIfInUse(d) == pm[d] = "active" /\ InUse(d)

IrqEnter(d) ==
  /\ d \in irq \ handling
  /\ GetIfInUse(d)
  /\ handling' = handling \cup {d}
  /\ UNCHANGED <<devVars, coreVars, supply, pm, irq, flowVars, drvVars, entity, oops>>

IrqExit(d) ==
  /\ d \in handling
  /\ handling' = handling \ {d}
  /\ UNCHANGED <<devVars, coreVars, supply, pm, irq, flowVars, drvVars, entity, oops>>

(* rocket_device_runtime_suspend()                                         *)
Suspend(d) ==
  /\ pm[d] = "active" /\ ~InUse(d)
  /\ Found(d)
  /\ pm' = [pm EXCEPT ![d] = "suspended"]
  /\ UNCHANGED <<devVars, coreVars, supply, irq, handling, flowVars, drvVars, entity, oops>>

-----------------------------------------------------------------------------
CoreInit ==
  \/ InitResources \/ InitJob \/ InitPm \/ InitResume \/ InitReset
CoreFini == FiniDetach \/ FiniSupply \/ FiniDisable \/ FiniSched

Next ==
  \/ \E d \in Devs : Probe(d) \/ Remove(d) \/ IrqEnter(d) \/ IrqExit(d) \/ Suspend(d)
  \/ ProbeSlot \/ ProbeCount \/ CoreInit \/ CoreFini \/ ProbeFailed \/ Removed
  \/ Unload
  \/ \E f \in Files : Open(f) \/ Close(f) \/ \E s \in Slots : RunJob(f, s)
  \/ \E s \in Slots : JobEnds(s)

Spec == Init /\ [][Next]_vars
=============================================================================

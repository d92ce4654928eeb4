-------------------------- MODULE RocketCoresProps --------------------------
(***************************************************************************)
(* What must be true of cores that come and go.  Unless a property says    *)
(* otherwise, cores are removed with the module.                           *)
(***************************************************************************)
EXTENDS RocketCores

Orderly == "unbind" \notin Faults

(* The PM callbacks and rocket_job_run() find their core among the first   *)
(* num_cores whenever they can be called, in the middle of a probe too     *)
(* (drv.c:181-189, 237-249, job.c:431-442): else every resume is -ENODEV   *)
(* and rocket_job_run() follows a NULL core.                               *)
CallbacksFindCore ==
  Orderly => /\ \A d \in Devs : pm[d] # "off" => Found(d)
             /\ "run" \notin oops

(* The DRM device is there as long as there are cores and no longer, after *)
(* any sequence of probes that succeed, fail at any stage or are repeated, *)
(* and of removals (drv.c:168-200, 213-220).                               *)
DeviceMatchesCores ==
  Orderly /\ pc = "idle" =>
    /\ registered <=> bound # <<>>
    /\ numCores = Len(bound)
    /\ \A i \in DOMAIN bound : dev[i - 1] = bound[i]

(* The supply is enabled once for each bound core and for no other device, *)
(* whatever becomes of the probes of the others and of its own earlier     *)
(* ones; only a device whose rocket_job_init() has failed may keep more    *)
(* (core.c:90, 142-147, 207).                                              *)
SupplyMatches ==
  Orderly /\ pc = "idle" =>
    \A d \in Devs :
      /\ d \in Bound => supply[d] > 0
      /\ d \notin failed => supply[d] = IF d \in Bound THEN 1 ELSE 0

(* Nobody uses a core that is half there: a job on the hardware has its    *)
(* domain, registers, group, supply and scheduler; a hard handler past its *)
(* check has the mappings and the supply, though the interrupt is          *)
(* requested before runtime PM is enabled, files can be opened and jobs    *)
(* run before the probe has ended, and rocket_core_fini() takes everything *)
(* away before it stops the scheduler (core.c:142-184, 191-213).  That a   *)
(* file keeps the module does not keep its job from meeting the removal:   *)
(* the job may outlive the file (job.c:826-832, drv.c:125-130).  What does *)
(* is "rmmod only while the NPU is runtime-suspended" (README.md:167): the *)
(* removal of a suspended module meets nobody, neither job nor handler;    *)
(* otherwise those on a core it has reached are lost, and nobody else.     *)
TornDown(d) == cur = d /\ pc \in {"detach", "supply", "disable", "fini", "failed", "removed"}

(* rocket_core_fini() has begun on the core though it was not suspended.   *)
Caught(d) == hasty /\ (TornDown(d) \/ d \notin Bound)

WholeWhileUsed ==
  Orderly =>
    /\ \A s \in Slots : running[s] # None => Caught(dev[s]) \/
         /\ attached[s] = running[s]
         /\ parts[s] = {"regs", "group"}
         /\ sched[s] = "ready"
         /\ supply[dev[s]] > 0 /\ pm[dev[s]] = "active"
    /\ \A d \in handling : Caught(d) \/
         /\ supply[d] > 0 /\ pm[d] = "active" /\ Found(d)
         /\ "regs" \in parts[FindCore(d)]

(* "Last core removed, deinitialize DRM device." (drv.c:216), in whatever  *)
(* order cores are unbound.                                                *)
LastCoreRemoved == pc = "idle" /\ bound = <<>> => ~registered
=============================================================================

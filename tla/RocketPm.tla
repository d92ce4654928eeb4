------------------------------ MODULE RocketPm ------------------------------
(***************************************************************************)
(* Runtime power management of the core's device: the usage counter the    *)
(* driver's pm_runtime_get/put calls maintain, and whether the NPU is      *)
(* powered.  The runtime-PM core is a kernel library outside the           *)
(* repository; what is here is what rocket_job.c uses of it.               *)
(***************************************************************************)
EXTENDS Integers

VARIABLES
  usage,     \* dev->power.usage_count
  idleReq,   \* an autosuspend has been requested and not carried out
  powered    \* the device is RPM_ACTIVE

pmVars == <<usage, idleReq, powered>>

PmTypeOK ==
  /\ usage \in Nat
  /\ idleReq \in BOOLEAN
  /\ powered \in BOOLEAN

(* rocket_core_init() resumes the device, resets the core and puts its     *)
(* reference with pm_runtime_put_autosuspend().                            *)
PmInit ==
  /\ usage = 0
  /\ idleReq = TRUE
  /\ powered = TRUE

-----------------------------------------------------------------------------
(* pm_runtime_get_sync(): the reference is taken whether or not the resume *)
(* succeeds.                                                               *)
GetSync ==
  /\ usage' = usage + 1
  /\ idleReq' = FALSE
  /\ powered' = TRUE

GetSyncFailed ==
  /\ usage' = usage + 1
  /\ idleReq' = FALSE
  /\ UNCHANGED powered

(* pm_runtime_get_if_in_use()                                              *)
InUse == powered /\ usage > 0

GetIfInUse ==
  /\ InUse
  /\ usage' = usage + 1
  /\ UNCHANGED <<idleReq, powered>>

(* pm_runtime_put() and pm_runtime_put_autosuspend(): the last reference   *)
(* asks for a suspend.                                                     *)
Put ==
  /\ usage' = usage - 1
  /\ idleReq' = IF usage = 1 THEN TRUE ELSE idleReq
  /\ UNCHANGED powered

(* pm_runtime_put_noidle(): the counter only.                              *)
PutNoidle ==
  /\ usage' = usage - 1
  /\ UNCHANGED <<idleReq, powered>>

(* The PM workqueue carries the requested suspend out, unless the driver's *)
(* callback refuses with -EBUSY.                                           *)
PowerOff(idle) ==
  /\ powered
  /\ usage = 0
  /\ idleReq
  /\ idle
  /\ powered' = FALSE
  /\ idleReq' = FALSE
  /\ UNCHANGED usage
=============================================================================
